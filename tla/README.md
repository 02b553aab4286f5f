# Bright Side Car Wash: verification of the backend

This directory holds TLA+ models of the NestJS backend in `apps/nest-app`, the
configurations TLC checks them with, and proofs checked by TLAPS. The models
follow the source statement by statement where state changes: every handler is
cut at its awaits, and between two awaits other requests, the cron job, Redis,
Square or Brevo may act. Paths below are relative to `apps/nest-app/src`.

## 1. The system

One NestJS server over PostgreSQL (through Prisma) and Redis (through ioredis
and BullMQ). Square keeps the calendar, the catalog and the payments; Brevo
sends campaigns and mails and reports deliveries through a webhook. Nothing
locks a row and few operations open a transaction, so what concurrent requests
may do to each other is decided by the order of their queries.

| Component | State | Operations | Hard behaviour | Correct when | Status |
|---|---|---|---|---|---|
| Slot lock (`modules/application/booking/squareup-booking.service.ts`) | Redis `lock:<location>:<startAt>` | lock, release, ownership check, expiry | GET, call to Square and SET of two carts interleave; expiry at any moment | a lock goes only with cause; a lost hold stays lost; ownership precedes use; no slot is held for ever | modelled |
| Checkout (same file) | leads, payments, Square bookings and charges, the mail queue | `confirmBookingWithDeposit`, its rollback | lost answers, failing queries, a dying server between two stores | nobody pays for nothing, a failed checkout leaves nothing but what its rollback failed to undo, a paid one is recorded, rows and mails tell the truth | modelled |
| Kanban board (`modules/admin/lead/lead.service.ts`, `utils/lexorank.ts`) | leads' stage and rank string | create, import, move, edit to another stage, remove | stale views, equal ranks, ranks that grow | a card lands where it was dropped | modelled |
| Lead records, lead assignment (`lead.service.ts`, `lead.controller.ts`) | assignee and attachments of a lead, the files, the assignment history | update, removeAttachment, remove, assign, unassign | reads outside transactions, row locks, COMMITs without an answer, notices queued before the commit | the history names the assignee; whom it concerns is told; no attachment goes or returns without a cause | modelled |
| Notification queue (`modules/notification`) | BullMQ jobs, notification log | trigger, process, retry, stall | attempts repeated after a send; a dying worker | the log is true; sends are bounded | modelled |
| Campaign delivery (`modules/admin/campaign`) | campaigns, delivery logs, campaigns at Brevo | create, launch, suspend, restart, update, remove, webhook, cron job | guards read before awaits, events in any order, lost events | no verdict without cause, a suspension holds, a running campaign ends | modelled |
| Auth sessions (`modules/auth/auth.service.ts`, `guards/jwt-auth.guard.ts`) | `user_session` rows, `refresh_token:<id>`, `blacklist:<id>` | login, refresh, logout | three stores, no common transaction | a session ends once; the stores agree at rest | modelled |
| Team (`modules/admin/team/team.service.ts`) | status and roles of users | block, unblock, change of roles | sweeps overlap logins and refreshes; role changes overlap | what a sweep can see it ends; tokens carry the roles of the moment | modelled |
| Roles and permission cache (`modules/admin/role/role.service.ts`, `guards/permission.guard.ts`) | roles, role_permissions, `role:<name>` in Redis, never expiring | create, update, remove, guard, `me` | fills race with changes; failures between commit and SET | an entry is current unless a race or a failure spoiled it; guards decide by the database | modelled |
| Password OTP, staff invites (`auth.service.ts`) | two Redis keys, the user row | send, verify, reset; invite, accept, resend, remove | attempts counted after the comparison; single use by check and update | a used secret stays used; an invitation opens its own account; an active account is left alone | modelled |
| User profile, verification codes (`auth.service.ts`) | the user row | change of password and of e-mail, `verifyEmail`; the profile, phone and two-factor routes | writes of a row read before | as above | partly (section 8) |
| The rest | lead groups, mail log, queries, one row per request | lead groups, mail queue, pricing, controllers, content pages, reports, stages, templates, activity log, analytics, health | see section 8 | | not modelled |

How they interact. The checkout calls the ownership check of the slot lock, and
evicts the lock at its end; it enters leads with the default rank, which the
board then sorts. Blocking and role changes in the team service end the sessions
that auth created; the roles signed into a token are what the permission guard
looks up in the role cache, which the role service, the guard and `me` write.
A launch creates the delivery logs that the webhook and the cron job turn into
a verdict. An assignment queues its notice inside its transaction, and the
worker of the notification queue sends it whatever becomes of that transaction.
Accepting an invitation, resetting or changing a password and changing the
e-mail change the user row that login reads. Apart from these, components share no state.

## 2. The modules

| Module | Extends | What it is |
|---|---|---|
| `SlotLock` | | `lockTimeSlot`, `assertLockOwnership`, `releaseLock`, expiry |
| `BookingCheckout` | `SlotLock` | the composition of the lock with the checkout, Square, the database and the mail queue |
| `SlotLedger` | | the abstract promise: a place is reserved, sold to who reserved it, or withdrawn |
| `BookingCheckoutProofs` | `BookingCheckout` | nine theorems, the refinement of `SlotLedger` among them |
| `LexoRank` | | the rank arithmetic as operators on (number, length) |
| `LexoRankProofs` | `LexoRank` | two theorems: the order of ranks, and the padding of numbers; lemmas on the place of a midpoint |
| `KanbanBoard` | `LexoRank` | the board and the browser that moves cards on it |
| `KanbanBoardProofs` | `KanbanBoard`, `LexoRankProofs` | five theorems |
| `JobQueue` | | the queue of in-app notices: attempts, log rows, stalls |
| `LeadRecord` | `JobQueue` | one lead under concurrent edits, composed with the queue its assignments feed |
| `AssignmentBook` | | the abstract promise: an assignment takes effect at one moment, once its notice is on its way |
| `LeadRecordProofs` | `LeadRecord` | nine theorems, the refinement of `AssignmentBook` among them |
| `CampaignDelivery` | | one campaign, its logs, Brevo, webhook and cron job |
| `Mailing` | | the abstract promise: one mail and one list of entries per launch, no verdict before a mail is on its way |
| `CampaignDeliveryProofs` | `CampaignDelivery` | five theorems, the refinement of `Mailing` among them |
| `Register` | | the abstract promise of every code, token and session: issued once, ended for good |
| `AuthSession` | | the sessions of one user, and the sweeps of the team service |
| `AuthSessionProofs` | `AuthSession` | six theorems, two refinements of `Register` in one of them |
| `RolePermissions` | | roles, their cache, the guard and `me` |
| `RolePermissionsProofs` | `RolePermissions` | three theorems |
| `Account` | | forgotten passwords, invitations and the members' own changes of one e-mail address |
| `AccountProofs` | `Account` | six theorems, likewise |
| `MC...` | one each | symmetry sets for TLC; the `.cfg` files carry the constants |

Conventions. A process is one HTTP request; `pc[r]` names the await it has
reached, and an action is what happens between two awaits. A request serves
itself once: a retry is another request. `Faults` turns on what no business
rule explains (a failing call, a dying server). History variables are marked as
such; they appear in no guard. Operators whose comment begins with "Fault:" are
not part of the specification; each is a plausible bug against which a property
has been tried.

### SlotLock and BookingCheckout

`pc`, `slot` and `token` are the payload and the progress of a request, `lock`
is Redis. `LockTimeSlotGet`, `LockTimeSlotSearch` and `LockTimeSlotSet` are the
three awaits of `lockTimeSlot`; the lock token is the request's own name, which
stands for `randomUUID()`. Time is left out: a key with a time to live may
expire at any step. `CheckoutAssert` ... `Evict` are `confirmBookingWithDeposit`
in order, `RollbackGet`, `RollbackCancel` and `FailRecord` its catch block.
`createPaymentRecord` swallows its failures, and it fails without a lead id,
which `createLead` does not return if another checkout of the same e-mail
inserted the lead between its two queries. Two history variables name what a
catch block kept to itself: `rollbackFailed`, the checkouts whose `bookings.get`
or `bookings.cancel` threw, and `dbFailed`, those one of whose queries failed.

A cart names the team member who serves it, the Redis key names only location
and start time. Square is external: `Taken` says that it accepts one live booking
per start time *and team member*, so that several carts may book, and pay for,
one start time. A cart whose items go to different team members is modelled with
the first of them. Any call to Square may be refused, and with "lost" in `Faults`
a call takes effect while its answer does not arrive. `rescheduleBooking`,
`cancelBooking` and the older lead functions are reached by no route.

The lock excludes nobody for sure. Between the GET and the SET of `lockTimeSlot`
another cart may set the key, and both are told LOCKED; a release may delete a
key that changed hands since it was verified; and a checkout verifies its hold
once, long before it books. All of that is in the model, and no property says
otherwise. What is checked is what the tokens are worth nevertheless: a token is
used for the slot it was granted for (`OwnershipVerified`), and a hold that was
overwritten or deleted never passes `assertLockOwnership` again
(`LostHoldStaysLost`).

`SlotLedger` says the same without a lock, a row or an await: a place (a start
time of a team member) is reserved for one buyer, sold to the buyer who holds
it, or given back unsold. `BookingCheckout` implements it with `reserved` read
from the bookings Square has accepted and `sold` from the charges it has
captured, as long as no answer of Square is lost. That a place is not reserved
twice is Square's doing (`Taken`); that nothing is sold but to the holder of the
reservation, at most once, and that what is sold is not withdrawn is the code's.
With lost answers it does not hold: the rollback withdraws what was sold, which
is the finding of `booking_rollback`.

### LexoRank and KanbanBoard

A rank is the number `BigInt` reads and the length of the string, because the
midpoint is computed on the number while the database sorts the string. `create`
is cut between its query for the last rank and its insert; `moveLead` takes both
ranks from its payload, so it is one step, on a view (`shown`) that may be older
than the board. `update` with another stage is `ChangeStage`: the card keeps its
rank, whatever ranks the stage it comes to has. Powers of ten are a recursive
function, `TenTo`, because the provers know nothing of the exponent operator.

### JobQueue and LeadRecord

`JobQueue` has the three statements of the consumer for each attempt (insert the
log row, send, mark the row), the attempts BullMQ counts, and the stall of a job
whose worker died, which BullMQ puts back at most `MaxStalls` times without
counting an attempt. A delay before a retry is waiting. The worker takes one job
at a time, as the code configures none other.

`LeadRecord` is one lead. `read[r]` is the lead as a request read it before its
transaction; `holder` is the transaction that has updated the row, for which
other updates and a deletion wait, and `sharers` those that have inserted rows
that refer to it, which hold up a deletion only. Rows of the history are seen
when their transaction commits. A transaction may break off at any await, and
its COMMIT may take effect without an answer, in which case the controller
deletes the files it has just stored. `overtaken` and `stale` are history
variables: the writers whose reading was out of date when they wrote.

`AssignmentBook` says the same of assignments without transactions, locks or a
queue: the assignee and the last entry of the book change at one moment, after
the notice was queued, and a notice is delivered at some time after that or
never. `LeadRecord` implements it with the entries read from the rows of the
history that are committed, the notices from the jobs, and `Assign` at the step
at which a transaction commits.

### CampaignDelivery

`campaign` is the row with its mail configuration, "none" before `Create`;
`remote[k]` the campaign launch k created at Brevo, `logs[k]` the delivery logs
it wrote. Admin requests are cut at their awaits and keep the row as they read
it. The webhook's `updateMany` and its three counts are four steps, shared with
the cron job from the second on. A failing call, a failing query and a dying
server are one action, since no handler catches anything. Seventeen events are
three classes. A launch writes logs for any set of recipients, which stands for
whatever the lead group holds at that moment. `StrandedLaunch` is a launch that
has saved the id of its remote campaign and broke off before the send:
`finalizeAndLaunch` has no status guard, so this may happen to a campaign that is
RUNNING, and the cron job then asks about a draft for ever.

`Mailing` has no requests, webhooks or job: the mail of a launch is held, going
or done, its recipients are entered at one moment, and the campaign is judged,
opened again or removed. `CampaignDelivery` implements it with `held` standing
for every status at Brevo before the sending, between which suspensions, updates
and restarts move, and with the entries read from the delivery logs. A mail may
go out for a campaign that was removed while its launch was under way.

### AuthSession

`sessions`, `refreshKeys` and `blacklist` are the three stores; a session is
named after the login or refresh that created it. `late` holds the logins and
refreshes that overlapped a sweep, `superseded` the sessions whose row a login
or refresh removed. Tokens and keys do not expire (the keys get a time to live in
milliseconds where seconds are counted, and outlive the tokens).

`Register` is a set of valid grants and a set of ended ones: a grant is issued
once, perhaps in place of others, and what has ended never is valid again.
`AuthSession` implements it with the session rows as grants (ended: rows that
were created and are no more) and, a second time, with the refresh keys.
`Account` implements it with the code that is asked for and with the invitation
that is open. In all four a grant is named after the request that made it: ids of
sessions and tokens do not repeat, and that two requests draw the same code of
six digits is left out. What is left to prove is that no request writes back
what another has taken away.

The roles of the user are the rows of `role_users`, each with the request that
inserted it. A role change is a transaction at READ COMMITTED: its `deleteMany`
finds the rows committed when it begins (`ChangeBegin`, `erased`), waits for
another change that has deleted the same rows or inserted the same roles, and
goes on (`ChangeWrite`); rows inserted meanwhile stay, so that two overlapping
changes may leave the user with the roles of both, or the second fails on the
primary key. The transaction commits after its sweep, at `SweepDelete`.

### RolePermissions

`role` holds the rows by id, `cache` the entries by key, `op[r]` the local
variables of a handler: the role and the name it read, the payload, the
permissions in its hands and the keys it is going to SET. A name is a key with a
spelling, since the cache lowers the case and the unique index does not.
`dirty` are the keys whose last change was overtaken or broke off, `calm` the
guards that no change of their roles overlaps. The protected role is none of
the roles; names with blanks around them, which only the cache trims, are left
out, as is the seeder, which runs with the server stopped.

### Account

Everything about one e-mail address: the row with this address, the code under
`forgot_password_otp:` and the counter of wrong guesses with its time to live.
A code or a token is named after the request that generated it; its mail may be
read at any later time, so a request presents any secret generated so far, or a
wrong one. Members change their password (`ChangeFind`, `ChangeUpdate`) and
their e-mail (`LeaveFind`, `LeaveUpdate` for the address that is given up,
`Enter` for the one that is taken); `Enter` is also `verifyEmail`, which inserts
a row that is not active. Handlers are cut at their awaits and promised no
progress, which includes every failure, as none of them catches anything; only
the EXPIRE of the counter has a failure of its own (`VerifyTtlFails`), because a
property tells it from one that is still to come. What has a time to live may
expire at any step. The field `by` of the counter is history: the request whose
INCR created it.

Limits of this view: a row that gives the address up is not followed, and one
that takes it is a new row without an invitation; the address is not that of the
configured super user, whose row is written again at every boot. The codes in
`ucodes` that `changeEmail` and `verifyEmail` ask for are a verdict that may be
either; the registration token `verifyEmail` decodes is made by no live route, so
its row is a possibility rather than a promise. Blocking is in `AuthSession`.

## 3. The runs

Symmetric constants are declared so where the run has no liveness property.
Deadlock is not checked: every request is served once, so that a behaviour may
end.

| Run | Bounds | Distinct states | What it shows |
|---|---|---|---|
| `booking` | 3 requests, 2 slots, 2 team members, 1 customer, outages, failing queries and DELs, crashes | 264 227 | ownership is verified for the very slot; rows and mails are true; a charge has a live booking; a failed checkout leaves at most a booking its rollback could not cancel; a confirmed one has its row but for a failed query or a lost race for the lead; locks go with cause, lost holds stay lost; the ledger is implemented; checkouts are answered; locks end |
| `booking_rollback` | 3 requests, 1 slot, 1 team member, lost answers | | refuted: only unpaid bookings are rolled back |
| `kanban_board` | 3 leads, 2 stages, 1 digit, gap 3, ranks up to 2 digits and 15, 1 stale card | 541 489 | fresh moves land between their neighbours; created cards land last |
| `kanban_midpoint` | 3 leads, 2 digits, gap 2, ranks up to 3 digits and 65 | | refuted: the midpoint always sorts between |
| `leads` | 2 requests of any kind, 2 users, 2 attempts, 1 stall | 3 129 672 | the history names the assignee and repeats nobody who was not overtaken; whom it concerns is told; attachments are stored and change for a cause; log rows are true; sends are bounded |
| `campaign_admin` | 2 admin requests of any kind, 2 recipients, 1 webhook call | 1 101 272 | a FAILED verdict is justified; no verdict before a send; a suspension is silent |
| `campaign_live` | 2 admin requests of any kind, 2 recipients, no webhook call | 38 053 | a running campaign ends without a webhook call, though it is launched again; only a stranded launch keeps it RUNNING |
| `campaign_restart` | 3 requests | | refuted: a suspended campaign can be restarted |
| `auth_session` | 4 requests, 2 devices, 2 roles | 3 096 653 | a session ends once; sweeps reach what they can see; roles in tokens are current; the stores agree at rest |
| `auth_blocked` | 3 requests, 1 device | | refuted: a block leaves no working token |
| `role_permissions` | 3 requests, 1 role at first, 2 keys, 2 spellings, 1 permission | 2 340 000 | entries are current but for races and failures; calm guards decide by the database |
| `account` | 5 requests of ten kinds, 2 guesses | 109 395 | used secrets stay used; an invitation opens its own account; wrong guesses are forgotten unless their own EXPIRE fails; an active account changes by its member's requests and by late writers only |

Why the bounds are enough. The races are between two handlers, sometimes with a
third request that prepares or observes (a lock holder, an earlier login, a
removal): three or four requests contain them all, and a handler that meets
itself. `account` has five, since an invitation, its resend, an acceptance and
the removal that races with it are four. Two slots let a token be presented for
the wrong slot, and two team members let Square take two bookings of one start.
Ranks of one digit with a gap of three use gaps and digits up within a few
moves, as twelve digits and a gap of 65536 do in years; the arithmetic has no
other constants. The counterexample of `kanban_midpoint` needs two digits. Two
stages let a card come from one to the other with its rank. At most one card on
the screen may differ from the board (`MaxStale`): a change of another one waits
until the browser has loaded the board; the theorems have no such bound. Two
recipients tell "all failed" from "some failed"; one webhook call races with the
cron job. `campaign_live` has none, since the cron job must do without; TLC
found `RunningEnds` to hold with one call and one recipient too, which takes
three minutes. Two keys and two spellings give renames to another key, to
another spelling of the same key, and two roles that share one. Two attempts are
a first and a last one, as the three of the code are a first, one more and a
last; the guesses likewise, where the code allows five. Two role sets that do
not meet can be left side by side by two overlapping changes; that one of four
requests repeats a set lets an insertion meet the row it would repeat. The
theorems of section 5 hold for every value of these constants.

Bounds that stop a model rather than the program: `MaxVal` and `MaxLen` on
ranks, `MaxStale` on cards, `MaxCalls` on webhook calls, and the number of requests.

## 4. Fairness

*Booking.* Every await settles (ioredis, Prisma and the Square client answer or
throw), so a started request takes its next step; Redis drops expired keys on
its own. A request never sent is not forced. `CheckoutAnswered` excepts requests
whose server died.

*Campaign.* Brevo begins to send what was queued and finishes what it sends;
requests in progress go on; the cron job runs every five minutes. Since any of
its calls may fail and end a round, its steps need strong fairness: each
succeeds in one of infinitely many rounds. Webhook calls are promised nothing,
as the handler answers 200 whatever happens.

*Sessions, roles, board, leads, account.* None: only safety is claimed.

## 5. Theorems

For any values of the constants that satisfy the named assumptions. Every safety
property of the runs has a theorem.

* **Booking.** `TypeCorrect`; `RecordsAreTruthful`; `OwnershipIsVerified`;
  `LocksAreRemovedWithCause`; `LostHoldsStayLost`; `ConfirmedAreRecorded`; and
  for `"lost" \notin Faults`: `ChargesHaveBookings`, `FailuresLeaveNothing`,
  `CheckoutImplementsLedger`. `OwnershipVerified` is not inductive: that a
  granted token still belongs to its slot when used needs `StoredTokens` (every
  lock was written by the lock request of that slot), which gives `LockInv`. A
  lost hold stays lost because only the request that was granted a token ever
  writes it, and it writes once. The rows and mails follow from `MoneyInv`, which
  says for each await what Square and the tables hold by then. A captured charge
  has an accepted booking (`ChargeInv`), and of accepted bookings of one place
  there is one (`CalendarInv`, from `Taken`); the two show each step to be a
  `Reserve`, a `Sell`, a `Withdraw` or a stutter of the ledger. What failures
  leave rests on `RollbackInv`, which follows a failure through the catch block.
  `LeadInv` says where a checkout without a lead id lost it: at a query that
  failed, or to another checkout, which has the id.
* **Ranks.** `BeforeIsStrictOrder`: the order of the database on rank strings of
  any lengths, which `Before` states by scaling the shorter number, is a strict
  order, total up to equal ranks. It rests on 10^(m+n) = 10^m * 10^n
  (`TenToSum`). `LeastElement` (a set of numbers that is not empty has a least
  one, from the well-foundedness of `<`) takes the place of induction: the
  recursion equation of `TenTo` and the law of powers have no least
  counterexample. `PadRankIsDecimal`: `PadRank`, which counts powers of ten,
  adds as many digits as `padStart`. The other lemmas compute where a midpoint
  lies.
* **Board.** `TypeCorrect`, `RanksAreStrings`, `LastRankIsUnique`,
  `CreatesLandLast` and `FreshMovesLandBetween`, for every pad, gap and initial
  rank. `RankInv` says that every rank on the board or on a screen is well
  formed. A created card lands last whatever the lengths of the ranks above it,
  if the rank it follows leaves room (`HasRoom`): a rank of more digits than the
  pad that still fits it as a number is cut back to the pad, and sorts after its
  longer form. A change of stage moves a rank and makes none (`StageChanged`).
  `RanksAreStrings` says that no number outgrows its string,
  without which `Before` would compare something else than the database does.
* **Leads.** `TypeCorrect`, `HistoryCorrect`, `RepeatsAreOvertaken`,
  `NoticesFollowHistory`, `MissingFilesAreBlamed`, `AttachmentsHaveCauses`,
  `LogsAreTruthful`, `SendsAreBounded`, `AssignmentsAreAtomic`. `QueueInv`
  counts sends and successes of a job by where it is; `Inv` says what a request
  knows and who holds the locks; `FilesInv` follows a file from its upload into
  the row and out of the storage; `Progress` follows an assignment through its
  transaction; `HistoryProps` is what is wanted of the history, stated over its
  seen rows, so that a commit adds one row at the end. The same (`InsertHidden`,
  `CommitShows`) makes the commit the `Assign` of the book, with `Progress` for
  the notice before it.
* **Campaign.** `TypeCorrect`, `VerdictsFollowSends`,
  `FailedVerdictsAreJustified`, `SuspensionsHold`, `CampaignImplementsMailing`.
  `Remotes` says which launch stands behind a campaign at Brevo, `Unlogged` that
  it writes its logs once, `Begun` how a running campaign got to be one,
  `Counted` what the first count of a verdict is still worth at the second (this
  is about cardinalities), and `Calm` what a suspension relies on while nobody
  has changed the date.
* **Sessions.** `TypeCorrect`, `EndsOnce`, `BlocksReachSessions`,
  `RolesStayCurrent`, `StoresEndUpAgreeing`, `SessionsFollowRegister`.
  `SessionEndsOnce` needs that the row of an ended session is gone for good:
  `EndedGone`, with `HasTarget`, `NoTarget`, `TokenAnswered` and
  `TargetAnswered`, which say whom a request is aimed at and that a session is
  never created twice. The sweeps need `SweepInv`: a working token outside the
  exceptions has its row (`RowsKept`), and while a sweep runs each row is
  listed, revoked or excepted (`SweepCovers`), so that nothing is left when the
  rows are deleted. `StoresFollow` names who is about to bring a disagreement of
  the stores to an end. The registers need where each request stands between the
  creation of its row and of its key (`RegisterInv`).
* **Roles.** `TypeCorrect`, `CacheStaysCurrent`, `GuardsDecideRight`. The
  invariant is `Locals` (what a handler holds at each await), `Unborn` (a role
  is not live before its request creates it), `Fresh` (outside dirty keys, what
  a request is about to SET is what the database says, unless another is about
  to change the entry) and `Follows` (what holds of the cache). `WriteStep`,
  `CommitStep`, `ChangeStep` and `FailureStep` take the kinds of steps in turn.
  For the guards `CalmKnows` adds that an undisturbed guard holds what the
  database has, be it a hit or a miss already read.
* **Account.** `TypeCorrect`, `SpentSecretsStayGone`,
  `InvitationsOpenOwnAccount`, `AttemptsAreForgotten`,
  `ActivatedAccountsSettle`, `SecretsFollowRegister`. Where a secret comes from
  and a row come from (`KnownCodes`, `KnownTokens`, `KnownRows`) shows that no
  request generates it again; `Settled` says who can still touch an active row.
  `AttemptsAreForgotten` follows a counter to the request that created it: that
  one is at its EXPIRE, or had it fail.

The refinements of `Register`, `AssignmentBook` and `Mailing` are properties of
no run; before they were proved TLC found them to hold with the constants of
`account`, `auth_session`, `leads` and `campaign_admin`.

Only model-checked: liveness (`CheckoutAnswered`, `LockEventuallyFree`,
`RunningEnds`), which TLAPS cannot reason about under fairness.

## 6. Where code and text disagree

1. *Rollback* (`booking_rollback`). "If payment failed" includes a payment that
   was captured and whose answer was lost: the booking is cancelled, the charge
   stays.
2. *Ranks* (`kanban_midpoint`). "Sorts strictly between" fails next to a rank
   that has grown a digit. It also fails at the bottom of a column where twelve
   digits leave no room for one more gap: each time a gap is used up and a card
   is appended after the longer rank, its number grows tenfold, so that some
   seven rounds of this reach 10^12. `HasRoom` excepts this case.
3. *Restart* (`campaign_restart`). Suspending writes DRAFT, and restart asks for
   SCHEDULED or SUSPENDED.
4. *Block* (`auth_blocked`). The access token of a session that a later login
   from the same device replaced survives the block. The sweep after a change of
   roles is the same: such a token survives it and keeps the old roles, although
   DEVELOPER_GUIDE.md:533 says that the change invalidates sessions.
   `BlockReachesSessions` and `RolesCurrent` except these tokens by name
   (`superseded`).

Not counted. A comment calls the slot lock atomic; GET and plain SET are
separate, so two carts can both be told LOCKED, a release may delete a lock that
changed hands since it was verified, and a checkout goes on after its hold is
gone. Nothing but Square's calendar keeps such carts apart, and only if they ask
for one team member. No text promises otherwise of the following: a guard or
`me` that fills the role cache with what it read before a change leaves the
entry stale until the next change of that role, as does a failure between commit
and SET (`dirty` keys); refreshing does not look at the status of a blocked
user; two overlapping role changes may add up; `update` and `remove` of a
campaign act on a status read before their awaits; a payment whose checkout lost
the race for the lead is in no table; of two edits of a lead the later one
writes back the attachments it read, if it brings uploads (without any, it
leaves the column alone); an active account is written by a resend, a removal or
a second acceptance that read it as pending; a notice is sent although its
assignment was rolled back, and again when only its log row could not be marked;
of two resets with one code the second wins.

## 7. Plan

Done, in this order: booking, board, campaign, sessions, roles; then account,
leads with their queue, the ledger, and the theorems about the campaign, the
sweeps and the guards; then the order of ranks of any length, the registers,
the book of assignments and the mailing.

Left, in this order:

1. An abstract cache implemented by `RolePermissions`, beyond `CacheCurrent`.
2. Lead groups, once the code or its documents say which of the two copies is
   to be believed; their membership is what `CampaignDelivery` launches to.

## 8. Not modelled

* *Lead groups.* The provider passes over refused additions, removals and
  deletions, so that the group and its list at Brevo may each have what the
  other lacks; nothing compares them again and no text promises that they agree.
* *Mail queue and transactional mail log.* The producers swallow their errors
  and the jobs send and log one mail; an event of the webhook that belongs to no
  campaign overwrites one row, which only the list of mails reads. The attempts
  are those of `JobQueue`; what a mail decides (a confirmation, a code, an
  invitation) is in `BookingCheckout` and `Account`.
* *Pricing.* Orders are built from Square's catalog and their totals calculated
  by Square, in the same call for what is shown and for what is charged.
* *User profile, verification codes.* The changes of password and e-mail and
  `verifyEmail` are in `Account`. The other live routes (`update` with its
  avatar, the phone and the two-factor routes) write columns of the row that no
  modelled handler reads, and `request-email-change` and
  `resend-verification-email` insert a code into `ucodes`, whose verdict is open
  in `Account`; the route of registration is commented out of the controller.
* *Controllers and validation pipes* (no state of their own), *content pages,
  reports, stages, templates, the payment list* (single queries), *activity log
  and analytics* (inserts nobody reads back in a decision), *file storage and
  the seeder* (input and output, run alone), *the second copy of the booking
  service* (provided by no module), and *generated Prisma code*.

Contents of mails, names, prices and dates appear only where a branch depends on
them. PostgreSQL is taken at READ COMMITTED with single statements atomic, but
for the statements that wait for row locks in `LeadRecord` and `AuthSession`.
