--------------------------- MODULE BookingCheckout ---------------------------
(***************************************************************************)
(* confirmBookingWithDeposit: a checkout verifies the slot's lock, resolves *)
(* the customer and the price, enters a lead, creates the booking and the  *)
(* payment in Square, writes a Payment row, queues the confirmation mail   *)
(* and evicts the lock.  Its catch block cancels the booking it knows of   *)
(* and writes a FAILED row.  Source:                                       *)
(* application/booking/squareup-booking.service.ts.                        *)
(*                                                                         *)
(* The module extends SlotLock: checkouts, lock requests and release       *)
(* requests are handlers of one server and interleave at their awaits.     *)
(*                                                                         *)
(* A cart names a team member for its items, the Redis key does not: one   *)
(* hold covers a start time whoever serves it, and Square may accept a     *)
(* booking for each team member of one start time.  A cart whose items go  *)
(* to different team members is modelled with the first of them.           *)
(*                                                                         *)
(* Square is external.  Its calendar keeps a team member free of a second  *)
(* live booking at one start time, and each of its calls may be refused,   *)
(* or take effect while the answer is lost.  Faults says which of the      *)
(* failures that are no business decision a run admits:                    *)
(*   "outage"  a call to Square fails even where nothing is wrong with it  *)
(*   "lost"    a call to Square takes effect but throws (a timeout)        *)
(*   "db"      a query fails                                               *)
(*   "redis"   the DEL of the lock fails                                   *)
(*   "crash"   the server dies and takes a handler with it                 *)
(***************************************************************************)
EXTENDS SlotLock

CONSTANTS Customers,   \* e-mail addresses
          Members,     \* team members who serve appointments
          Faults       \* failures a run admits

ASSUME FaultsAssumption ==
  Faults \subseteq {"outage", "lost", "db", "redis", "crash"}

VARIABLES customer,    \* customer[r]: the e-mail in the payload of checkout r
          member,      \* member[r]: the team member its cart names
          leadId,      \* leadId[r]: createdLeadId is defined
          bookingId,   \* bookingId[r]: createdBookingId is defined
          booking,     \* booking[r]: the booking Square holds for r
          charge,      \* charge[r]: whether Square captured the payment of r
          leadRows,    \* e-mails that have a row in leads
          paymentRows, \* paymentRows[r]: statuses of the rows r wrote
          mailed,      \* checkouts whose confirmation mail is queued
          rollbackFailed, \* history: checkouts whose rollback threw
          dbFailed     \* history: checkouts one of whose queries failed

localVars == <<customer, member, leadId, bookingId>>
squareVars == <<booking, charge>>
databaseVars == <<leadRows, paymentRows>>
historyVars == <<rollbackFailed, dbFailed>>
checkoutVars == <<localVars, squareVars, databaseVars, mailed, historyVars>>
vars == <<lockVars, checkoutVars>>

\* Square has given this start time of the team member away.
Taken(s, m) ==
  \E r \in Requests : slot[r] = s /\ member[r] = m /\ booking[r] = "accepted"

\* How a call to Square that may be refused on its merits ends.
Outcomes == {"ok", "refused"} \cup (Faults \cap {"lost"})

\* How a call that Square has no reason to refuse ends.
RollbackOutcomes ==
  {"ok"} \cup (IF "outage" \in Faults THEN {"refused"} ELSE {})
         \cup (Faults \cap {"lost"})

\* Whether a query succeeds.
DbOutcomes == IF "db" \in Faults THEN BOOLEAN ELSE {TRUE}

Init ==
  /\ LockInit
  /\ customer = [r \in Requests |-> None]
  /\ member = [r \in Requests |-> None]
  /\ leadId = [r \in Requests |-> FALSE]
  /\ bookingId = [r \in Requests |-> FALSE]
  /\ booking = [r \in Requests |-> "none"]
  /\ charge = [r \in Requests |-> "none"]
  /\ leadRows = {}
  /\ paymentRows = [r \in Requests |-> {}]
  /\ mailed = {}
  /\ rollbackFailed = {}
  /\ dbFailed = {}

\* A query of r is answered, or fails and the catch block around it goes on.
Queried(r, answered) ==
  dbFailed' = IF answered THEN dbFailed ELSE dbFailed \cup {r}

\* A call of the rollback ends with this outcome; a failure is suppressed.
RolledBack(r, outcome) ==
  rollbackFailed' = IF outcome = "ok" THEN rollbackFailed
                    ELSE rollbackFailed \cup {r}

-----------------------------------------------------------------------------
(* The lock requests of SlotLock, with Square's calendar behind them.  Their *)
(* search names no team member: any who is free will do.                    *)

LockTimeSlot(r) ==
  /\ \/ LockTimeSlotGet(r)
     \/ \E offered \in BOOLEAN :
          /\ offered => \E m \in Members : ~Taken(slot[r], m)
          /\ LockTimeSlotSearch(r, offered)
     \/ LockTimeSlotSet(r)
  /\ UNCHANGED checkoutVars

ReleaseLock(r) ==
  /\ ReleaseLockAssert(r) \/ ReleaseLockDel(r)
  /\ UNCHANGED checkoutVars

Expire(s) == LockExpires(s) /\ UNCHANGED checkoutVars

-----------------------------------------------------------------------------
(* confirmBookingWithDeposit, await by await *)

\* assertLockOwnership on the slot and the token of the payload.
CheckoutAssert(r) ==
  /\ pc[r] = "new"
  /\ \E s \in Slots, t \in Granted, c \in Customers, m \in Members :
       /\ slot' = [slot EXCEPT ![r] = s]
       /\ token' = [token EXCEPT ![r] = t]
       /\ customer' = [customer EXCEPT ![r] = c]
       /\ member' = [member EXCEPT ![r] = m]
       /\ Goto(r, IF OwnsLock(s, t) THEN "checkout_get" ELSE "fail_record")
  /\ UNCHANGED <<lock, leadId, bookingId, squareVars, databaseVars, mailed,
                 historyVars>>

\* Fault: the second GET writes the hold of its own cart back, to keep it
\* alive during the checkout.
CheckoutGetRenewing(r) ==
  /\ pc[r] = "checkout_get"
  /\ IF lock[slot[r]] = None
     THEN Goto(r, "fail_record") /\ lock' = lock
     ELSE /\ Goto(r, "checkout_price")
          /\ lock' = [lock EXCEPT ![slot[r]] = [token |-> token[r], px |-> TRUE]]
  /\ UNCHANGED <<slot, token, checkoutVars>>

\* The second GET.  Only presence matters: the key it reads contains the
\* start time the stored value repeats.
CheckoutGet(r) ==
  /\ pc[r] = "checkout_get"
  /\ Goto(r, IF lock[slot[r]] = None THEN "fail_record" ELSE "checkout_price")
  /\ UNCHANGED <<slot, token, lock, checkoutVars>>

\* Customer search or creation, catalog lookup and order calculation: any
\* of them may reject the payload or throw.
CheckoutPrice(r) ==
  /\ pc[r] = "checkout_price"
  /\ \E valid \in BOOLEAN :
       Goto(r, IF valid THEN "lead_find" ELSE "fail_record")
  /\ UNCHANGED <<slot, token, lock, checkoutVars>>

\* createLead, first query: a known e-mail keeps its lead.
LeadFind(r) ==
  /\ pc[r] = "lead_find"
  /\ \E answered \in DbOutcomes :
       LET exists == customer[r] \in leadRows IN
       /\ leadId' = [leadId EXCEPT ![r] = answered /\ exists]
       /\ Queried(r, answered)
       /\ Goto(r, IF answered /\ ~exists THEN "lead_create" ELSE "book")
  /\ UNCHANGED <<slot, token, lock, customer, member, bookingId, squareVars,
                 databaseVars, mailed, rollbackFailed>>

\* createLead, insert: the unique index on leads.email refuses an e-mail
\* that got its row since; the refusal is swallowed and no id returned.
LeadCreate(r) ==
  /\ pc[r] = "lead_create"
  /\ \E answered \in DbOutcomes :
       LET inserted == answered /\ customer[r] \notin leadRows IN
       /\ leadId' = [leadId EXCEPT ![r] = inserted]
       /\ leadRows' = IF inserted THEN leadRows \cup {customer[r]} ELSE leadRows
       /\ Queried(r, answered)
  /\ Goto(r, "book")
  /\ UNCHANGED <<slot, token, lock, customer, member, bookingId, squareVars,
                 paymentRows, mailed, rollbackFailed>>

\* bookings.create.
Book(r) ==
  /\ pc[r] = "book"
  /\ \E outcome \in Outcomes :
       /\ outcome # "refused" => ~Taken(slot[r], member[r])
       /\ booking' = IF outcome = "refused" THEN booking
                     ELSE [booking EXCEPT ![r] = "accepted"]
       /\ bookingId' = [bookingId EXCEPT ![r] = outcome = "ok"]
       /\ Goto(r, IF outcome = "ok" THEN "pay" ELSE "fail_record")
  /\ UNCHANGED <<slot, token, lock, customer, member, leadId, charge,
                 databaseVars, mailed, historyVars>>

\* Fault: the outcome of the payment is not looked at.
PayIgnoringRefusal(r) ==
  /\ pc[r] = "pay"
  /\ \E outcome \in Outcomes :
       charge' = IF outcome = "refused" THEN charge
                 ELSE [charge EXCEPT ![r] = "captured"]
  /\ Goto(r, "paid_record")
  /\ UNCHANGED <<slot, token, lock, localVars, booking, databaseVars, mailed,
                 historyVars>>

\* Fault: a refused payment skips the rollback.
PayWithoutRollback(r) ==
  /\ pc[r] = "pay"
  /\ \E outcome \in Outcomes :
       /\ charge' = IF outcome = "refused" THEN charge
                    ELSE [charge EXCEPT ![r] = "captured"]
       /\ Goto(r, IF outcome = "ok" THEN "paid_record" ELSE "fail_record")
  /\ UNCHANGED <<slot, token, lock, localVars, booking, databaseVars, mailed,
                 historyVars>>

\* payments.create with autocomplete.
Pay(r) ==
  /\ pc[r] = "pay"
  /\ \E outcome \in Outcomes :
       /\ charge' = IF outcome = "refused" THEN charge
                    ELSE [charge EXCEPT ![r] = "captured"]
       /\ Goto(r, IF outcome = "ok" THEN "paid_record" ELSE "rollback_get")
  /\ UNCHANGED <<slot, token, lock, localVars, booking, databaseVars, mailed,
                 historyVars>>

\* createPaymentRecord: findUnique on an undefined lead id throws before any
\* query, and its own catch swallows that and any other failure.
CreatePaymentRecord(r, status) ==
  \/ /\ ~leadId[r]
     /\ UNCHANGED <<paymentRows, dbFailed>>
  \/ /\ leadId[r]
     /\ \E answered \in DbOutcomes :
          /\ paymentRows' = IF answered
                            THEN [paymentRows EXCEPT ![r] = @ \cup {status}]
                            ELSE paymentRows
          /\ Queried(r, answered)

\* Fault: createPaymentRecord rethrows, and the catch block rolls back.
PaidRecordRethrowing(r) ==
  /\ pc[r] = "paid_record"
  /\ CreatePaymentRecord(r, "PAID")
  /\ Goto(r, IF "PAID" \in paymentRows'[r] THEN "mail" ELSE "rollback_get")
  /\ UNCHANGED <<slot, token, lock, localVars, squareVars, leadRows, mailed,
                 rollbackFailed>>

\* Fault: the row of a successful payment is never written.
PaidRecordSkipped(r) ==
  /\ pc[r] = "paid_record"
  /\ Goto(r, "mail")
  /\ UNCHANGED <<slot, token, lock, localVars, squareVars, databaseVars, mailed,
                 historyVars>>

PaidRecord(r) ==
  /\ pc[r] = "paid_record"
  /\ CreatePaymentRecord(r, "PAID")
  /\ Goto(r, "mail")
  /\ UNCHANGED <<slot, token, lock, localVars, squareVars, leadRows, mailed,
                 rollbackFailed>>

\* sendBookingConfirmationEmail queues the mail and swallows its failures.
Mail(r) ==
  /\ pc[r] = "mail"
  /\ \E queued \in BOOLEAN : mailed' = IF queued THEN mailed \cup {r} ELSE mailed
  /\ Goto(r, "evict")
  /\ UNCHANGED <<slot, token, lock, localVars, squareVars, databaseVars,
                 historyVars>>

\* The DEL on success: it does not look at what it removes.
Evict(r) ==
  /\ pc[r] = "evict"
  /\ \/ lock' = [lock EXCEPT ![slot[r]] = None]
     \/ "redis" \in Faults /\ lock' = lock
  /\ Goto(r, "confirmed")
  /\ UNCHANGED <<slot, token, checkoutVars>>

-----------------------------------------------------------------------------
(* The catch block *)

\* bookings.get for the version of the booking to cancel.
RollbackGet(r) ==
  /\ pc[r] = "rollback_get"
  /\ \E outcome \in RollbackOutcomes :
       /\ RolledBack(r, outcome)
       /\ Goto(r, IF outcome = "ok" THEN "rollback_cancel" ELSE "fail_record")
  /\ UNCHANGED <<slot, token, lock, localVars, squareVars, databaseVars, mailed,
                 dbFailed>>

\* Fault: a failed cancellation is tried again until it succeeds.
RollbackCancelForever(r) ==
  /\ pc[r] = "rollback_cancel"
  /\ \E outcome \in RollbackOutcomes :
       /\ booking' = IF outcome = "refused" THEN booking
                     ELSE [booking EXCEPT ![r] = "cancelled"]
       /\ Goto(r, IF outcome = "ok" THEN "fail_record" ELSE "rollback_get")
  /\ UNCHANGED <<slot, token, lock, localVars, charge, databaseVars, mailed,
                 historyVars>>

\* Fault: the local status is spelled unlike the one Square reports.
RollbackCancelMisspelt(r) ==
  /\ pc[r] = "rollback_cancel"
  /\ booking' = [booking EXCEPT ![r] = "canceled"]
  /\ Goto(r, "fail_record")
  /\ UNCHANGED <<slot, token, lock, localVars, charge, databaseVars, mailed,
                 historyVars>>

\* bookings.cancel; a failure is suppressed.
RollbackCancel(r) ==
  /\ pc[r] = "rollback_cancel"
  /\ \E outcome \in RollbackOutcomes :
       /\ booking' = IF outcome = "refused" THEN booking
                     ELSE [booking EXCEPT ![r] = "cancelled"]
       /\ RolledBack(r, outcome)
  /\ Goto(r, "fail_record")
  /\ UNCHANGED <<slot, token, lock, localVars, charge, databaseVars, mailed,
                 dbFailed>>

\* Fault: the lock is evicted in a finally block, on failure too.
FailRecordEvicting(r) ==
  /\ pc[r] = "fail_record"
  /\ CreatePaymentRecord(r, "FAILED")
  /\ lock' = [lock EXCEPT ![slot[r]] = None]
  /\ Goto(r, "failed")
  /\ UNCHANGED <<slot, token, localVars, squareVars, leadRows, mailed,
                 rollbackFailed>>

FailRecord(r) ==
  /\ pc[r] = "fail_record"
  /\ CreatePaymentRecord(r, "FAILED")
  /\ Goto(r, "failed")
  /\ UNCHANGED <<slot, token, lock, localVars, squareVars, leadRows, mailed,
                 rollbackFailed>>

-----------------------------------------------------------------------------

Done == {"new", "locked", "released", "refused", "confirmed", "failed",
         "crashed"}

\* The server stops while r waits for an answer: nobody resumes r.
Crash(r) ==
  /\ "crash" \in Faults
  /\ pc[r] \notin Done
  /\ Goto(r, "crashed")
  /\ UNCHANGED <<slot, token, lock, checkoutVars>>

Handler(r) ==
  \/ LockTimeSlot(r)    \/ ReleaseLock(r)
  \/ CheckoutAssert(r)  \/ CheckoutGet(r)     \/ CheckoutPrice(r)
  \/ LeadFind(r)        \/ LeadCreate(r)
  \/ Book(r)            \/ Pay(r)
  \/ PaidRecord(r)      \/ Mail(r)            \/ Evict(r)
  \/ RollbackGet(r)     \/ RollbackCancel(r)  \/ FailRecord(r)

Next ==
  \/ \E r \in Requests : Handler(r) \/ Crash(r)
  \/ \E s \in Slots : Expire(s)

\* Every await settles, and Redis drops expired keys on its own.
Fairness ==
  /\ \A r \in Requests : WF_vars(pc[r] # "new" /\ Handler(r))
  /\ \A s \in Slots : WF_vars(Expire(s))

Spec == Init /\ [][Next]_vars /\ Fairness
-----------------------------------------------------------------------------
(* Properties *)

\* The steps a checkout reaches only after its first assertLockOwnership.
Checkouts == {"checkout_get", "checkout_price", "lead_find", "lead_create",
              "book", "pay", "paid_record", "mail", "evict",
              "rollback_get", "rollback_cancel", "confirmed"}

\* The type of every variable.
TypeOK ==
  /\ pc \in [Requests -> Done \cup Checkouts \cup
                         {"lock_search", "lock_set", "release_del", "fail_record"}]
  /\ slot \in [Requests -> Slots \cup {None}]
  /\ token \in [Requests -> Requests \cup {None}]
  /\ lock \in [Slots -> LockValue \cup {None}]
  /\ customer \in [Requests -> Customers \cup {None}]
  /\ member \in [Requests -> Members \cup {None}]
  /\ leadId \in [Requests -> BOOLEAN]
  /\ bookingId \in [Requests -> BOOLEAN]
  /\ booking \in [Requests -> {"none", "accepted", "cancelled"}]
  /\ charge \in [Requests -> {"none", "captured"}]
  /\ leadRows \subseteq Customers
  /\ paymentRows \in [Requests -> SUBSET {"PAID", "FAILED"}]
  /\ mailed \subseteq Requests
  /\ rollbackFailed \subseteq Requests
  /\ dbFailed \subseteq Requests

\* Lock ownership is verified before confirmation or release: whatever a
\* request books, charges or deletes, it does for the very slot its token
\* was granted for (assertLockOwnership in both handlers).
OwnershipVerified ==
  \A r \in Requests :
    \/ booking[r] # "none"
    \/ pc[r] \in Checkouts \cup {"release_del", "released"}
    => token[r] \in Granted /\ slot[token[r]] = slot[r]

\* A PAID row stands for a captured payment of a booking that is still on
\* the calendar, a FAILED row for a checkout that was answered with an
\* error, and no checkout leaves both (createPaymentRecord's two callers).
\* Nobody gets a confirmation mail for a booking that is not paid, or that
\* the rollback took away.
RecordsTruthful ==
  \A r \in Requests :
    /\ "PAID" \in paymentRows[r] =>
         /\ charge[r] = "captured" /\ booking[r] = "accepted"
         /\ "FAILED" \notin paymentRows[r]
    /\ "FAILED" \in paymentRows[r] => pc[r] = "failed"
    /\ r \in mailed => charge[r] = "captured" /\ booking[r] = "accepted"

\* No customer has paid for an appointment that does not exist.  Holds as
\* long as no answer of Square is lost; a crash or a failing database does
\* not break it.
ChargedHasBooking ==
  \A r \in Requests : charge[r] = "captured" => booking[r] = "accepted"

\* A checkout that was answered with an error leaves no charge behind, and a
\* live booking only where its own rollback (bookings.get, bookings.cancel)
\* failed and was suppressed; no failing query is an excuse.  Holds as long
\* as no answer of Square is lost.
FailedLeavesNothing ==
  \A r \in Requests :
    pc[r] = "failed" =>
      charge[r] = "none" /\ (booking[r] = "accepted" => r \in rollbackFailed)

\* A confirmed checkout, which has been paid for, has its PAID row, except
\* for two named losses: a query of its own failed, or it has no lead id
\* because another checkout inserted the lead of the same e-mail between
\* its findUnique and its create.
ConfirmedIsRecorded ==
  \A r \in Requests :
    pc[r] = "confirmed" =>
      \/ "PAID" \in paymentRows[r]
      \/ r \in dbFailed
      \/ /\ ~leadId[r]
         /\ \E q \in Requests \ {r} : customer[q] = customer[r] /\ leadId[q]

\* A hold that was overwritten by a racing lock request, released, evicted
\* or timed out is lost for good: its token never passes assertLockOwnership
\* again, whichever of these happen in between.
LostHoldStaysLost ==
  [][\A t \in Granted :
       ~OwnsLock(slot[t], t) => ~OwnsLock(slot[t], t)']_vars

\* A lock disappears only because its time is over, because a release
\* verified a token granted for that slot, or because a checkout with such
\* a token has been paid; a failed checkout keeps its hold.
LockRemovedWithCause ==
  [][\A s \in Slots :
       lock[s] # None /\ lock'[s] = None =>
         \/ Expire(s)
         \/ \E r \in Requests :
              /\ slot[r] = s
              /\ \/ pc[r] = "release_del"
                 \/ pc[r] = "evict" /\ charge[r] = "captured"
              /\ slot[token[r]] = s]_vars

\* A checkout whose lock was verified is answered, unless the server dies
\* under it: no refusal, failure or race leaves it waiting.
CheckoutAnswered ==
  \A r \in Requests :
    pc[r] = "checkout_get" ~> pc[r] \in {"confirmed", "failed", "crashed"}

\* An abandoned hold never blocks a slot for good.
LockEventuallyFree == \A s \in Slots : []<>(lock[s] = None)

\* The place in the calendar that a checkout asks for.
Place(r) == <<slot[r], member[r]>>

\* The detailed checkout implements the ledger: whatever interleaves, fails
\* or crashes, Square's calendar and Square's charges change only by
\* reserving a free place, selling it to its holder, and withdrawing a
\* reservation that was not sold.  That a taken place is not reserved twice
\* is Square's doing; that a sale follows its reservation, is final and is
\* never withdrawn is the code's.  Holds as long as no answer is lost.
Ledger == INSTANCE SlotLedger WITH
  Places <- Slots \X Members,
  Buyers <- Requests,
  reserved <- [p \in Slots \X Members |->
                 {r \in Requests : Place(r) = p /\ booking[r] = "accepted"}],
  sold <- [p \in Slots \X Members |->
             {r \in Requests : Place(r) = p /\ charge[r] = "captured"}]

ImplementsLedger == Ledger!Spec

(* What the code's comments say and its interleavings refute *)

\* "Auto-rollback Square booking if payment failed": a booking is cancelled
\* by the rollback only if its payment was not taken.
RollbackOnlyIfUnpaid ==
  [][\A r \in Requests :
       booking[r] = "accepted" /\ booking'[r] = "cancelled"
         => charge[r] = "none"]_vars
=============================================================================
