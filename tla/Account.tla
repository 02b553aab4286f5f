------------------------------- MODULE Account -------------------------------
(***************************************************************************)
(* What becomes of the row of a member of staff: the code sent for a       *)
(* forgotten password, the invitation of a new member, and the changes of  *)
(* password and e-mail that members make themselves.                       *)
(* Source: auth/auth.service.ts (createStaff, setPassword, resendInvite,   *)
(* removeInvitation, sendForgotPasswordOtp, verifyForgotPasswordOtp,       *)
(* resetPasswordWithOtp, changePassword, changeEmail and verifyEmail).     *)
(*                                                                         *)
(* All of it concerns one e-mail address: at most one row of users has     *)
(* it, and both Redis keys are made from it. A row that takes another      *)
(* e-mail is not followed, and a row that takes this one is a new row      *)
(* here. A process is one HTTP request, cut at its awaits. A code or an    *)
(* invitation token is named after the request that generated it; its      *)
(* mail may be read at any later time, so a request may present any        *)
(* secret generated so far, or a wrong one.                                *)
(*                                                                         *)
(* No handler undoes anything here: a call that fails, or a server that    *)
(* dies, leaves the request where it is. Requests are promised no          *)
(* progress, so that every behaviour with such an end is among those of    *)
(* Spec. Only the EXPIRE of the attempts key fails in a step of its own,   *)
(* because a property tells it from one still to come. Time is left out:   *)
(* what has a time to live may expire at any step.                         *)
(***************************************************************************)
EXTENDS Naturals

CONSTANTS Requests,     \* HTTP requests, each served once
          Root,         \* the id and password of a member of long standing
          None,         \* "no row", "no key", "nothing"
          MaxAttempts   \* wrong guesses that invalidate a code

ASSUME NamesAssumption ==
  Root \notin Requests /\ None \notin Requests /\ Root # None

ASSUME AttemptsAssumption == MaxAttempts \in Nat \ {0, 1}

VARIABLES pc,        \* pc[r]: the await the handler of r has reached
          shown,     \* shown[r]: the code or token in the payload of r
          read,      \* read[r]: what r read and still acts on: the id of a row
                     \* or the code of the moment
          user,      \* the row with this e-mail, or None
          otp,       \* the code under forgot_password_otp, or None
          attempts,  \* the attempts key: its value, whether it has a time to
                     \* live, and (history) the request whose INCR created it
          late       \* history: requests that were about to write a row they
                     \* had read as pending when the row was activated

vars == <<pc, shown, read, user, otp, attempts, late>>

Ids == Requests \cup {Root}

\* A row.  fresh: the invitation is younger than 24 hours.
Row == [id: Ids, active: BOOLEAN, password: Ids \cup {None},
        token: Requests \cup {None}, fresh: BOOLEAN]

ASSUME RowAssumption == None \notin Row

NoAttempts == [n |-> 0, ttl |-> FALSE, by |-> None]

Member == [id |-> Root, active |-> TRUE, password |-> Root, token |-> None,
           fresh |-> FALSE]

\* The e-mail is that of a member, or nobody's yet.
Init ==
  /\ pc = [r \in Requests |-> "new"]
  /\ shown = [r \in Requests |-> None]
  /\ read = [r \in Requests |-> None]
  /\ user \in {None, Member}
  /\ otp = None
  /\ attempts = NoAttempts
  /\ late = {}

Goto(r, label) == pc' = [pc EXCEPT ![r] = label]

\* Codes and tokens that exist; their mails may have been read.
Codes == {r \in Requests : pc[r] = "code_sent"}
Tokens == {r \in Requests : pc[r] \in {"invited", "resent"}}

-----------------------------------------------------------------------------
(* sendForgotPasswordOtp *)

SendFind(r) ==
  /\ pc[r] = "new"
  /\ Goto(r, IF user = None THEN "refused" ELSE "send_set")
  /\ UNCHANGED <<shown, read, user, otp, attempts, late>>

\* SET with EX replaces an earlier code; attempts at that one still count.
SendSet(r) ==
  /\ pc[r] = "send_set"
  /\ otp' = r
  /\ Goto(r, "code_sent")
  /\ UNCHANGED <<shown, read, user, attempts, late>>

-----------------------------------------------------------------------------
(* verifyForgotPasswordOtp *)

VerifyFind(r) ==
  /\ pc[r] = "new"
  /\ \E code \in Codes \cup {None} : shown' = [shown EXCEPT ![r] = code]
  /\ Goto(r, IF user = None THEN "refused" ELSE "verify_get")
  /\ UNCHANGED <<read, user, otp, attempts, late>>

VerifyGet(r) ==
  /\ pc[r] = "verify_get"
  /\ read' = [read EXCEPT ![r] = otp]
  /\ Goto(r, CASE otp = None     -> "refused"
               [] otp = shown[r] -> "verify_clear"
               [] OTHER          -> "verify_count")
  /\ UNCHANGED <<shown, user, otp, attempts, late>>

\* Fault: the time to live is given to the last attempt, not to the first.
VerifyCountLateTtl(r) ==
  /\ pc[r] = "verify_count"
  /\ LET n == attempts.n + 1 IN
       /\ attempts' = [attempts EXCEPT !.n = n]
       /\ Goto(r, IF n >= MaxAttempts THEN "verify_drop" ELSE "refused")
  /\ UNCHANGED <<shown, read, user, otp, late>>

\* INCR creates the key without a time to live.
VerifyCount(r) ==
  /\ pc[r] = "verify_count"
  /\ LET n == attempts.n + 1 IN
       /\ attempts' = [attempts EXCEPT !.n = n, !.by = IF n = 1 THEN r ELSE @]
       /\ Goto(r, CASE n = 1           -> "verify_ttl"
                    [] n >= MaxAttempts -> "verify_drop"
                    [] OTHER            -> "refused")
  /\ UNCHANGED <<shown, read, user, otp, late>>

\* EXPIRE does nothing to a key that is gone.
VerifyTtl(r) ==
  /\ pc[r] = "verify_ttl"
  /\ attempts' = [attempts EXCEPT !.ttl = attempts.n > 0]
  /\ Goto(r, "refused")
  /\ UNCHANGED <<shown, read, user, otp, late>>

\* The counter that the INCR created is left without a time to live.
VerifyTtlFails(r) ==
  /\ pc[r] = "verify_ttl"
  /\ Goto(r, "ttl_failed")
  /\ UNCHANGED <<shown, read, user, otp, attempts, late>>

\* Fault: too many guesses clear the counter but leave the code.
VerifyDropNothing(r) ==
  /\ pc[r] = "verify_drop"
  /\ Goto(r, "verify_forget")
  /\ UNCHANGED <<shown, read, user, otp, attempts, late>>

\* The DEL after too many guesses hits the code of the moment.
VerifyDrop(r) ==
  /\ pc[r] = "verify_drop"
  /\ otp' = None
  /\ Goto(r, "verify_forget")
  /\ UNCHANGED <<shown, read, user, attempts, late>>

VerifyForget(r) ==
  /\ pc[r] = "verify_forget"
  /\ attempts' = NoAttempts
  /\ Goto(r, "locked_out")
  /\ UNCHANGED <<shown, read, user, otp, late>>

\* Fault: a right guess takes one attempt back instead of clearing them all.
VerifyClearDecr(r) ==
  /\ pc[r] = "verify_clear"
  /\ attempts' = [attempts EXCEPT !.n = @ - 1]
  /\ Goto(r, "verified")
  /\ UNCHANGED <<shown, read, user, otp, late>>

\* A right guess clears the counter; the EXPIRE that follows gives the code
\* of the moment five minutes.
VerifyClear(r) ==
  /\ pc[r] = "verify_clear"
  /\ attempts' = NoAttempts
  /\ Goto(r, "verified")
  /\ UNCHANGED <<shown, read, user, otp, late>>

-----------------------------------------------------------------------------
(* resetPasswordWithOtp: neither asks for a verification nor counts *)

ResetFind(r) ==
  /\ pc[r] = "new"
  /\ \E code \in Codes \cup {None} : shown' = [shown EXCEPT ![r] = code]
  /\ Goto(r, IF user = None THEN "refused" ELSE "reset_get")
  /\ UNCHANGED <<read, user, otp, attempts, late>>

ResetGet(r) ==
  /\ pc[r] = "reset_get"
  /\ read' = [read EXCEPT ![r] = otp]
  /\ Goto(r, IF otp # None /\ otp = shown[r] THEN "reset_change" ELSE "refused")
  /\ UNCHANGED <<shown, user, otp, attempts, late>>

\* changePassword updates by e-mail, whatever row has it by now.
ResetChange(r) ==
  /\ pc[r] = "reset_change"
  /\ IF user = None
     THEN Goto(r, "refused") /\ UNCHANGED user
     ELSE Goto(r, "reset_del") /\ user' = [user EXCEPT !.password = r]
  /\ UNCHANGED <<shown, read, otp, attempts, late>>

\* Fault: the code is left to expire.
ResetDelSkipped(r) ==
  /\ pc[r] = "reset_del"
  /\ Goto(r, "reset_done")
  /\ UNCHANGED <<shown, read, user, otp, attempts, late>>

ResetDel(r) ==
  /\ pc[r] = "reset_del"
  /\ otp' = None
  /\ Goto(r, "reset_done")
  /\ UNCHANGED <<shown, read, user, attempts, late>>

-----------------------------------------------------------------------------
(* createStaff *)

\* Two queries that may refuse: the e-mail is taken, or the role unknown.
CreateFind(r) ==
  /\ pc[r] = "new"
  /\ \E known \in BOOLEAN :
       Goto(r, IF user = None /\ known THEN "create_insert" ELSE "refused")
  /\ UNCHANGED <<shown, read, user, otp, attempts, late>>

\* The unique index on the e-mail refuses an insert that came second.
CreateInsert(r) ==
  /\ pc[r] = "create_insert"
  /\ IF user = None
     THEN /\ user' = [id |-> r, active |-> FALSE, password |-> None,
                      token |-> r, fresh |-> TRUE]
          /\ Goto(r, "invited")
     ELSE Goto(r, "refused") /\ UNCHANGED user
  /\ UNCHANGED <<shown, read, otp, attempts, late>>

-----------------------------------------------------------------------------
(* setPassword *)

\* The invitation is checked on the row as read; the hash of the password
\* is awaited before the update.
AcceptFind(r) ==
  /\ pc[r] = "new"
  /\ \E t \in Tokens \cup {None} :
       /\ shown' = [shown EXCEPT ![r] = t]
       /\ IF user # None /\ t # None /\ user.token = t /\ user.fresh
          THEN Goto(r, "accept_update") /\ read' = [read EXCEPT ![r] = user.id]
          ELSE Goto(r, "refused") /\ UNCHANGED read
  /\ UNCHANGED <<user, otp, attempts, late>>

\* Whether the row r read is still there.
StillThere(r) == user # None /\ user.id = read[r]

\* Who is about to write the row r activates.
Overlapping(r) ==
  {q \in Requests \ {r} :
     /\ pc[q] \in {"accept_update", "resend_update", "remove_delete"}
     /\ read[q] = read[r]}

Activated(r) == [user EXCEPT !.password = r, !.active = TRUE, !.token = None,
                             !.fresh = FALSE]

\* Fault: the update goes by e-mail, not by id.
AcceptUpdateByEmail(r) ==
  /\ pc[r] = "accept_update"
  /\ IF user # None
     THEN /\ user' = Activated(r)
          /\ late' = late \cup Overlapping(r)
          /\ Goto(r, "accepted")
     ELSE Goto(r, "refused") /\ UNCHANGED <<user, late>>
  /\ UNCHANGED <<shown, read, otp, attempts>>

\* Fault: the invitation stays in the row.
AcceptUpdateKeepingToken(r) ==
  /\ pc[r] = "accept_update"
  /\ IF StillThere(r)
     THEN /\ user' = [user EXCEPT !.password = r, !.active = TRUE]
          /\ late' = late \cup Overlapping(r)
          /\ Goto(r, "accepted")
     ELSE Goto(r, "refused") /\ UNCHANGED <<user, late>>
  /\ UNCHANGED <<shown, read, otp, attempts>>

\* The update by id fails if the row is gone; it does not check the token
\* again.
AcceptUpdate(r) ==
  /\ pc[r] = "accept_update"
  /\ IF StillThere(r)
     THEN /\ user' = Activated(r)
          /\ late' = late \cup Overlapping(r)
          /\ Goto(r, "accepted")
     ELSE Goto(r, "refused") /\ UNCHANGED <<user, late>>
  /\ UNCHANGED <<shown, read, otp, attempts>>

-----------------------------------------------------------------------------
(* resendInvite and removeInvitation: what was read as pending is written *)

\* Fault: an active member may be invited again.
ResendFindAny(r) ==
  /\ pc[r] = "new"
  /\ IF user # None
     THEN Goto(r, "resend_update") /\ read' = [read EXCEPT ![r] = user.id]
     ELSE Goto(r, "refused") /\ UNCHANGED read
  /\ UNCHANGED <<shown, user, otp, attempts, late>>

ResendFind(r) ==
  /\ pc[r] = "new"
  /\ IF user # None /\ ~user.active
     THEN Goto(r, "resend_update") /\ read' = [read EXCEPT ![r] = user.id]
     ELSE Goto(r, "refused") /\ UNCHANGED read
  /\ UNCHANGED <<shown, user, otp, attempts, late>>

ResendUpdate(r) ==
  /\ pc[r] = "resend_update"
  /\ IF StillThere(r)
     THEN /\ user' = [user EXCEPT !.token = r, !.fresh = TRUE]
          /\ Goto(r, "resent")
     ELSE Goto(r, "refused") /\ UNCHANGED user
  /\ UNCHANGED <<shown, read, otp, attempts, late>>

\* The request names a row by its id; another id than this e-mail's row has
\* finds nothing here.
RemoveFind(r) ==
  /\ pc[r] = "new"
  /\ IF user # None /\ ~user.active
     THEN Goto(r, "remove_delete") /\ read' = [read EXCEPT ![r] = user.id]
     ELSE Goto(r, "refused") /\ UNCHANGED read
  /\ UNCHANGED <<shown, user, otp, attempts, late>>

RemoveDelete(r) ==
  /\ pc[r] = "remove_delete"
  /\ IF StillThere(r)
     THEN Goto(r, "removed") /\ user' = None
     ELSE Goto(r, "refused") /\ UNCHANGED user
  /\ UNCHANGED <<shown, read, otp, attempts, late>>

-----------------------------------------------------------------------------
(* changePassword, changeEmail and verifyEmail: members who have a password *)

\* The row is read twice, by id and by e-mail; the old password may be wrong.
ChangeFind(r) ==
  /\ pc[r] = "new"
  /\ \E right \in BOOLEAN :
       Goto(r, IF user # None /\ user.password # None /\ right
               THEN "change_update" ELSE "refused")
  /\ UNCHANGED <<shown, read, user, otp, attempts, late>>

\* The update goes by e-mail, whatever row has it by now.
ChangeUpdate(r) ==
  /\ pc[r] = "change_update"
  /\ IF user = None
     THEN Goto(r, "refused") /\ UNCHANGED user
     ELSE Goto(r, "changed") /\ user' = [user EXCEPT !.password = r]
  /\ UNCHANGED <<shown, read, otp, attempts, late>>

\* A member takes another e-mail; the token mailed to it may be wrong.
LeaveFind(r) ==
  /\ pc[r] = "new"
  /\ \E right \in BOOLEAN :
       IF user # None /\ user.password # None /\ right
       THEN Goto(r, "leave_update") /\ read' = [read EXCEPT ![r] = user.id]
       ELSE Goto(r, "refused") /\ UNCHANGED read
  /\ UNCHANGED <<shown, user, otp, attempts, late>>

\* The update goes by id; the unique index may refuse it.
LeaveUpdate(r) ==
  /\ pc[r] = "leave_update"
  /\ \E free \in BOOLEAN :
       IF StillThere(r) /\ free
       THEN Goto(r, "left") /\ user' = None
       ELSE Goto(r, "refused") /\ UNCHANGED user
  /\ UNCHANGED <<shown, read, otp, attempts, late>>

Entered(r, active) == [id |-> r, active |-> active, password |-> r, token |-> None,
                       fresh |-> FALSE]

\* A row with a password and without an invitation takes this e-mail, unless
\* another has it: that of a member (changeEmail, active) or a new one
\* (verifyEmail, not active).
Enter(r) ==
  /\ pc[r] = "new"
  /\ \E active \in BOOLEAN :
       IF user = None
       THEN user' = Entered(r, active) /\ Goto(r, "entered")
       ELSE Goto(r, "refused") /\ UNCHANGED user
  /\ UNCHANGED <<shown, read, otp, attempts, late>>

-----------------------------------------------------------------------------
(* Time *)

OtpExpires == otp # None /\ otp' = None
              /\ UNCHANGED <<pc, shown, read, user, attempts, late>>

AttemptsExpire == attempts.ttl /\ attempts' = NoAttempts
                  /\ UNCHANGED <<pc, shown, read, user, otp, late>>

InvitationExpires ==
  /\ user # None /\ user.fresh
  /\ user' = [user EXCEPT !.fresh = FALSE]
  /\ UNCHANGED <<pc, shown, read, otp, attempts, late>>

-----------------------------------------------------------------------------

ForgotPassword(r) ==
  \/ SendFind(r)    \/ SendSet(r)
  \/ VerifyFind(r)  \/ VerifyGet(r)   \/ VerifyCount(r) \/ VerifyTtl(r)
  \/ VerifyTtlFails(r) \/ VerifyDrop(r) \/ VerifyForget(r) \/ VerifyClear(r)
  \/ ResetFind(r)   \/ ResetGet(r)    \/ ResetChange(r) \/ ResetDel(r)

Invitation(r) ==
  \/ CreateFind(r)  \/ CreateInsert(r)
  \/ AcceptFind(r)  \/ AcceptUpdate(r)
  \/ ResendFind(r)  \/ ResendUpdate(r)
  \/ RemoveFind(r)  \/ RemoveDelete(r)

Profile(r) ==
  \/ ChangeFind(r)  \/ ChangeUpdate(r)
  \/ LeaveFind(r)   \/ LeaveUpdate(r) \/ Enter(r)

Next ==
  \/ \E r \in Requests : ForgotPassword(r) \/ Invitation(r) \/ Profile(r)
  \/ OtpExpires \/ AttemptsExpire \/ InvitationExpires

Spec == Init /\ [][Next]_vars
-----------------------------------------------------------------------------
(* Properties *)

Labels ==
  {"new", "refused", "send_set", "code_sent", "verify_get", "verify_count",
   "verify_ttl", "verify_drop", "verify_forget", "verify_clear", "verified",
   "locked_out", "reset_get", "reset_change", "reset_del", "reset_done",
   "create_insert", "invited", "accept_update", "accepted", "resend_update",
   "resent", "remove_delete", "removed", "ttl_failed", "change_update", "changed",
   "leave_update", "left", "entered"}

\* The type of every variable.
TypeOK ==
  /\ pc \in [Requests -> Labels]
  /\ shown \in [Requests -> Requests \cup {None}]
  /\ read \in [Requests -> Ids \cup {None}]
  /\ user \in Row \cup {None}
  /\ otp \in Requests \cup {None}
  /\ attempts \in [n: Nat, ttl: BOOLEAN, by: Requests \cup {None}]
  /\ late \subseteq Requests

\* What was used up never comes back: the code a reset was answered for, the
\* code that too many guesses invalidated, the invitation that set a
\* password (the DELs of resetPasswordWithOtp and verifyForgotPasswordOtp,
\* and inviteToken: null in setPassword), whatever was sent again meanwhile.
SpentSecretsGone ==
  \A r \in Requests :
    /\ pc[r] = "reset_done" => otp # shown[r]
    /\ pc[r] = "locked_out" => otp # read[r]
    /\ pc[r] = "accepted" => user = None \/ user.token # shown[r]

\* The row an invitation was sent for.
RowOf(t) == IF pc[t] = "resent" THEN read[t] ELSE t

\* An invitation opens the account it was sent for: after a removal and a
\* new invitation of the same e-mail, the old mail opens nothing (the updates
\* by id of setPassword and resendInvite).
InvitationOpensOwnAccount ==
  user # None =>
    /\ user.token # None => RowOf(user.token) = user.id
    /\ user.password \in Requests /\ pc[user.password] = "accepted"
         => RowOf(shown[user.password]) = user.id

\* The requests of members that change an account on purpose, whether or not
\* they change the row they once read (two of them go by e-mail).
OwnChange(r) ==
  <<pc[r], pc'[r]>> \in {<<"reset_change", "reset_del">>, <<"change_update", "changed">>,
                         <<"leave_update", "left">>}

\* An active account changes only by a password reset, by a member's own change
\* of password or e-mail, by a request that was already writing the row when it
\* was activated, or by the invitation such a request sent: nobody who begins
\* afterwards invites, accepts for or removes an active member (the isActive
\* checks of resendInvite and removeInvitation, and the token cleared by
\* setPassword).  What was already writing does change it: none of the three
\* writers checks again.
ActivationSettles ==
  [][user # None /\ user.active /\ user' # user =>
       \/ \E r \in Requests : OwnChange(r)
       \/ \E r \in Requests : pc'[r] # pc[r] /\ {r, shown[r]} \cap late # {}
       \/ user.token \in late /\ InvitationExpires]_vars

\* Wrong guesses are forgotten in time: a counter has a time to live, unless
\* the very request that created it has still to set it, or failed to: then
\* this counter, and no later one, never ends.
AttemptsHaveEnd ==
  attempts.n > 0 /\ ~attempts.ttl =>
    attempts.by # None /\ pc[attempts.by] \in {"verify_ttl", "ttl_failed"}

(* The abstract specification *)

TheCode == {otp} \ {None}
CodeRegister ==
  INSTANCE Register WITH Grants <- Requests, valid <- TheCode, ended <- Codes \ TheCode

TheInvitation == IF user # None /\ user.fresh THEN {user.token} ELSE {}
InvitationRegister ==
  INSTANCE Register WITH Grants <- Requests, valid <- TheInvitation,
                         ended <- Tokens \ TheInvitation

\* A code is issued once and, when it was used, guessed at too often, replaced
\* by a later one or expired, is never asked for again; nor is an invitation
\* that was accepted, sent again, removed or has expired.
ImplementsRegister == CodeRegister!Spec /\ InvitationRegister!Spec
=============================================================================
