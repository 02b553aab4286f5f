----------------------- MODULE BookingCheckoutProofs -----------------------
(***************************************************************************)
(* Proofs about BookingCheckout for any set of requests, slots, customers  *)
(* and admitted failures.                                                  *)
(*                                                                         *)
(* The argument has three invariants.  LockInv says whose token may sit    *)
(* under a key, which makes the check of assertLockOwnership meaningful    *)
(* after the key has expired or was overwritten.  MoneyInv says what       *)
(* Square, the payments table and the mail queue hold for a request at     *)
(* each of its awaits; RecordsTruthful is not inductive without it.        *)
(* LeadInv says where a checkout without a lead id lost it, which is what  *)
(* its payment row depends on.                                             *)
(***************************************************************************)
EXTENDS BookingCheckout, TLAPS

USE DEF Goto, lockVars, requestVars, checkoutVars, localVars, squareVars,
        databaseVars, historyVars

\* A stored token is that of a granted lock request for this slot.
StoredTokens ==
  \A s \in Slots : lock[s] # None =>
    /\ pc[lock[s].token] = "locked"
    /\ slot[lock[s].token] = s

LockInv == TypeOK /\ StoredTokens /\ OwnershipVerified

\* Nothing has been booked, charged, recorded or mailed for r.
Untouched(r) ==
  /\ booking[r] = "none"      /\ charge[r] = "none"
  /\ paymentRows[r] = {}      /\ r \notin mailed

PaidFor(r) == booking[r] = "accepted" /\ charge[r] = "captured"

Quiet(r) == paymentRows[r] = {} /\ r \notin mailed

BeforeBooking ==
  {"new", "lock_search", "lock_set", "locked", "release_del", "released",
   "refused", "checkout_get", "checkout_price", "lead_find", "lead_create",
   "book"}

MoneyInv ==
  \A r \in Requests :
    /\ pc[r] \in BeforeBooking => Untouched(r)
    /\ pc[r] = "pay" => booking[r] = "accepted" /\ charge[r] = "none" /\ Quiet(r)
    /\ pc[r] = "paid_record" => PaidFor(r) /\ Quiet(r)
    /\ pc[r] \in {"mail", "evict", "confirmed"} =>
         PaidFor(r) /\ paymentRows[r] \subseteq {"PAID"}
    /\ pc[r] \in {"rollback_get", "rollback_cancel"} =>
         booking[r] = "accepted" /\ Quiet(r)
    /\ pc[r] = "fail_record" => Quiet(r)
    /\ pc[r] = "failed" => paymentRows[r] \subseteq {"FAILED"} /\ r \notin mailed
    /\ pc[r] = "crashed" =>
         /\ paymentRows[r] \subseteq {"PAID"}
         /\ paymentRows[r] # {} \/ r \in mailed => PaidFor(r)

\* What a lost answer would break: until the request is answered, a charge
\* without its booking.
ChargeInv ==
  /\ ChargedHasBooking
  /\ \A r \in Requests :
       pc[r] \in {"rollback_get", "rollback_cancel"} => charge[r] = "none"

\* Square's calendar holds one live booking per start time and team member.
CalendarInv ==
  \A r, q \in Requests :
    booking[r] = "accepted" /\ booking[q] = "accepted" /\ Place(r) = Place(q)
    => r = q

-----------------------------------------------------------------------------
(* Types *)

\* The e-mail of a checkout is known by the time its lead is entered.
CustomerKnown ==
  \A r \in Requests :
    pc[r] \in {"checkout_get", "checkout_price", "lead_find", "lead_create"}
      => customer[r] \in Customers

LEMMA TypeInit == Init => TypeOK /\ CustomerKnown
  BY DEF Init, LockInit, TypeOK, CustomerKnown, Done

LEMMA CustomerStep == TypeOK /\ CustomerKnown /\ [Next]_vars => CustomerKnown'
<1> SUFFICES ASSUME TypeOK, CustomerKnown, [Next]_vars PROVE CustomerKnown'
  OBVIOUS
<1> USE DEF TypeOK, CustomerKnown
<1>1. ASSUME NEW r \in Requests, LockTimeSlot(r) \/ ReleaseLock(r)
      PROVE  CustomerKnown'
  BY <1>1 DEF LockTimeSlot, LockTimeSlotGet, LockTimeSlotSearch, LockTimeSlotSet,
              ReleaseLock, ReleaseLockAssert, ReleaseLockDel
<1>2. ASSUME NEW r \in Requests, CheckoutAssert(r) PROVE CustomerKnown'
  BY <1>2 DEF CheckoutAssert
<1>3. ASSUME NEW r \in Requests,
             CheckoutGet(r) \/ CheckoutPrice(r) \/ LeadFind(r) \/ LeadCreate(r)
      PROVE  CustomerKnown'
  BY <1>3 DEF CheckoutGet, CheckoutPrice, LeadFind, LeadCreate
<1>4. ASSUME NEW r \in Requests,
             \/ Book(r) \/ Pay(r) \/ PaidRecord(r) \/ Mail(r) \/ Evict(r)
             \/ RollbackGet(r) \/ RollbackCancel(r) \/ FailRecord(r) \/ Crash(r)
      PROVE  CustomerKnown'
  BY <1>4 DEF Book, Pay, PaidRecord, Mail, Evict, RollbackGet, RollbackCancel,
              FailRecord, Crash
<1>5. ASSUME NEW s \in Slots, Expire(s) PROVE CustomerKnown'
  BY <1>5 DEF Expire, LockExpires
<1>6. CASE UNCHANGED vars
  BY <1>6 DEF vars
<1> QED
  BY <1>1, <1>2, <1>3, <1>4, <1>5, <1>6 DEF Next, Handler

LEMMA TypeStep == TypeOK /\ CustomerKnown /\ [Next]_vars => TypeOK'
<1> SUFFICES ASSUME TypeOK, CustomerKnown, [Next]_vars PROVE TypeOK'
  OBVIOUS
<1>1. ASSUME NEW r \in Requests, LockTimeSlot(r) PROVE TypeOK'
  <2>1. CASE LockTimeSlotGet(r)
    BY <1>1, <2>1 DEF LockTimeSlot, LockTimeSlotGet, TypeOK, Done
  <2>2. CASE \E offered \in BOOLEAN : LockTimeSlotSearch(r, offered)
    BY <1>1, <2>2 DEF LockTimeSlot, LockTimeSlotSearch, TypeOK, Done
  <2>3. CASE LockTimeSlotSet(r)
    <3>1. [token |-> r, px |-> TRUE] \in LockValue
      BY DEF LockValue
    <3> QED
      BY <1>1, <2>3, <3>1 DEF LockTimeSlot, LockTimeSlotSet, TypeOK, Done
  <2> QED
    BY <1>1, <2>1, <2>2, <2>3 DEF LockTimeSlot
<1>2. ASSUME NEW r \in Requests, ReleaseLock(r) PROVE TypeOK'
  BY <1>2 DEF ReleaseLock, ReleaseLockAssert, ReleaseLockDel, TypeOK, LockValue, Checkouts, Done, Granted
<1>3. ASSUME NEW r \in Requests, CheckoutAssert(r) PROVE TypeOK'
  BY <1>3 DEF CheckoutAssert, TypeOK, LockValue, Checkouts, Done, Granted
<1>4. ASSUME NEW r \in Requests, CheckoutGet(r) PROVE TypeOK'
  BY <1>4 DEF CheckoutGet, TypeOK, LockValue, Checkouts, Done, Granted
<1>5. ASSUME NEW r \in Requests, CheckoutPrice(r) PROVE TypeOK'
  BY <1>5 DEF CheckoutPrice, TypeOK, LockValue, Checkouts, Done, Granted
<1>6. ASSUME NEW r \in Requests, LeadFind(r) PROVE TypeOK'
  <2>1. leadId' \in [Requests -> BOOLEAN]
    BY <1>6 DEF LeadFind, TypeOK, DbOutcomes
  <2>2. pc' \in [Requests -> Done \cup Checkouts \cup
                   {"lock_search", "lock_set", "release_del", "fail_record"}]
    BY <1>6 DEF LeadFind, TypeOK, Checkouts
  <2>3. dbFailed' \subseteq Requests
    BY <1>6 DEF LeadFind, Queried, TypeOK
  <2> QED
    BY <1>6, <2>1, <2>2, <2>3 DEF LeadFind, TypeOK
<1>7. ASSUME NEW r \in Requests, LeadCreate(r) PROVE TypeOK'
  <2>1. PICK known \in BOOLEAN : leadId' = [leadId EXCEPT ![r] = known]
    BY <1>7, Zenon DEF LeadCreate
  <2>2. leadId' \in [Requests -> BOOLEAN]
    BY <2>1 DEF TypeOK
  <2>3. leadRows' \subseteq Customers
    BY <1>7 DEF LeadCreate, TypeOK, CustomerKnown
  <2>4. dbFailed' \subseteq Requests
    BY <1>7 DEF LeadCreate, Queried, TypeOK
  <2> QED
    BY <1>7, <2>2, <2>3, <2>4 DEF LeadCreate, TypeOK, Checkouts
<1>8. ASSUME NEW r \in Requests, Book(r) PROVE TypeOK'
  BY <1>8 DEF Book, Outcomes, TypeOK, LockValue, Checkouts, Done, Granted
<1>9. ASSUME NEW r \in Requests, Pay(r) PROVE TypeOK'
  BY <1>9 DEF Pay, Outcomes, TypeOK, LockValue, Checkouts, Done, Granted
<1>10. ASSUME NEW r \in Requests, PaidRecord(r) PROVE TypeOK'
  BY <1>10 DEF PaidRecord, CreatePaymentRecord, Queried, TypeOK, LockValue, Checkouts, Done, Granted
<1>11. ASSUME NEW r \in Requests, Mail(r) PROVE TypeOK'
  BY <1>11 DEF Mail, TypeOK, LockValue, Checkouts, Done, Granted
<1>12. ASSUME NEW r \in Requests, Evict(r) PROVE TypeOK'
  BY <1>12 DEF Evict, TypeOK, LockValue, Checkouts, Done, Granted
<1>13. ASSUME NEW r \in Requests, RollbackGet(r) PROVE TypeOK'
  BY <1>13 DEF RollbackGet, RollbackOutcomes, RolledBack, TypeOK, LockValue, Checkouts, Done, Granted
<1>14. ASSUME NEW r \in Requests, RollbackCancel(r) PROVE TypeOK'
  BY <1>14 DEF RollbackCancel, RollbackOutcomes, RolledBack, TypeOK, LockValue, Checkouts, Done, Granted
<1>15. ASSUME NEW r \in Requests, FailRecord(r) PROVE TypeOK'
  BY <1>15 DEF FailRecord, CreatePaymentRecord, Queried, TypeOK, LockValue, Checkouts, Done, Granted
<1>16. ASSUME NEW r \in Requests, Crash(r) PROVE TypeOK'
  BY <1>16 DEF Crash, TypeOK, LockValue, Checkouts, Done, Granted
<1>17. ASSUME NEW s \in Slots, Expire(s) PROVE TypeOK'
  BY <1>17 DEF Expire, LockExpires, TypeOK, LockValue, Checkouts, Done, Granted
<1>18. CASE UNCHANGED vars
  BY <1>18 DEF vars, TypeOK, LockValue, Checkouts, Done, Granted
<1>19. QED
  BY <1>1, <1>2, <1>3, <1>4, <1>5, <1>6, <1>7, <1>8, <1>9, <1>10, <1>11, <1>12, <1>13, <1>14, <1>15, <1>16, <1>17, <1>18 DEF Next, Handler

\* Every variable keeps its type, whatever fails and however requests
\* interleave.
THEOREM TypeCorrect == Spec => []TypeOK
  BY TypeInit, CustomerStep, TypeStep, PTL DEF Spec

-----------------------------------------------------------------------------
(* What a request has done to Square, the payments table and the mails *)

LEMMA MoneyInit == Init => MoneyInv
  BY DEF Init, LockInit, MoneyInv, BeforeBooking, Untouched

LEMMA MoneyStep == TypeOK /\ MoneyInv /\ [Next]_vars => MoneyInv'
<1> SUFFICES ASSUME TypeOK, MoneyInv, [Next]_vars PROVE MoneyInv'
  OBVIOUS
<1> USE DEF TypeOK, MoneyInv, BeforeBooking, Untouched, Quiet, PaidFor
<1>1. ASSUME NEW r \in Requests, LockTimeSlot(r) PROVE MoneyInv'
  BY <1>1 DEF LockTimeSlot, LockTimeSlotGet, LockTimeSlotSearch, LockTimeSlotSet
<1>2. ASSUME NEW r \in Requests, ReleaseLock(r) PROVE MoneyInv'
  BY <1>2 DEF ReleaseLock, ReleaseLockAssert, ReleaseLockDel
<1>3. ASSUME NEW r \in Requests, CheckoutAssert(r) PROVE MoneyInv'
  BY <1>3 DEF CheckoutAssert
<1>4. ASSUME NEW r \in Requests, CheckoutGet(r) PROVE MoneyInv'
  BY <1>4 DEF CheckoutGet
<1>5. ASSUME NEW r \in Requests, CheckoutPrice(r) PROVE MoneyInv'
  BY <1>5 DEF CheckoutPrice
<1>6. ASSUME NEW r \in Requests, LeadFind(r) PROVE MoneyInv'
  BY <1>6 DEF LeadFind
<1>7. ASSUME NEW r \in Requests, LeadCreate(r) PROVE MoneyInv'
  BY <1>7 DEF LeadCreate
<1>8. ASSUME NEW r \in Requests, Book(r) PROVE MoneyInv'
  BY <1>8 DEF Book
<1>9. ASSUME NEW r \in Requests, Pay(r) PROVE MoneyInv'
  BY <1>9 DEF Pay
<1>10. ASSUME NEW r \in Requests, PaidRecord(r) PROVE MoneyInv'
  BY <1>10 DEF PaidRecord, CreatePaymentRecord
<1>11. ASSUME NEW r \in Requests, Mail(r) PROVE MoneyInv'
  BY <1>11 DEF Mail
<1>12. ASSUME NEW r \in Requests, Evict(r) PROVE MoneyInv'
  BY <1>12 DEF Evict
<1>13. ASSUME NEW r \in Requests, RollbackGet(r) PROVE MoneyInv'
  BY <1>13 DEF RollbackGet
<1>14. ASSUME NEW r \in Requests, RollbackCancel(r) PROVE MoneyInv'
  BY <1>14 DEF RollbackCancel
<1>15. ASSUME NEW r \in Requests, FailRecord(r) PROVE MoneyInv'
  BY <1>15 DEF FailRecord, CreatePaymentRecord
<1>16. ASSUME NEW r \in Requests, Crash(r) PROVE MoneyInv'
  <2>1. pc[r] \in (BeforeBooking \ Done) \cup
          {"pay", "paid_record", "mail", "evict", "rollback_get",
           "rollback_cancel", "fail_record"}
    BY <1>16 DEF Crash, Done, Checkouts
  <2>2. /\ paymentRows[r] \subseteq {"PAID"}
        /\ paymentRows[r] # {} \/ r \in mailed => PaidFor(r)
    BY <2>1
  <2> QED
    BY <1>16, <2>2 DEF Crash
<1>17. ASSUME NEW s \in Slots, Expire(s) PROVE MoneyInv'
  BY <1>17 DEF Expire, LockExpires
<1>18. CASE UNCHANGED vars
  BY <1>18 DEF vars
<1> QED
  BY <1>1, <1>2, <1>3, <1>4, <1>5, <1>6, <1>7, <1>8, <1>9, <1>10, <1>11,
     <1>12, <1>13, <1>14, <1>15, <1>16, <1>17, <1>18 DEF Next, Handler

LEMMA MoneyCorrect == Spec => []MoneyInv
  BY TypeCorrect, MoneyInit, MoneyStep, PTL DEF Spec

LEMMA MoneyImplies == TypeOK /\ MoneyInv => RecordsTruthful
  BY DEF TypeOK, Checkouts, Done, MoneyInv, BeforeBooking, Untouched, Quiet,
         PaidFor, RecordsTruthful

\* Payment rows and confirmation mails tell the truth about Square, whichever
\* calls are refused, lost or never answered.
THEOREM RecordsAreTruthful == Spec => []RecordsTruthful
  BY TypeCorrect, MoneyCorrect, MoneyImplies, PTL

-----------------------------------------------------------------------------
(* Who may act on a slot *)

LEMMA LockInvInit == Init => LockInv
<1> SUFFICES ASSUME Init PROVE LockInv
  OBVIOUS
<1>1. TypeOK
  BY TypeInit
<1>2. StoredTokens /\ OwnershipVerified
  BY DEF Init, LockInit, StoredTokens, OwnershipVerified, Checkouts
<1> QED
  BY <1>1, <1>2 DEF LockInv

\* Everything a request does after its first await leaves the payload, the
\* locks it does not delete and the granted requests alone.
LEMMA LockInvFrame ==
  ASSUME LockInv, NEW r \in Requests, TypeOK',
         UNCHANGED <<slot, token>>,
         \A s \in Slots : lock'[s] = lock[s] \/ lock'[s] = None,
         \A q \in Requests \ {r} : pc'[q] = pc[q] /\ booking'[q] = booking[q],
         pc[r] # "locked",
         booking'[r] # "none" \/ pc'[r] \in Checkouts \cup {"release_del", "released"}
           => token[r] \in Granted /\ slot[token[r]] = slot[r]
  PROVE  StoredTokens' /\ OwnershipVerified'
<1> USE DEF LockInv, TypeOK
<1>1. \A q \in Granted : q \in Granted'
  BY DEF Granted
<1>2. StoredTokens'
  BY DEF StoredTokens, LockValue
<1>3. OwnershipVerified'
  BY <1>1 DEF OwnershipVerified
<1> QED
  BY <1>2, <1>3

LEMMA LockInvStep ==
  LockInv /\ MoneyInv /\ [Next]_vars /\ TypeOK' => StoredTokens' /\ OwnershipVerified'
<1> SUFFICES ASSUME LockInv, MoneyInv, [Next]_vars, TypeOK'
             PROVE  StoredTokens' /\ OwnershipVerified'
  OBVIOUS
<1> DEFINE Past(r) == token[r] \in Granted /\ slot[token[r]] = slot[r]
<1> DEFINE Kept == StoredTokens' /\ OwnershipVerified'
<1>0. \A r \in Requests : pc[r] = "new" => booking[r] = "none"
  BY DEF MoneyInv, BeforeBooking, Untouched
<1>1. ASSUME NEW r \in Requests, LockTimeSlot(r) PROVE Kept
  <2>1. CASE LockTimeSlotGet(r)
    <3>1. PICK s \in Slots :
            /\ slot' = [slot EXCEPT ![r] = s]
            /\ pc' = [pc EXCEPT ![r] = IF lock[s] = None THEN "lock_search" ELSE "refused"]
      BY <2>1 DEF LockTimeSlotGet, Goto
    <3>2. pc[r] = "new" /\ UNCHANGED <<token, lock, booking>>
      BY <1>1, <2>1 DEF LockTimeSlot, LockTimeSlotGet
    <3>3. StoredTokens'
      BY <3>1, <3>2 DEF StoredTokens, LockInv, TypeOK, LockValue
    <3>4. OwnershipVerified'
      BY <1>0, <3>1, <3>2 DEF OwnershipVerified, Granted, LockInv, TypeOK, Checkouts
    <3> QED
      BY <3>3, <3>4
  <2>2. CASE \E offered \in BOOLEAN : LockTimeSlotSearch(r, offered)
    <3>1. /\ pc[r] = "lock_search" /\ pc'[r] \in {"lock_set", "refused"}
          /\ \A q \in Requests \ {r} : pc'[q] = pc[q] /\ booking'[q] = booking[q]
          /\ booking'[r] = booking[r]
          /\ UNCHANGED <<slot, token, lock>>
      BY <1>1, <2>2 DEF LockTimeSlot, LockTimeSlotSearch, LockInv, TypeOK
    <3> QED
      BY <3>1, LockInvFrame DEF LockInv, OwnershipVerified, Checkouts
  <2>3. CASE LockTimeSlotSet(r)
    <3>1. /\ pc[r] = "lock_set" /\ pc' = [pc EXCEPT ![r] = "locked"]
          /\ lock' = [lock EXCEPT ![slot[r]] = [token |-> r, px |-> TRUE]]
          /\ UNCHANGED <<slot, token, booking>>
      BY <1>1, <2>3 DEF LockTimeSlot, LockTimeSlotSet
    <3>2. StoredTokens'
      BY <3>1 DEF StoredTokens, LockInv, TypeOK, LockValue
    <3>3. OwnershipVerified'
      BY <3>1 DEF OwnershipVerified, Granted, LockInv, TypeOK, Checkouts
    <3> QED
      BY <3>2, <3>3
  <2> QED
    BY <1>1, <2>1, <2>2, <2>3 DEF LockTimeSlot
<1>2. ASSUME NEW r \in Requests, ReleaseLock(r) PROVE Kept
  <2>1. CASE ReleaseLockAssert(r)
    <3>1. PICK s \in Slots, t \in Granted :
            /\ slot' = [slot EXCEPT ![r] = s]
            /\ token' = [token EXCEPT ![r] = t]
            /\ pc' = [pc EXCEPT ![r] = IF OwnsLock(s, t) THEN "release_del"
                                                         ELSE "refused"]
      BY <2>1 DEF ReleaseLockAssert
    <3>2. pc[r] = "new" /\ UNCHANGED <<lock, booking>>
      BY <1>2, <2>1 DEF ReleaseLock, ReleaseLockAssert
    <3>3. StoredTokens'
      BY <3>1, <3>2 DEF StoredTokens, LockInv, TypeOK, LockValue
    <3>4. OwnershipVerified'
      BY <1>0, <3>1, <3>2 DEF OwnershipVerified, StoredTokens, OwnsLock, Granted,
                              LockInv, TypeOK, Checkouts
    <3> QED
      BY <3>3, <3>4
  <2>2. CASE ReleaseLockDel(r)
    <3>1. /\ pc[r] = "release_del" /\ pc'[r] = "released"
          /\ \A q \in Requests \ {r} : pc'[q] = pc[q] /\ booking'[q] = booking[q]
          /\ booking'[r] = booking[r]
          /\ UNCHANGED <<slot, token>>
          /\ \A s \in Slots : lock'[s] = lock[s] \/ lock'[s] = None
      BY <1>2, <2>2 DEF ReleaseLock, ReleaseLockDel, LockInv, TypeOK
    <3> QED
      BY <3>1, LockInvFrame DEF LockInv, OwnershipVerified, Checkouts
  <2> QED
    BY <1>2, <2>1, <2>2 DEF ReleaseLock
<1>3. ASSUME NEW r \in Requests, CheckoutAssert(r) PROVE Kept
  <2>1. PICK s \in Slots, t \in Granted :
          /\ slot' = [slot EXCEPT ![r] = s]
          /\ token' = [token EXCEPT ![r] = t]
          /\ pc' = [pc EXCEPT ![r] = IF OwnsLock(s, t) THEN "checkout_get"
                                                       ELSE "fail_record"]
    BY <1>3 DEF CheckoutAssert
  <2>2. pc[r] = "new" /\ UNCHANGED <<lock, booking>>
    BY <1>3 DEF CheckoutAssert
  <2>3. StoredTokens'
    BY <2>1, <2>2 DEF StoredTokens, LockInv, TypeOK, LockValue
  <2>4. OwnershipVerified'
    BY <1>0, <2>1, <2>2 DEF OwnershipVerified, StoredTokens, OwnsLock, Granted,
                            LockInv, TypeOK, Checkouts
  <2> QED
    BY <2>3, <2>4
<1>4. ASSUME NEW r \in Requests,
             \/ CheckoutGet(r) \/ CheckoutPrice(r) \/ LeadFind(r) \/ LeadCreate(r)
             \/ Book(r) \/ Pay(r) \/ PaidRecord(r) \/ Mail(r) \/ Evict(r)
             \/ RollbackGet(r) \/ RollbackCancel(r)
      PROVE  Kept
  <2>1. /\ pc[r] \in Checkouts
        /\ \A q \in Requests \ {r} : pc'[q] = pc[q] /\ booking'[q] = booking[q]
        /\ UNCHANGED <<slot, token>>
        /\ \A s \in Slots : lock'[s] = lock[s] \/ lock'[s] = None
    BY <1>4 DEF CheckoutGet, CheckoutPrice, LeadFind, LeadCreate, Book, Pay,
                PaidRecord, Mail, Evict, RollbackGet, RollbackCancel,
                Checkouts, LockInv, TypeOK
  <2> QED
    BY <2>1, LockInvFrame DEF LockInv, OwnershipVerified, Checkouts
<1>5. ASSUME NEW r \in Requests, FailRecord(r) \/ Crash(r) PROVE Kept
  <2>1. /\ pc[r] # "locked" /\ pc'[r] \in {"failed", "crashed"}
        /\ \A q \in Requests \ {r} : pc'[q] = pc[q] /\ booking'[q] = booking[q]
        /\ booking'[r] = booking[r]
        /\ UNCHANGED <<slot, token, lock>>
    BY <1>5 DEF FailRecord, Crash, Done, LockInv, TypeOK
  <2> QED
    BY <2>1, LockInvFrame DEF LockInv, OwnershipVerified, Checkouts
<1>6. ASSUME NEW s \in Slots, Expire(s) PROVE Kept
  <2>1. /\ UNCHANGED <<pc, slot, token, booking>>
        /\ \A x \in Slots : lock'[x] = lock[x] \/ lock'[x] = None
    BY <1>6 DEF Expire, LockExpires, LockInv, TypeOK
  <2> QED
    BY <2>1 DEF StoredTokens, OwnershipVerified, Granted, LockInv
<1>7. CASE UNCHANGED vars
  BY <1>7 DEF vars, StoredTokens, OwnershipVerified, Granted, LockInv
<1> QED
  BY <1>1, <1>2, <1>3, <1>4, <1>5, <1>6, <1>7 DEF Next, Handler

LEMMA LockInvCorrect == Spec => []LockInv
<1>1. LockInv /\ MoneyInv /\ [Next]_vars /\ TypeOK' => LockInv'
  BY LockInvStep DEF LockInv
<1> QED
  BY <1>1, LockInvInit, TypeCorrect, MoneyCorrect, PTL DEF Spec

\* Lock ownership is verified before confirmation or release.
THEOREM OwnershipIsVerified == Spec => []OwnershipVerified
<1>1. LockInv => OwnershipVerified
  BY DEF LockInv
<1> QED
  BY <1>1, LockInvCorrect, PTL

-----------------------------------------------------------------------------
(* Charges and the calendar, when no answer of Square is lost *)

CalendarAndCharge == CalendarInv /\ ChargeInv

LEMMA CalendarStep ==
  ASSUME TypeOK, MoneyInv, CalendarInv, [Next]_vars
  PROVE  CalendarInv'
<1> USE DEF TypeOK, CalendarInv, Place
<1>0. \A r \in Requests : pc[r] = "new" => booking[r] = "none"
  BY DEF MoneyInv, BeforeBooking, Untouched
<1>1. ASSUME NEW r \in Requests,
             LockTimeSlot(r) \/ ReleaseLock(r) \/ CheckoutAssert(r)
      PROVE  CalendarInv'
  <2>1. /\ booking' = booking
        /\ \A q \in Requests : booking[q] = "accepted" =>
             slot'[q] = slot[q] /\ member'[q] = member[q]
    BY <1>0, <1>1 DEF LockTimeSlot, LockTimeSlotGet, LockTimeSlotSearch,
       LockTimeSlotSet, ReleaseLock, ReleaseLockAssert, ReleaseLockDel,
       CheckoutAssert
  <2> QED
    BY <2>1
<1>2. ASSUME NEW r \in Requests, Book(r) PROVE CalendarInv'
  BY <1>2 DEF Book, Taken
<1>3. ASSUME NEW r \in Requests,
             \/ CheckoutGet(r) \/ CheckoutPrice(r) \/ LeadFind(r) \/ LeadCreate(r)
             \/ Pay(r) \/ PaidRecord(r) \/ Mail(r) \/ Evict(r)
             \/ RollbackGet(r) \/ RollbackCancel(r) \/ FailRecord(r) \/ Crash(r)
      PROVE  CalendarInv'
  <2>1. /\ UNCHANGED <<slot, member>>
        /\ \A q \in Requests : booking'[q] \in {booking[q], "cancelled"}
    BY <1>3 DEF CheckoutGet, CheckoutPrice, LeadFind, LeadCreate, Pay,
       PaidRecord, Mail, Evict, RollbackGet, RollbackCancel, FailRecord, Crash
  <2> QED
    BY <2>1
<1>4. ASSUME NEW s \in Slots, Expire(s) PROVE CalendarInv'
  BY <1>4 DEF Expire, LockExpires
<1>5. CASE UNCHANGED vars
  BY <1>5 DEF vars
<1> QED
  BY <1>1, <1>2, <1>3, <1>4, <1>5 DEF Next, Handler

LEMMA ChargeStep ==
  ASSUME "lost" \notin Faults, TypeOK, MoneyInv, ChargeInv, [Next]_vars
  PROVE  ChargeInv'
<1> USE DEF TypeOK, ChargeInv, ChargedHasBooking
<1>0. \A r \in Requests :
        /\ pc[r] = "book" => charge[r] = "none"
        /\ pc[r] = "pay" => booking[r] = "accepted" /\ charge[r] = "none"
  BY DEF MoneyInv, BeforeBooking, Untouched
<1>1. ASSUME NEW r \in Requests, Book(r) PROVE ChargeInv'
  BY <1>0, <1>1 DEF Book
<1>2. ASSUME NEW r \in Requests, Pay(r) PROVE ChargeInv'
  <2>1. PICK outcome \in {"ok", "refused"} :
          /\ charge' = IF outcome = "refused" THEN charge
                       ELSE [charge EXCEPT ![r] = "captured"]
          /\ pc' = [pc EXCEPT ![r] = IF outcome = "ok" THEN "paid_record"
                                                       ELSE "rollback_get"]
    BY <1>2 DEF Pay, Outcomes
  <2>2. pc[r] = "pay" /\ booking' = booking
    BY <1>2 DEF Pay
  <2> QED
    BY <1>0, <2>1, <2>2
<1>3. ASSUME NEW r \in Requests, RollbackCancel(r) PROVE ChargeInv'
  BY <1>3 DEF RollbackCancel
<1>4. ASSUME NEW r \in Requests,
             \/ LockTimeSlot(r) \/ ReleaseLock(r) \/ CheckoutAssert(r)
             \/ CheckoutGet(r) \/ CheckoutPrice(r) \/ LeadFind(r) \/ LeadCreate(r)
             \/ PaidRecord(r) \/ Mail(r) \/ Evict(r)
             \/ RollbackGet(r) \/ FailRecord(r) \/ Crash(r)
      PROVE  ChargeInv'
  <2>1. /\ UNCHANGED <<booking, charge>>
        /\ \A q \in Requests :
             pc'[q] \in {"rollback_get", "rollback_cancel"}
               => pc[q] \in {"rollback_get", "rollback_cancel"}
    BY <1>4 DEF LockTimeSlot, LockTimeSlotGet, LockTimeSlotSearch,
       LockTimeSlotSet, ReleaseLock, ReleaseLockAssert, ReleaseLockDel,
       CheckoutAssert, CheckoutGet, CheckoutPrice, LeadFind, LeadCreate,
       PaidRecord, Mail, Evict, RollbackGet, FailRecord, Crash
  <2> QED
    BY <2>1
<1>5. ASSUME NEW s \in Slots, Expire(s) PROVE ChargeInv'
  BY <1>5 DEF Expire, LockExpires
<1>6. CASE UNCHANGED vars
  BY <1>6 DEF vars
<1> QED
  BY <1>1, <1>2, <1>3, <1>4, <1>5, <1>6 DEF Next, Handler

LEMMA CalendarAndChargeCorrect ==
  ASSUME "lost" \notin Faults
  PROVE  Spec => []CalendarAndCharge
<1>1. Init => CalendarAndCharge
  BY DEF Init, LockInit, CalendarAndCharge, CalendarInv, ChargeInv,
         ChargedHasBooking
<1>2. TypeOK /\ MoneyInv /\ CalendarAndCharge /\ [Next]_vars => CalendarAndCharge'
  BY CalendarStep, ChargeStep DEF CalendarAndCharge
<1> QED
  BY <1>1, <1>2, TypeCorrect, MoneyCorrect, PTL DEF Spec

\* Nobody has paid for an appointment that does not exist.
THEOREM ChargesHaveBookings ==
  ASSUME "lost" \notin Faults
  PROVE  Spec => []ChargedHasBooking
<1>1. CalendarAndCharge => ChargedHasBooking
  BY DEF CalendarAndCharge, ChargeInv
<1> QED
  BY <1>1, CalendarAndChargeCorrect, PTL

-----------------------------------------------------------------------------
(* The checkout implements the ledger *)

Calendar == Slots \X Members

Reserved == [p \in Calendar |->
               {r \in Requests : Place(r) = p /\ booking[r] = "accepted"}]

Sold == [p \in Calendar |->
           {r \in Requests : Place(r) = p /\ charge[r] = "captured"}]

LEMMA LedgerStutter ==
  ASSUME UNCHANGED <<booking, charge>>,
         \A q \in Requests :
           booking[q] = "accepted" \/ charge[q] = "captured"
           \/ booking'[q] = "accepted" \/ charge'[q] = "captured"
             => Place(q)' = Place(q)
  PROVE  UNCHANGED <<Reserved, Sold>>
<1>1. \A p \in Calendar :
        {r \in Requests : Place(r)' = p /\ booking'[r] = "accepted"}
          = {r \in Requests : Place(r) = p /\ booking[r] = "accepted"}
  OBVIOUS
<1>2. \A p \in Calendar :
        {r \in Requests : Place(r)' = p /\ charge'[r] = "captured"}
          = {r \in Requests : Place(r) = p /\ charge[r] = "captured"}
  OBVIOUS
<1> QED
  BY <1>1, <1>2 DEF Reserved, Sold

\* Changing the booking or the charge of one request changes the ledger at
\* its place only.
LEMMA LedgerAt ==
  ASSUME NEW r \in Requests, UNCHANGED <<slot, member>>, Place(r) \in Calendar,
         \A q \in Requests \ {r} : booking'[q] = booking[q] /\ charge'[q] = charge[q]
  PROVE  /\ Reserved' = [Reserved EXCEPT ![Place(r)] = Reserved'[Place(r)]]
         /\ Sold' = [Sold EXCEPT ![Place(r)] = Sold'[Place(r)]]
<1>0. \A q \in Requests : Place(q)' = Place(q)
  BY DEF Place
<1>1. \A p \in Calendar \ {Place(r)} :
        {q \in Requests : Place(q)' = p /\ booking'[q] = "accepted"}
          = {q \in Requests : Place(q) = p /\ booking[q] = "accepted"}
  BY <1>0
<1>2. \A p \in Calendar \ {Place(r)} :
        {q \in Requests : Place(q)' = p /\ charge'[q] = "captured"}
          = {q \in Requests : Place(q) = p /\ charge[q] = "captured"}
  BY <1>0
<1>3. \A p \in Calendar \ {Place(r)} : Reserved'[p] = Reserved[p] /\ Sold'[p] = Sold[p]
  BY <1>1, <1>2 DEF Reserved, Sold
<1>4. /\ Reserved = [p \in Calendar |-> Reserved[p]]
      /\ Reserved' = [p \in Calendar |-> Reserved'[p]]
  BY DEF Reserved
<1>5. Sold = [p \in Calendar |-> Sold[p]] /\ Sold' = [p \in Calendar |-> Sold'[p]]
  BY DEF Sold
<1> QED
  BY <1>3, <1>4, <1>5

\* A handler that has begun knows its slot, a checkout also its team member.
PlaceKnown ==
  \A r \in Requests :
    /\ pc[r] # "new" => slot[r] \in Slots
    /\ pc[r] \in Checkouts => member[r] \in Members

LEMMA PlaceKnownStep == TypeOK /\ PlaceKnown /\ [Next]_vars => PlaceKnown'
<1> SUFFICES ASSUME TypeOK, PlaceKnown, [Next]_vars PROVE PlaceKnown'
  OBVIOUS
<1> USE DEF TypeOK, PlaceKnown
<1>1. ASSUME NEW r \in Requests, LockTimeSlot(r) \/ ReleaseLock(r)
      PROVE  PlaceKnown'
  BY <1>1 DEF LockTimeSlot, LockTimeSlotGet, LockTimeSlotSearch, LockTimeSlotSet,
              ReleaseLock, ReleaseLockAssert, ReleaseLockDel, Checkouts
<1>2. ASSUME NEW r \in Requests, CheckoutAssert(r) PROVE PlaceKnown'
  BY <1>2 DEF CheckoutAssert, Checkouts
<1>3. ASSUME NEW r \in Requests,
             \/ CheckoutGet(r) \/ CheckoutPrice(r) \/ LeadFind(r) \/ LeadCreate(r)
             \/ Book(r) \/ Pay(r) \/ PaidRecord(r) \/ Mail(r) \/ Evict(r)
             \/ RollbackGet(r) \/ RollbackCancel(r) \/ FailRecord(r) \/ Crash(r)
      PROVE  PlaceKnown'
  <2>1. /\ pc[r] # "new"
        /\ pc'[r] \in Checkouts => pc[r] \in Checkouts
        /\ UNCHANGED <<slot, member>>
        /\ \A q \in Requests \ {r} : pc'[q] = pc[q]
    BY <1>3 DEF CheckoutGet, CheckoutPrice, LeadFind, LeadCreate, Book, Pay,
                PaidRecord, Mail, Evict, RollbackGet, RollbackCancel, FailRecord,
                Crash, Done, Checkouts
  <2> QED
    BY <2>1
<1>4. ASSUME NEW s \in Slots, Expire(s) PROVE PlaceKnown'
  BY <1>4 DEF Expire, LockExpires
<1>5. CASE UNCHANGED vars
  BY <1>5 DEF vars
<1> QED
  BY <1>1, <1>2, <1>3, <1>4, <1>5 DEF Next, Handler

LEMMA PlaceIsKnown == Spec => []PlaceKnown
<1>1. Init => PlaceKnown
  BY DEF Init, LockInit, PlaceKnown, Checkouts
<1> QED
  BY <1>1, TypeCorrect, PlaceKnownStep, PTL DEF Spec

LEMMA LedgerStep ==
  ASSUME "lost" \notin Faults, TypeOK, PlaceKnown, MoneyInv, CalendarAndCharge,
         [Next]_vars
  PROVE  [Ledger!Next]_<<Reserved, Sold>>
<1> USE DEF TypeOK
<1>0. \A r \in Requests :
        /\ pc[r] \in BeforeBooking => booking[r] = "none" /\ charge[r] = "none"
        /\ pc[r] = "pay" => booking[r] = "accepted" /\ charge[r] = "none"
        /\ pc[r] \in {"rollback_get", "rollback_cancel"} =>
             booking[r] = "accepted" /\ charge[r] = "none"
        /\ charge[r] = "captured" => booking[r] = "accepted"
  BY DEF MoneyInv, Untouched, CalendarAndCharge, ChargeInv, ChargedHasBooking
<1>1. \A r \in Requests : booking[r] = "accepted" /\ Place(r) \in Calendar =>
        Reserved[Place(r)] = {r}
  BY DEF Reserved, CalendarAndCharge, CalendarInv
<1>2. \A r \in Requests :
        booking[r] = "accepted" /\ charge[r] = "none" /\ Place(r) \in Calendar =>
          Sold[Place(r)] = {}
  BY <1>0 DEF Sold, CalendarAndCharge, CalendarInv
<1>a. /\ \A r \in Requests : pc[r] \in Checkouts => Place(r) \in Calendar
      /\ \A r \in Requests :
            slot'[r] = slot[r] /\ member'[r] = member[r] => Place(r)' = Place(r)
  BY DEF PlaceKnown, Checkouts, Place, Calendar
<1>3. ASSUME NEW r \in Requests,
             \/ LockTimeSlot(r) \/ ReleaseLock(r) \/ CheckoutAssert(r)
      PROVE  UNCHANGED <<Reserved, Sold>>
  <2>1. /\ UNCHANGED <<booking, charge>>
        /\ pc[r] \in BeforeBooking
        /\ \A q \in Requests \ {r} : slot'[q] = slot[q] /\ member'[q] = member[q]
    BY <1>3 DEF LockTimeSlot, LockTimeSlotGet, LockTimeSlotSearch,
       LockTimeSlotSet, ReleaseLock, ReleaseLockAssert, ReleaseLockDel,
       CheckoutAssert, BeforeBooking
  <2> QED
    BY <1>0, <1>a, <2>1, LedgerStutter
<1>4. ASSUME NEW r \in Requests,
             \/ CheckoutGet(r) \/ CheckoutPrice(r) \/ LeadFind(r) \/ LeadCreate(r)
             \/ PaidRecord(r) \/ Mail(r) \/ Evict(r)
             \/ RollbackGet(r) \/ FailRecord(r) \/ Crash(r)
      PROVE  UNCHANGED <<Reserved, Sold>>
  <2>1. UNCHANGED <<booking, charge, slot, member>>
    BY <1>4 DEF CheckoutGet, CheckoutPrice, LeadFind, LeadCreate, PaidRecord,
       Mail, Evict, RollbackGet, FailRecord, Crash
  <2> QED
    BY <1>a, <2>1, LedgerStutter
<1>5. ASSUME NEW r \in Requests, Book(r)
      PROVE  [Ledger!Reserve(Place(r), r)]_<<Reserved, Sold>>
  <2>1. /\ pc[r] = "book" /\ UNCHANGED <<slot, member, charge>>
        /\ \/ booking' = booking
           \/ ~Taken(slot[r], member[r]) /\ booking' = [booking EXCEPT ![r] = "accepted"]
    <3>1. PICK outcome \in Outcomes :
            /\ outcome # "refused" => ~Taken(slot[r], member[r])
            /\ booking' = IF outcome = "refused" THEN booking
                          ELSE [booking EXCEPT ![r] = "accepted"]
      BY <1>5 DEF Book
    <3>2. pc[r] = "book" /\ UNCHANGED <<slot, member, charge>>
      BY <1>5 DEF Book
    <3> QED
      BY <3>1, <3>2
  <2>2. CASE booking' = booking
    BY <1>a, <2>1, <2>2, LedgerStutter
  <2>3. CASE ~Taken(slot[r], member[r]) /\ booking' = [booking EXCEPT ![r] = "accepted"]
    <3>1. Place(r) \in Calendar /\ booking[r] = "none" /\ charge[r] = "none"
      BY <1>0, <1>a, <2>1 DEF Checkouts, BeforeBooking
    <3>2. Reserved[Place(r)] = {}
      BY <2>3, <3>1 DEF Taken, Reserved, Place
    <3>3. Reserved'[Place(r)] = {r}
      BY <2>1, <2>3, <3>1 DEF Taken, Reserved, Place
    <3>4. Sold' = Sold
      BY <1>a, <2>1 DEF Sold
    <3>5. Reserved' = [Reserved EXCEPT ![Place(r)] = {r}]
      BY <2>1, <2>3, <3>1, <3>3, LedgerAt
    <3> QED
      BY <3>2, <3>4, <3>5 DEF Ledger!Reserve, Reserved, Sold, Calendar
  <2> QED
    BY <2>1, <2>2, <2>3
<1>6. ASSUME NEW r \in Requests, Pay(r)
      PROVE  [Ledger!Sell(Place(r), r)]_<<Reserved, Sold>>
  <2>1. /\ pc[r] = "pay" /\ UNCHANGED <<slot, member, booking>>
        /\ charge' = charge \/ charge' = [charge EXCEPT ![r] = "captured"]
    BY <1>6 DEF Pay
  <2>2. CASE charge' = charge
    BY <1>a, <2>1, <2>2, LedgerStutter
  <2>3. CASE charge' = [charge EXCEPT ![r] = "captured"]
    <3>1. Place(r) \in Calendar /\ booking[r] = "accepted" /\ charge[r] = "none"
      BY <1>0, <1>a, <2>1 DEF Checkouts
    <3>2. Reserved[Place(r)] = {r} /\ Sold[Place(r)] = {}
      BY <1>1, <1>2, <3>1
    <3>3. Sold'[Place(r)] = {r}
      <4>1. Sold'[Place(r)] = {q \in Requests : Place(q) = Place(r) /\ charge'[q] = "captured"}
        BY <1>a, <2>1, <3>1 DEF Sold
      <4>2. \A q \in Requests : Place(q) = Place(r) => charge[q] # "captured"
        BY <3>1, <3>2 DEF Sold
      <4> QED
        BY <2>3, <4>1, <4>2
    <3>4. Reserved' = Reserved
      BY <1>a, <2>1 DEF Reserved
    <3>5. Sold' = [Sold EXCEPT ![Place(r)] = {r}]
      BY <2>1, <2>3, <3>1, <3>3, LedgerAt
    <3> QED
      BY <3>2, <3>4, <3>5 DEF Ledger!Sell, Reserved, Sold, Calendar
  <2> QED
    BY <2>1, <2>2, <2>3
<1>7. ASSUME NEW r \in Requests, RollbackCancel(r)
      PROVE  [Ledger!Withdraw(Place(r), r)]_<<Reserved, Sold>>
  <2>1. /\ pc[r] = "rollback_cancel" /\ UNCHANGED <<slot, member, charge>>
        /\ booking' = booking \/ booking' = [booking EXCEPT ![r] = "cancelled"]
    BY <1>7 DEF RollbackCancel
  <2>2. CASE booking' = booking
    BY <1>a, <2>1, <2>2, LedgerStutter
  <2>3. CASE booking' = [booking EXCEPT ![r] = "cancelled"]
    <3>1. Place(r) \in Calendar /\ booking[r] = "accepted" /\ charge[r] = "none"
      BY <1>0, <1>a, <2>1 DEF Checkouts
    <3>2. Reserved[Place(r)] = {r} /\ Sold[Place(r)] = {}
      BY <1>1, <1>2, <3>1
    <3>3. Reserved'[Place(r)] = {}
      <4>1. Reserved'[Place(r)] = {q \in Requests : Place(q) = Place(r) /\ booking'[q] = "accepted"}
        BY <1>a, <2>1, <3>1 DEF Reserved
      <4>2. \A q \in Requests \ {r} : Place(q) = Place(r) => booking[q] # "accepted"
        BY <3>1, <3>2 DEF Reserved
      <4> QED
        BY <2>3, <4>1, <4>2
    <3>4. Sold' = Sold
      BY <1>a, <2>1 DEF Sold
    <3>5. Reserved' = [Reserved EXCEPT ![Place(r)] = {}]
      BY <2>1, <2>3, <3>1, <3>3, LedgerAt
    <3> QED
      BY <3>2, <3>4, <3>5 DEF Ledger!Withdraw, Reserved, Sold, Calendar
  <2> QED
    BY <2>1, <2>2, <2>3
<1>8. ASSUME NEW s \in Slots, Expire(s) PROVE UNCHANGED <<Reserved, Sold>>
  BY <1>a, <1>8, LedgerStutter DEF Expire, LockExpires
<1>9. CASE UNCHANGED vars
  BY <1>a, <1>9, LedgerStutter DEF vars
<1>10. \A r \in Requests :
         pc[r] \in {"book", "pay", "rollback_cancel"} => Place(r) \in Calendar
  BY <1>a DEF Checkouts
<1>11. ASSUME NEW r \in Requests, Book(r) \/ Pay(r) \/ RollbackCancel(r)
       PROVE  [Ledger!Next]_<<Reserved, Sold>>
  <2>1. Place(r) \in Calendar
    BY <1>10, <1>11 DEF Book, Pay, RollbackCancel
  <2>2. \/ Ledger!Reserve(Place(r), r) \/ Ledger!Sell(Place(r), r)
        \/ Ledger!Withdraw(Place(r), r) \/ UNCHANGED <<Reserved, Sold>>
    BY <1>5, <1>6, <1>7, <1>11
  <2> QED
    BY <2>1, <2>2 DEF Ledger!Next, Ledger!Reserve, Ledger!Sell, Ledger!Withdraw, Calendar
<1>12. CASE \E r \in Requests : Handler(r) \/ Crash(r)
  BY <1>3, <1>4, <1>11, <1>12 DEF Handler
<1>13. CASE \E s \in Slots : Expire(s)
  BY <1>8, <1>13
<1> QED
  BY <1>9, <1>12, <1>13 DEF Next

\* Nothing but reserving, selling and withdrawing ever happens to a place: the
\* checkout implements SlotLedger as long as no answer of Square is lost.
THEOREM CheckoutImplementsLedger ==
  ASSUME "lost" \notin Faults
  PROVE  Spec => ImplementsLedger
<1>1. Init => Ledger!Init
  BY DEF Init, LockInit, Ledger!Init
<1>2. /\ TypeOK /\ PlaceKnown /\ MoneyInv /\ CalendarAndCharge /\ [Next]_vars
      => [Ledger!Next]_Ledger!ledger
  BY LedgerStep DEF Reserved, Sold, Calendar, Ledger!ledger
<1> QED
  BY <1>1, <1>2, TypeCorrect, PlaceIsKnown, MoneyCorrect, CalendarAndChargeCorrect,
     PTL DEF Spec, ImplementsLedger, Ledger!Spec

-----------------------------------------------------------------------------
(* What a failed rollback may leave behind *)

\* From the first failure on, nothing is charged, and a live booking of r is
\* left only by a rollback that failed.
RollbackInv ==
  \A r \in Requests :
    pc[r] \in {"fail_record", "failed"} =>
      charge[r] = "none" /\ (booking[r] = "accepted" => r \in rollbackFailed)

\* A step that writes no booking or charge of a request, and lets only one
\* that has neither join the failed ones.
LEMMA RollbackFrame ==
  ASSUME RollbackInv, rollbackFailed \subseteq rollbackFailed',
         UNCHANGED <<booking, charge>>,
         \A q \in Requests :
           pc'[q] \in {"fail_record", "failed"} =>
             \/ pc[q] \in {"fail_record", "failed"}
             \/ booking[q] = "none" /\ charge[q] = "none"
  PROVE  RollbackInv'
BY DEF RollbackInv

LEMMA RollbackStep ==
  ASSUME "lost" \notin Faults, TypeOK, MoneyInv, ChargeInv, RollbackInv,
         [Next]_vars
  PROVE  RollbackInv'
<1>0. \A r \in Requests :
        pc[r] \in BeforeBooking => booking[r] = "none" /\ charge[r] = "none"
  BY DEF MoneyInv, Untouched
<1>1. ASSUME NEW r \in Requests,
             \/ LockTimeSlot(r) \/ ReleaseLock(r) \/ CheckoutAssert(r)
             \/ CheckoutGet(r) \/ CheckoutPrice(r) \/ LeadFind(r) \/ LeadCreate(r)
      PROVE  RollbackInv'
  <2>1. /\ UNCHANGED <<booking, charge, rollbackFailed>>
        /\ pc[r] \in BeforeBooking
    BY <1>1 DEF LockTimeSlot, LockTimeSlotGet, LockTimeSlotSearch,
       LockTimeSlotSet, ReleaseLock, ReleaseLockAssert, ReleaseLockDel,
       CheckoutAssert, CheckoutGet, CheckoutPrice, LeadFind, LeadCreate,
       BeforeBooking
  <2>2. \A q \in Requests \ {r} : pc'[q] = pc[q]
    BY <1>1 DEF LockTimeSlot, LockTimeSlotGet, LockTimeSlotSearch,
       LockTimeSlotSet, ReleaseLock, ReleaseLockAssert, ReleaseLockDel,
       CheckoutAssert, CheckoutGet, CheckoutPrice, LeadFind, LeadCreate, TypeOK
  <2> QED
    BY <1>0, <2>1, <2>2, RollbackFrame
<1>2. ASSUME NEW r \in Requests, Book(r) PROVE RollbackInv'
  <2>1. PICK outcome \in {"ok", "refused"} :
          /\ booking' = IF outcome = "refused" THEN booking
                        ELSE [booking EXCEPT ![r] = "accepted"]
          /\ pc' = [pc EXCEPT ![r] = IF outcome = "ok" THEN "pay" ELSE "fail_record"]
    BY <1>2 DEF Book, Outcomes
  <2>2. pc[r] \in BeforeBooking /\ UNCHANGED <<charge, rollbackFailed>>
    BY <1>2 DEF Book, BeforeBooking
  <2> QED
    BY <1>0, <2>1, <2>2 DEF RollbackInv, TypeOK
<1>3. ASSUME NEW r \in Requests, Pay(r) PROVE RollbackInv'
  BY <1>3 DEF Pay, RollbackInv, TypeOK
<1>4. ASSUME NEW r \in Requests, PaidRecord(r) PROVE RollbackInv'
  BY <1>4 DEF PaidRecord, RollbackInv, TypeOK
<1>5. ASSUME NEW r \in Requests, RollbackGet(r) \/ RollbackCancel(r)
      PROVE  RollbackInv'
  <2>1. charge[r] = "none" /\ charge' = charge
    BY <1>5 DEF ChargeInv, RollbackGet, RollbackCancel
  <2>2. rollbackFailed \subseteq rollbackFailed'
    BY <1>5 DEF RollbackGet, RollbackCancel, RolledBack
  <2>3. /\ \A q \in Requests \ {r} : pc'[q] = pc[q] /\ booking'[q] = booking[q]
        /\ pc'[r] \in {"rollback_cancel", "fail_record"}
        /\ pc'[r] = "fail_record" => booking'[r] # "accepted" \/ r \in rollbackFailed'
    BY <1>5 DEF RollbackGet, RollbackCancel, RollbackOutcomes, RolledBack, TypeOK
  <2> QED
    BY <2>1, <2>2, <2>3 DEF RollbackInv
<1>6. ASSUME NEW r \in Requests, FailRecord(r) PROVE RollbackInv'
  BY <1>6 DEF FailRecord, RollbackInv, TypeOK
<1>7. ASSUME NEW r \in Requests, Mail(r) \/ Evict(r) \/ Crash(r)
      PROVE  RollbackInv'
  BY <1>7, RollbackFrame DEF Mail, Evict, Crash, TypeOK
<1>8. ASSUME NEW s \in Slots, Expire(s) PROVE RollbackInv'
  BY <1>8, RollbackFrame DEF Expire, LockExpires
<1>9. CASE UNCHANGED vars
  BY <1>9, RollbackFrame DEF vars
<1> QED
  BY <1>1, <1>2, <1>3, <1>4, <1>5, <1>6, <1>7, <1>8, <1>9 DEF Next, Handler

\* A failed checkout leaves no charge, and a live booking only where its own
\* rollback failed.
THEOREM FailuresLeaveNothing ==
  ASSUME "lost" \notin Faults
  PROVE  Spec => []FailedLeavesNothing
<1>1. Init => RollbackInv
  BY DEF Init, LockInit, RollbackInv
<1>2. CalendarAndCharge => ChargeInv
  BY DEF CalendarAndCharge
<1>3. /\ TypeOK /\ MoneyInv /\ ChargeInv /\ RollbackInv /\ [Next]_vars
      => RollbackInv'
  BY RollbackStep
<1>4. RollbackInv => FailedLeavesNothing
  BY DEF RollbackInv, FailedLeavesNothing
<1> QED
  BY <1>1, <1>2, <1>3, <1>4, TypeCorrect, MoneyCorrect, CalendarAndChargeCorrect,
     PTL DEF Spec

-----------------------------------------------------------------------------
(* How a paid checkout may lose its row *)

BeforeLead ==
  {"new", "lock_search", "lock_set", "locked", "release_del", "released",
   "refused", "checkout_get", "checkout_price", "lead_find", "lead_create"}

Recorded == {"mail", "evict", "confirmed"}

AfterLead == {"book", "pay", "paid_record"} \cup Recorded

\* Another checkout has the lead of the same e-mail.
LeadTaken(r) ==
  \E q \in Requests \ {r} : customer[q] = customer[r] /\ leadId[q]

\* Every lead row is known to the checkout that wrote it; a checkout goes on
\* without a lead id only after a failed query or a lost insert; and with a
\* lead id it has its row unless a query failed.
LeadInv ==
  /\ \A c \in leadRows : \E q \in Requests : customer[q] = c /\ leadId[q]
  /\ \A r \in Requests :
       /\ pc[r] \in BeforeLead => ~leadId[r]
       /\ pc[r] \in AfterLead => leadId[r] \/ r \in dbFailed \/ LeadTaken(r)
       /\ pc[r] \in Recorded =>
            "PAID" \in paymentRows[r] \/ r \in dbFailed \/ ~leadId[r]

\* A step that neither enters a lead nor starts the recording of a payment.
LEMMA LeadFrame ==
  ASSUME LeadInv, dbFailed \subseteq dbFailed', UNCHANGED <<leadRows, leadId>>,
         \A q \in Requests :
           /\ paymentRows[q] \subseteq paymentRows'[q]
           /\ \/ customer'[q] = customer[q]
              \/ pc[q] = "new" /\ pc'[q] \notin AfterLead
           /\ pc'[q] \in BeforeLead => pc[q] \in BeforeLead
           /\ pc'[q] \in AfterLead => pc[q] \in AfterLead
           /\ pc'[q] \in Recorded => pc[q] \in Recorded
  PROVE  LeadInv'
<1>1. \A q \in Requests : leadId[q] => customer'[q] = customer[q]
  BY DEF LeadInv, BeforeLead
<1>2. \A r \in Requests : pc'[r] \in AfterLead => customer'[r] = customer[r]
  OBVIOUS
<1>3. \A r \in Requests : pc'[r] \in AfterLead /\ LeadTaken(r) => LeadTaken(r)'
  BY <1>1, <1>2 DEF LeadTaken
<1>4. \A c \in leadRows' : \E q \in Requests : customer'[q] = c /\ leadId'[q]
  BY <1>1 DEF LeadInv
<1>5. ASSUME NEW r \in Requests
      PROVE  /\ pc'[r] \in BeforeLead => ~leadId'[r]
             /\ pc'[r] \in AfterLead => leadId'[r] \/ r \in dbFailed' \/ LeadTaken(r)'
             /\ pc'[r] \in Recorded =>
                  "PAID" \in paymentRows'[r] \/ r \in dbFailed' \/ ~leadId'[r]
  BY <1>3 DEF LeadInv
<1> QED
  BY <1>4, <1>5 DEF LeadInv

LEMMA LeadStep == TypeOK /\ LeadInv /\ [Next]_vars => LeadInv'
<1> SUFFICES ASSUME TypeOK, LeadInv, [Next]_vars PROVE LeadInv'
  OBVIOUS
<1> USE DEF BeforeLead, AfterLead, Recorded
<1>1. ASSUME NEW r \in Requests, LockTimeSlot(r) \/ ReleaseLock(r)
      PROVE  LeadInv'
  BY <1>1, LeadFrame DEF LockTimeSlot, LockTimeSlotGet, LockTimeSlotSearch,
     LockTimeSlotSet, ReleaseLock, ReleaseLockAssert, ReleaseLockDel, TypeOK
<1>2. ASSUME NEW r \in Requests,
             CheckoutAssert(r) \/ CheckoutGet(r) \/ CheckoutPrice(r)
      PROVE  LeadInv'
  BY <1>2, LeadFrame DEF CheckoutAssert, CheckoutGet, CheckoutPrice, TypeOK
<1>3. ASSUME NEW r \in Requests, LeadFind(r) PROVE LeadInv'
  <2>1. PICK answered \in DbOutcomes :
          /\ leadId' = [leadId EXCEPT ![r] = answered /\ customer[r] \in leadRows]
          /\ dbFailed' = IF answered THEN dbFailed ELSE dbFailed \cup {r}
          /\ pc' = [pc EXCEPT ![r] = IF answered /\ customer[r] \notin leadRows
                                     THEN "lead_create" ELSE "book"]
    BY <1>3, Zenon DEF LeadFind, Queried, Goto
  <2>2. /\ pc[r] = "lead_find" /\ ~leadId[r]
        /\ UNCHANGED <<customer, leadRows, paymentRows>>
    BY <1>3 DEF LeadFind, LeadInv
  <2>3. \A q \in Requests : leadId[q] => leadId'[q]
    BY <2>1, <2>2 DEF TypeOK
  <2>4. \A q \in Requests : LeadTaken(q) => LeadTaken(q)'
    BY <2>2, <2>3 DEF LeadTaken
  <2>5. \A c \in leadRows' : \E q \in Requests : customer'[q] = c /\ leadId'[q]
    BY <2>2, <2>3 DEF LeadInv
  <2>6. ASSUME NEW q \in Requests \ {r}
        PROVE  pc'[q] = pc[q] /\ leadId'[q] = leadId[q] /\ paymentRows'[q] = paymentRows[q]
    BY <2>1, <2>2 DEF TypeOK
  <2>7. /\ pc'[r] \in {"lead_create", "book"}
        /\ pc'[r] = "lead_create" => ~leadId'[r]
        /\ pc'[r] = "book" => leadId'[r] \/ r \in dbFailed'
    BY <2>1, <2>2 DEF TypeOK
  <2>8. dbFailed \subseteq dbFailed'
    BY <2>1
  <2> QED
    BY <2>4, <2>5, <2>6, <2>7, <2>8 DEF LeadInv
<1>4. ASSUME NEW r \in Requests, LeadCreate(r) PROVE LeadInv'
  <2>1. PICK answered \in DbOutcomes :
          /\ leadId' = [leadId EXCEPT ![r] = answered /\ customer[r] \notin leadRows]
          /\ leadRows' = IF answered /\ customer[r] \notin leadRows
                         THEN leadRows \cup {customer[r]} ELSE leadRows
          /\ dbFailed' = IF answered THEN dbFailed ELSE dbFailed \cup {r}
    BY <1>4, Zenon DEF LeadCreate, Queried
  <2>2. /\ pc[r] = "lead_create" /\ ~leadId[r]
        /\ pc' = [pc EXCEPT ![r] = "book"]
        /\ UNCHANGED <<customer, paymentRows>>
    BY <1>4 DEF LeadCreate, LeadInv
  <2>3. \A q \in Requests : leadId[q] => leadId'[q]
    BY <2>1, <2>2 DEF TypeOK
  <2>4. \A q \in Requests : LeadTaken(q) => LeadTaken(q)'
    BY <2>2, <2>3 DEF LeadTaken
  <2>5. \A c \in leadRows' : \E q \in Requests : customer'[q] = c /\ leadId'[q]
    <3>1. CASE leadRows' = leadRows
      BY <2>2, <2>3, <3>1 DEF LeadInv
    <3>2. CASE leadRows' # leadRows
      <4>1. leadRows' = leadRows \cup {customer[r]} /\ leadId'[r]
        BY <2>1, <3>2 DEF TypeOK
      <4> QED
        BY <2>2, <2>3, <4>1 DEF LeadInv
    <3> QED
      BY <3>1, <3>2
  <2>6. ASSUME NEW q \in Requests \ {r}
        PROVE  pc'[q] = pc[q] /\ leadId'[q] = leadId[q] /\ paymentRows'[q] = paymentRows[q]
    BY <2>1, <2>2 DEF TypeOK
  <2>7. pc'[r] = "book"
    BY <2>2 DEF TypeOK
  <2>8. leadId'[r] \/ r \in dbFailed' \/ LeadTaken(r)
    <3>1. CASE customer[r] \in leadRows
      BY <2>2, <3>1 DEF LeadInv, LeadTaken
    <3>2. CASE customer[r] \notin leadRows
      BY <2>1, <3>2 DEF TypeOK
    <3> QED
      BY <3>1, <3>2
  <2>9. dbFailed \subseteq dbFailed'
    BY <2>1
  <2> QED
    BY <2>4, <2>5, <2>6, <2>7, <2>8, <2>9 DEF LeadInv
<1>5. ASSUME NEW r \in Requests, PaidRecord(r) PROVE LeadInv'
  <2>1. /\ pc[r] = "paid_record" /\ pc' = [pc EXCEPT ![r] = "mail"]
        /\ UNCHANGED <<customer, leadId, leadRows>>
    BY <1>5 DEF PaidRecord
  <2>2. /\ \A q \in Requests \ {r} : paymentRows'[q] = paymentRows[q]
        /\ "PAID" \in paymentRows'[r] \/ r \in dbFailed' \/ ~leadId[r]
        /\ dbFailed \subseteq dbFailed'
    BY <1>5 DEF PaidRecord, CreatePaymentRecord, Queried, TypeOK
  <2>3. \A q \in Requests : LeadTaken(q)' = LeadTaken(q)
    BY <2>1 DEF LeadTaken
  <2>4. ASSUME NEW q \in Requests \ {r} PROVE pc'[q] = pc[q]
    BY <2>1 DEF TypeOK
  <2>5. pc'[r] = "mail"
    BY <2>1 DEF TypeOK
  <2> QED
    BY <2>1, <2>2, <2>3, <2>4, <2>5 DEF LeadInv
<1>6. ASSUME NEW r \in Requests,
             Book(r) \/ Pay(r) \/ Mail(r) \/ Evict(r) \/ Crash(r)
      PROVE  LeadInv'
  BY <1>6, LeadFrame DEF Book, Pay, Mail, Evict, Crash, TypeOK
<1>7. ASSUME NEW r \in Requests, RollbackGet(r) \/ RollbackCancel(r)
      PROVE  LeadInv'
  BY <1>7, LeadFrame DEF RollbackGet, RollbackCancel, TypeOK
<1>8. ASSUME NEW r \in Requests, FailRecord(r) PROVE LeadInv'
  <2>1. /\ pc[r] = "fail_record" /\ pc' = [pc EXCEPT ![r] = "failed"]
        /\ UNCHANGED <<customer, leadId, leadRows>>
    BY <1>8 DEF FailRecord
  <2>2. /\ \A q \in Requests : paymentRows[q] \subseteq paymentRows'[q]
        /\ dbFailed \subseteq dbFailed'
    BY <1>8 DEF FailRecord, CreatePaymentRecord, Queried, TypeOK
  <2> QED
    BY <2>1, <2>2, LeadFrame DEF TypeOK
<1>9. ASSUME NEW s \in Slots, Expire(s) PROVE LeadInv'
  BY <1>9, LeadFrame DEF Expire, LockExpires
<1>10. CASE UNCHANGED vars
  BY <1>10, LeadFrame DEF vars
<1> QED
  BY <1>1, <1>2, <1>3, <1>4, <1>5, <1>6, <1>7, <1>8, <1>9, <1>10 DEF Next, Handler

\* A confirmed checkout has its PAID row, unless a query of its own failed or
\* it lost the insert of the lead to another checkout of the same e-mail.
THEOREM ConfirmedAreRecorded == Spec => []ConfirmedIsRecorded
<1>1. Init => LeadInv
  BY DEF Init, LockInit, LeadInv, BeforeLead, AfterLead, Recorded
<1>2. LeadInv => ConfirmedIsRecorded
  BY DEF LeadInv, ConfirmedIsRecorded, LeadTaken, AfterLead, Recorded
<1> QED
  BY <1>1, <1>2, LeadStep, TypeCorrect, PTL DEF Spec

-----------------------------------------------------------------------------
(* A hold that was lost *)

NoHoldReturns ==
  \A t \in Granted :
    ~OwnsLock(slot[t], t) => ~(lock'[slot'[t]] # None /\ lock'[slot'[t]].token = t)

LEMMA NoHoldReturnsStep ==
  TypeOK /\ PlaceKnown /\ [Next]_vars => [NoHoldReturns]_vars
<1> SUFFICES ASSUME TypeOK, PlaceKnown, Next,
                    NEW t \in Requests, pc[t] = "locked", ~OwnsLock(slot[t], t)
             PROVE  ~(lock'[slot'[t]] # None /\ lock'[slot'[t]].token = t)
  BY DEF NoHoldReturns, Granted, vars
<1> USE DEF TypeOK, OwnsLock
<1>0. slot[t] \in Slots
  BY DEF PlaceKnown
<1>1. ASSUME NEW r \in Requests, LockTimeSlot(r)
      PROVE  ~(lock'[slot'[t]] # None /\ lock'[slot'[t]].token = t)
  <2>1. r # t
    BY <1>1 DEF LockTimeSlot, LockTimeSlotGet, LockTimeSlotSearch, LockTimeSlotSet
  <2>2. slot'[t] = slot[t]
    BY <1>1, <2>1 DEF LockTimeSlot, LockTimeSlotGet, LockTimeSlotSearch, LockTimeSlotSet
  <2>3. lock'[slot[t]] \in {lock[slot[t]], [token |-> r, px |-> TRUE]}
    BY <1>0, <1>1 DEF LockTimeSlot, LockTimeSlotGet, LockTimeSlotSearch,
       LockTimeSlotSet
  <2> QED
    BY <2>1, <2>2, <2>3
<1>2. ASSUME NEW r \in Requests,
             \/ ReleaseLock(r) \/ CheckoutAssert(r) \/ CheckoutGet(r)
             \/ CheckoutPrice(r) \/ LeadFind(r) \/ LeadCreate(r)
             \/ Book(r) \/ Pay(r) \/ PaidRecord(r) \/ Mail(r) \/ Evict(r)
             \/ RollbackGet(r) \/ RollbackCancel(r) \/ FailRecord(r) \/ Crash(r)
      PROVE  ~(lock'[slot'[t]] # None /\ lock'[slot'[t]].token = t)
  <2>1. slot'[t] = slot[t]
    BY <1>2 DEF ReleaseLock, ReleaseLockAssert, ReleaseLockDel, CheckoutAssert,
       CheckoutGet, CheckoutPrice, LeadFind, LeadCreate, Book, Pay, PaidRecord,
       Mail, Evict, RollbackGet, RollbackCancel, FailRecord, Crash
  <2>2. lock'[slot[t]] \in {lock[slot[t]], None}
    BY <1>0, <1>2 DEF ReleaseLock, ReleaseLockAssert, ReleaseLockDel, CheckoutAssert,
       CheckoutGet, CheckoutPrice, LeadFind, LeadCreate, Book, Pay, PaidRecord,
       Mail, Evict, RollbackGet, RollbackCancel, FailRecord, Crash
  <2> QED
    BY <2>1, <2>2
<1>3. ASSUME NEW s \in Slots, Expire(s)
      PROVE  ~(lock'[slot'[t]] # None /\ lock'[slot'[t]].token = t)
  <2>1. slot'[t] = slot[t] /\ lock'[slot[t]] \in {lock[slot[t]], None}
    BY <1>0, <1>3 DEF Expire, LockExpires
  <2> QED
    BY <2>1
<1> QED
  BY <1>1, <1>2, <1>3 DEF Next, Handler

\* No later request passes assertLockOwnership with the token of a hold that
\* was overwritten, released, evicted or timed out.
THEOREM LostHoldsStayLost == Spec => LostHoldStaysLost
<1>1. Spec => [][NoHoldReturns]_vars
  BY TypeCorrect, PlaceIsKnown, NoHoldReturnsStep, PTL DEF Spec
<1>2. NoHoldReturns <=> \A t \in Granted : ~OwnsLock(slot[t], t) => ~OwnsLock(slot[t], t)'
  BY DEF NoHoldReturns, OwnsLock
<1> QED
  BY <1>1, <1>2, PTL DEF LostHoldStaysLost

-----------------------------------------------------------------------------
(* Why a lock may disappear *)

LockRemovalCause ==
  \A s \in Slots :
    lock[s] # None /\ lock'[s] = None =>
      \/ Expire(s)
      \/ \E r \in Requests :
           /\ slot[r] = s
           /\ \/ pc[r] = "release_del"
              \/ pc[r] = "evict" /\ charge[r] = "captured"
           /\ slot[token[r]] = s

LEMMA LockRemovalStep ==
  ASSUME LockInv, MoneyInv, [Next]_vars
  PROVE  [LockRemovalCause]_vars
<1> SUFFICES ASSUME NEW s \in Slots, lock[s] # None, lock'[s] = None, Next
             PROVE  \/ Expire(s)
                    \/ \E r \in Requests :
                         /\ slot[r] = s
                         /\ \/ pc[r] = "release_del"
                            \/ pc[r] = "evict" /\ charge[r] = "captured"
                         /\ slot[token[r]] = s
  BY DEF LockRemovalCause, vars
<1> USE DEF LockInv, TypeOK
<1>1. ASSUME NEW x \in Slots, Expire(x) PROVE Expire(s)
  BY <1>1 DEF Expire, LockExpires
<1>2. ASSUME NEW r \in Requests, LockTimeSlot(r) PROVE FALSE
  <2>1. [token |-> r, px |-> TRUE] # None
    <3>1. [token |-> r, px |-> TRUE] \in LockValue
      BY DEF LockValue
    <3> QED
      BY <3>1, NoneAssumption
  <2>2. CASE LockTimeSlotSet(r)
    <3>1. lock'[s] \in {lock[s], [token |-> r, px |-> TRUE]}
      BY <2>2 DEF LockTimeSlotSet
    <3> QED
      BY <2>1, <3>1
  <2> QED
    BY <1>2, <2>2 DEF LockTimeSlot, LockTimeSlotGet, LockTimeSlotSearch
<1>3. ASSUME NEW r \in Requests, ReleaseLock(r)
      PROVE  slot[r] = s /\ pc[r] = "release_del" /\ slot[token[r]] = s
  <2>1. slot[r] = s /\ pc[r] = "release_del"
    BY <1>3 DEF ReleaseLock, ReleaseLockAssert, ReleaseLockDel
  <2> QED
    BY <2>1 DEF OwnershipVerified
<1>4. ASSUME NEW r \in Requests, Evict(r)
      PROVE  /\ slot[r] = s /\ pc[r] = "evict" /\ charge[r] = "captured"
             /\ slot[token[r]] = s
  <2>1. slot[r] = s /\ pc[r] = "evict"
    BY <1>4 DEF Evict
  <2> QED
    BY <2>1 DEF OwnershipVerified, Checkouts, MoneyInv, PaidFor
<1>5. ASSUME NEW r \in Requests,
             \/ CheckoutAssert(r) \/ CheckoutGet(r) \/ CheckoutPrice(r)
             \/ LeadFind(r) \/ LeadCreate(r) \/ Book(r) \/ Pay(r)
             \/ PaidRecord(r) \/ Mail(r)
             \/ RollbackGet(r) \/ RollbackCancel(r) \/ FailRecord(r) \/ Crash(r)
      PROVE  FALSE
  BY <1>5 DEF CheckoutAssert, CheckoutGet, CheckoutPrice, LeadFind, LeadCreate,
     Book, Pay, PaidRecord, Mail, RollbackGet, RollbackCancel, FailRecord, Crash
<1> QED
  BY <1>1, <1>2, <1>3, <1>4, <1>5 DEF Next, Handler

\* A hold is lost only to its time to live, to a release that showed a token
\* of that slot, or to a paid checkout that did.
THEOREM LocksAreRemovedWithCause == Spec => LockRemovedWithCause
<1>1. LockInv /\ MoneyInv /\ [Next]_vars => [LockRemovalCause]_vars
  BY LockRemovalStep
<1>2. Spec => [][LockRemovalCause]_vars
  BY <1>1, LockInvCorrect, MoneyCorrect, PTL DEF Spec
<1> QED
  BY <1>2 DEF LockRemovedWithCause, LockRemovalCause
=============================================================================
