------------------------------ MODULE SlotLock ------------------------------
(***************************************************************************)
(* The virtual hold of an appointment slot: the Redis key                  *)
(* lock:<location>:<startAt> written by lockTimeSlot, read by              *)
(* assertLockOwnership and removed by releaseLock or by its time to live.  *)
(* Source: application/booking/squareup-booking.service.ts.                *)
(*                                                                         *)
(* A process is one HTTP request.  Its handler is cut at every await, so   *)
(* that the GET, the call to Square and the SET or DEL of one request      *)
(* interleave with those of the others.  The lock token of a request is    *)
(* the request itself: randomUUID() gives each successful lock request a   *)
(* token no other request has.                                             *)
(*                                                                         *)
(* Abstracted: a slot stands for a (location, startAt) pair; the cart id   *)
(* is left out because both branches on it refuse the request (lines       *)
(* 522-527); time is left out, so a key with a time to live may expire at  *)
(* any moment.                                                             *)
(***************************************************************************)

CONSTANTS Requests,      \* HTTP requests, each served once
          Slots,         \* bookable (location, startAt) pairs
          None           \* "no request", "no slot", "no lock"

VARIABLES pc,      \* pc[r]: the await the handler of r has reached
          slot,    \* slot[r]: the slot the payload of r names
          token,   \* token[r]: the lock token the payload of r carries
          lock     \* lock[s]: the Redis value under the key of s, or None

requestVars == <<pc, slot, token>>
lockVars == <<pc, slot, token, lock>>

\* Values stored under a lock key: whose token, and whether PX was given.
LockValue == [token: Requests, px: BOOLEAN]

ASSUME NoneAssumption == None \notin Requests \cup Slots \cup LockValue

\* The lock requests that were answered LOCKED: their tokens are known to a
\* browser and may come back in any later payload.
Granted == {r \in Requests : pc[r] = "locked"}

\* Fault: any lock under the key will do.
OwnsAnyLock(s, t) == lock[s] # None

\* assertLockOwnership: the key exists and holds this very token.
OwnsLock(s, t) == lock[s] # None /\ lock[s].token = t

LockInit ==
  /\ pc = [r \in Requests |-> "new"]
  /\ slot = [r \in Requests |-> None]
  /\ token = [r \in Requests |-> None]
  /\ lock = [s \in Slots |-> None]

Goto(r, label) == pc' = [pc EXCEPT ![r] = label]

-----------------------------------------------------------------------------
(* POST appointments/lock *)

\* First await of lockTimeSlot: any lock found under the key refuses the
\* request, whichever cart it belongs to.
LockTimeSlotGet(r) ==
  /\ pc[r] = "new"
  /\ \E s \in Slots :
       /\ slot' = [slot EXCEPT ![r] = s]
       /\ Goto(r, IF lock[s] = None THEN "lock_search" ELSE "refused")
  /\ UNCHANGED <<token, lock>>

\* Second await: Square's calendar still offers the start time, or it does
\* not (Conflict), or the call fails (BadRequest).
LockTimeSlotSearch(r, offered) ==
  /\ pc[r] = "lock_search"
  /\ Goto(r, IF offered THEN "lock_set" ELSE "refused")
  /\ UNCHANGED <<slot, token, lock>>

\* Fault: the SET gives the key no time to live.
LockTimeSlotSetForever(r) ==
  /\ pc[r] = "lock_set"
  /\ lock' = [lock EXCEPT ![slot[r]] = [token |-> r, px |-> FALSE]]
  /\ Goto(r, "locked")
  /\ UNCHANGED <<slot, token>>

\* Third await: a plain SET with PX, which replaces whatever is there.
LockTimeSlotSet(r) ==
  /\ pc[r] = "lock_set"
  /\ lock' = [lock EXCEPT ![slot[r]] = [token |-> r, px |-> TRUE]]
  /\ Goto(r, "locked")
  /\ UNCHANGED <<slot, token>>

-----------------------------------------------------------------------------
(* POST appointments/lock/release *)

\* releaseLock's assertLockOwnership.  The payload may pair a slot with a
\* token that was granted for another one.
ReleaseLockAssert(r) ==
  /\ pc[r] = "new"
  /\ \E s \in Slots, t \in Granted :
       /\ slot' = [slot EXCEPT ![r] = s]
       /\ token' = [token EXCEPT ![r] = t]
       /\ Goto(r, IF OwnsLock(s, t) THEN "release_del" ELSE "refused")
  /\ UNCHANGED lock

\* releaseLock's DEL removes the key whatever it holds by now.
ReleaseLockDel(r) ==
  /\ pc[r] = "release_del"
  /\ lock' = [lock EXCEPT ![slot[r]] = None]
  /\ Goto(r, "released")
  /\ UNCHANGED <<slot, token>>

-----------------------------------------------------------------------------
(* Redis *)

\* Ten minutes are over: Redis drops the key.
LockExpires(s) ==
  /\ lock[s] # None
  /\ lock[s].px
  /\ lock' = [lock EXCEPT ![s] = None]
  /\ UNCHANGED requestVars

-----------------------------------------------------------------------------

LockHandler(r) ==
  \/ LockTimeSlotGet(r)
  \/ \E offered \in BOOLEAN : LockTimeSlotSearch(r, offered)
  \/ LockTimeSlotSet(r)
  \/ ReleaseLockAssert(r)
  \/ ReleaseLockDel(r)

LockNext ==
  \/ \E r \in Requests : LockHandler(r)
  \/ \E s \in Slots : LockExpires(s)

\* Redis expires keys on its own; a request that was received is served to
\* its end because every await settles.
LockFairness ==
  /\ \A s \in Slots : WF_lockVars(LockExpires(s))
  /\ \A r \in Requests : WF_lockVars(pc[r] # "new" /\ LockHandler(r))

LockSpec == LockInit /\ [][LockNext]_lockVars /\ LockFairness
=============================================================================
