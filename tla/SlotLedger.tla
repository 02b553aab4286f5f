----------------------------- MODULE SlotLedger -----------------------------
(***************************************************************************)
(* What the checkout promises about the calendar, without saying how: a    *)
(* place (a start time of a team member) is reserved for one buyer at a    *)
(* time and sold to the buyer who holds it.  A reservation may be          *)
(* withdrawn; a sale is final.                                             *)
(***************************************************************************)

CONSTANTS Places, Buyers

VARIABLES reserved,  \* reserved[p]: the buyers the calendar holds p for
          sold       \* sold[p]: the buyers who have paid for p

ledger == <<reserved, sold>>

Init ==
  /\ reserved = [p \in Places |-> {}]
  /\ sold = [p \in Places |-> {}]

Reserve(p, b) ==
  /\ reserved[p] = {}
  /\ reserved' = [reserved EXCEPT ![p] = {b}]
  /\ UNCHANGED sold

Sell(p, b) ==
  /\ reserved[p] = {b}
  /\ sold[p] = {}
  /\ sold' = [sold EXCEPT ![p] = {b}]
  /\ UNCHANGED reserved

Withdraw(p, b) ==
  /\ reserved[p] = {b}
  /\ sold[p] = {}
  /\ reserved' = [reserved EXCEPT ![p] = {}]
  /\ UNCHANGED sold

Next ==
  \E p \in Places, b \in Buyers : Reserve(p, b) \/ Sell(p, b) \/ Withdraw(p, b)

Spec == Init /\ [][Next]_ledger
=============================================================================
