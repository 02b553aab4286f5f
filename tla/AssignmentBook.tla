--------------------------- MODULE AssignmentBook ---------------------------
(***************************************************************************)
(* What the assignment of a lead promises, without transactions, locks or  *)
(* a queue: an assignment takes effect at once, as the assignee and as the *)
(* last entry of the book, and not before its notice is on its way.  A     *)
(* notice may go out without an assignment; a lead that is gone stays so.  *)
(***************************************************************************)
EXTENDS Naturals

CONSTANTS Requests, Users, None

VARIABLES gone,       \* whether the lead was removed
          assignee,   \* the user who has the lead, or None
          entries,    \* the book: when, by which request and to whom
          noticed,    \* requests with a notice in the queue
          delivered   \* notices that were sent

book == <<gone, assignee, entries, noticed, delivered>>

Init ==
  /\ gone = FALSE
  /\ \/ assignee = None /\ entries = {}
     \/ assignee \in Users /\ entries = {[at |-> 1, by |-> None, to |-> assignee]}
  /\ noticed = {} /\ delivered = {}

Notify(r) ==
  /\ r \notin noticed
  /\ noticed' = noticed \cup {r}
  /\ UNCHANGED <<gone, assignee, entries, delivered>>

\* u is None if the lead is taken away from who has it.
Assign(r, u) ==
  /\ ~gone
  /\ r \in noticed
  /\ \E e \in entries' :
       /\ e.by = r /\ e.to = u
       /\ \A d \in entries : d.by # r /\ d.at < e.at
       /\ entries' = entries \cup {e}
  /\ assignee' = u
  /\ UNCHANGED <<gone, noticed, delivered>>

Deliver(r) ==
  /\ r \in noticed \ delivered
  /\ delivered' = delivered \cup {r}
  /\ UNCHANGED <<gone, assignee, entries, noticed>>

Remove ==
  /\ ~gone /\ gone' = TRUE
  /\ assignee' = None /\ entries' = {}
  /\ UNCHANGED <<noticed, delivered>>

Next ==
  \/ \E r \in Requests :
       Notify(r) \/ Deliver(r) \/ \E u \in Users \cup {None} : Assign(r, u)
  \/ Remove

Spec == Init /\ [][Next]_book
=============================================================================
