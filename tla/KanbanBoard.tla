----------------------------- MODULE KanbanBoard -----------------------------
(***************************************************************************)
(* The cards of the lead board: leads enter a stage at its bottom (create), *)
(* enter with the column default as rank (the checkout's createLead and    *)
(* importLeads), are dragged between two neighbours (moveLead), are edited *)
(* to another stage (update), or are deleted (remove).  Sources:           *)
(* admin/lead/lead.service.ts, prisma/schema.prisma.                       *)
(*                                                                         *)
(* create is cut between its query for the last rank and its insert.       *)
(* update is one step: it writes the stage of the payload, whatever the    *)
(* one it read was, unless that was the same.                              *)
(* moveLead is one step: its two reads only guard against a missing lead   *)
(* or stage, and the ranks it works on come from the payload.  The payload *)
(* comes from a browser, which shows the board as it was when it loaded.   *)
(*                                                                         *)
(* A lead is a number, in the order of the ids that break ties of rank.    *)
(***************************************************************************)
EXTENDS LexoRank

CONSTANTS Leads,     \* leads that may exist
          Stages,    \* columns of the board
          NoCard,    \* a lead not entered yet; no neighbour; nothing read
          Deleted,   \* a lead that was removed
          MaxVal,    \* bound on the number in a rank
          MaxLen,    \* bound on the length of a rank
          MaxStale   \* bound on the cards a browser shows as they were

ASSUME LeadsAssumption == Leads \subseteq Nat /\ NoCard \notin Leads

\* Where the search stops.  padRank is modelled up to 2 * Pad + 1 digits.
ASSUME BoundAssumption ==
  MaxVal \in Nat /\ MaxLen \in Nat /\ MaxStale \in Nat /\ MaxLen =< 2 * Pad

VARIABLES board,     \* board[l]: stage and rank of lead l
          shown,     \* the board as the browser shows it
          reading    \* reading[l]: what create has read for l

vars == <<board, shown, reading>>

Card == [stage: Stages, rank: Rank]
ASSUME CardAssumption == NoCard \notin Card /\ Deleted \notin Card /\ NoCard # Deleted

\* Bounds: a rank outside them is not entered.
Representable(r) == r.len =< MaxLen /\ r.val =< MaxVal

On(b, s) == {l \in Leads : b[l] \notin {NoCard, Deleted} /\ b[l].stage = s}

\* ORDER BY rank, id.
Above(b, l, m) ==
  \/ Before(b[l].rank, b[m].rank)
  \/ b[l].rank = b[m].rank /\ l < m

\* findFirst ordered by rank and id descending: the rank of the card below
\* all others, or null in an empty stage.  A set of one element.
LastRank(b, s) ==
  IF On(b, s) = {} THEN {NoRank}
  ELSE {b[l].rank : l \in {x \in On(b, s) : \A m \in On(b, s) \ {x} : Above(b, m, x)}}

\* p and n enclose a place of column s once lead l is lifted out of it:
\* every card is p or above p, or is n or below n.
Adjacent(b, s, l, p, n) ==
  LET column == On(b, s) \ {l} IN
  /\ {p, n} \subseteq column \cup {NoCard}
  /\ p # NoCard /\ n # NoCard => Above(b, p, n)
  /\ \A m \in column :
       \/ p # NoCard /\ (m = p \/ Above(b, m, p))
       \/ n # NoCard /\ (m = n \/ Above(b, n, m))

\* The rank a payload gives for a neighbour, null where there is none.
ShownRank(l) == IF l = NoCard THEN NoRank ELSE shown[l].rank

Init ==
  /\ board = [l \in Leads |-> NoCard]
  /\ shown = [l \in Leads |-> NoCard]
  /\ reading = [l \in Leads |-> NoCard]

\* Bound: the other changes wait for the browser to load the board again.
ViewNotTooOld == Cardinality({l \in Leads : board'[l] # shown[l]}) =< MaxStale

Enter(l, s, r) ==
  /\ Representable(r)
  /\ board' = [board EXCEPT ![l] = [stage |-> s, rank |-> r]]
  /\ ViewNotTooOld

-----------------------------------------------------------------------------

\* create, up to its query for the last rank of the stage.
CreateRead(l) ==
  /\ board[l] = NoCard /\ reading[l] = NoCard
  /\ \E s \in Stages : \E r \in LastRank(board, s) :
       reading' = [reading EXCEPT ![l] = [stage |-> s, last |-> r]]
  /\ UNCHANGED <<board, shown>>

\* create's insert, with a rank computed from what was read.
CreateInsert(l) ==
  /\ reading[l] # NoCard
  /\ Enter(l, reading[l].stage, GetMidpointRank(reading[l].last, NoRank))
  /\ reading' = [reading EXCEPT ![l] = NoCard]
  /\ UNCHANGED shown

\* The inserts that give no rank: the column default applies.
InsertWithDefaultRank(l) ==
  /\ board[l] = NoCard /\ reading[l] = NoCard
  /\ \E s \in Stages : Enter(l, s, InitialRank)
  /\ UNCHANGED <<shown, reading>>

\* moveLead for a lead dropped between the cards p and n of column s.  A
\* lead that is gone, or ranks out of order, answer with an error.
MoveLead(l, s, p, n) ==
  /\ shown[l] \notin {NoCard, Deleted}
  /\ Adjacent(shown, s, l, p, n)
  /\ board[l] # Deleted
  /\ ~Throws(ShownRank(p), ShownRank(n))
  /\ Enter(l, s, GetMidpointRank(ShownRank(p), ShownRank(n)))
  /\ UNCHANGED <<shown, reading>>

\* update with another stage: the rank stays, whatever ranks that stage has.
ChangeStage(l, s) ==
  /\ board[l] \notin {NoCard, Deleted}
  /\ board[l].stage # s
  /\ board' = [board EXCEPT ![l].stage = s]
  /\ ViewNotTooOld
  /\ UNCHANGED <<shown, reading>>

Remove(l) ==
  /\ board[l] \notin {NoCard, Deleted}
  /\ board' = [board EXCEPT ![l] = Deleted]
  /\ ViewNotTooOld
  /\ UNCHANGED <<shown, reading>>

\* The browser loads the board again.
Refresh ==
  /\ shown' = board
  /\ UNCHANGED <<board, reading>>

Next ==
  \/ \E l \in Leads :
       \/ CreateRead(l) \/ CreateInsert(l) \/ InsertWithDefaultRank(l)
       \/ \E s \in Stages, p, n \in Leads \cup {NoCard} : MoveLead(l, s, p, n)
       \/ \E s \in Stages : ChangeStage(l, s)
       \/ Remove(l)
  \/ Refresh

Spec == Init /\ [][Next]_vars

-----------------------------------------------------------------------------
(* Properties *)

TypeOK ==
  /\ board \in [Leads -> Card \cup {NoCard, Deleted}]
  /\ shown \in [Leads -> Card \cup {NoCard, Deleted}]
  /\ reading \in [Leads -> [stage: Stages, last: Rank \cup {NoRank}] \cup {NoCard}]

IsPadded(r) == r = NoRank \/ (r.len = Pad /\ r.val < TenTo[Pad])

\* Pad digits hold the number a gap further on.
HasRoom(r) == r = NoRank \/ r.val + Gap < TenTo[Pad]

\* A card dropped on a view that shows the board as it is lands where it was
\* dropped: below p and everything above p, above n and everything below n.
\* The neighbours have ordinary ranks, or there is room below the last card
\* (moveLead, getMidpointRank, and the order in which findAll lists a stage).
FreshMoveLandsBetween ==
  [][\A l \in Leads, s \in Stages, p, n \in Leads \cup {NoCard} :
       /\ shown = board /\ MoveLead(l, s, p, n)
       /\ IF n = NoCard THEN HasRoom(ShownRank(p))
          ELSE IsPadded(ShownRank(p)) /\ IsPadded(ShownRank(n))
       => \A m \in On(board, s) \ {l} :
            \/ /\ p # NoCard /\ (m = p \/ Above(board, m, p))
               /\ Above(board', m, l)
            \/ /\ n # NoCard /\ (m = n \/ Above(board, n, m))
               /\ Above(board', l, m)]_vars

\* A created lead becomes the last card of its stage, whatever ranks its
\* predecessors have, as long as there is room below the last of them and
\* the bottom of the stage did not change between create's query and its
\* insert.
CreateLandsLast ==
  [][\A l \in Leads :
       /\ CreateInsert(l)
       /\ reading[l].last \in LastRank(board, reading[l].stage)
       /\ HasRoom(reading[l].last)
       => \A m \in On(board, reading[l].stage) : Above(board', m, l)]_vars

\* "A new rank string that sorts strictly between prevRank and nextRank":
\* what the documentation of getMidpointRank says of any two neighbours on
\* the board.  It fails once a rank of more than Pad digits is a neighbour,
\* or becomes one: a card appended without room.
MidpointStrictlyBetween ==
  [][\A l \in Leads, s \in Stages, p, n \in Leads \cup {NoCard} :
       MoveLead(l, s, p, n) =>
         /\ p # NoCard => Before(ShownRank(p), board'[l].rank)
         /\ n # NoCard => Before(board'[l].rank, ShownRank(n))]_vars
=============================================================================
