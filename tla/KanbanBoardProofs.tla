------------------------- MODULE KanbanBoardProofs -------------------------
(***************************************************************************)
(* What create and moveLead inherit from the ranks they compute, for every *)
(* number of leads and stages.                                             *)
(***************************************************************************)
EXTENDS KanbanBoard, LexoRankProofs

\* The cards of b carry good ranks.
Carded(b) ==
  \A l \in Leads :
    b[l] \notin {NoCard, Deleted} => b[l] \in Card /\ Good(b[l].rank)

\* The inductive invariant: beyond types, every rank on the board, on the
\* screen and in a running create is good, and a lead whose create has not
\* inserted it is neither on the board nor on the screen.
RankInv ==
  /\ TypeOK
  /\ Carded(board) /\ Carded(shown)
  /\ \A l \in Leads :
       /\ reading[l] # NoCard /\ reading[l].last # NoRank => Good(reading[l].last)
       /\ board[l] = NoCard => shown[l] = NoCard
       /\ reading[l] # NoCard => board[l] = NoCard

\* A card that an update puts into another stage keeps its rank.
LEMMA StageChanged ==
  ASSUME TypeOK, NEW l \in Leads, NEW s \in Stages, ChangeStage(l, s)
  PROVE  /\ board'[l] \in Card /\ board'[l].rank = board[l].rank
         /\ board' \in [Leads -> Card \cup {NoCard, Deleted}]
         /\ \A k \in Leads \ {l} : board'[k] = board[k]
<1> DEFINE new == [board[l] EXCEPT !.stage = s]
<1>1. board[l] \in Card
  BY DEF TypeOK, ChangeStage
<1>2. new \in Card /\ new.rank = board[l].rank
  BY <1>1 DEF Card
<1>3. board' = [board EXCEPT ![l] = new]
  BY DEF ChangeStage
<1> HIDE DEF new
<1> QED
  BY <1>2, <1>3 DEF TypeOK

LEMMA RanksStayGood == Spec => []RankInv
<1>1. Init => RankInv
  BY DEF Init, RankInv, Carded, TypeOK
<1>2. RankInv /\ [Next]_vars => RankInv'
  <2> SUFFICES ASSUME RankInv, [Next]_vars
               PROVE  RankInv'
    OBVIOUS
  <2> USE DEF RankInv, Carded
  <2>1. ASSUME NEW l \in Leads, NEW s \in Stages, NEW r,
               Enter(l, s, r), Good(r)
        PROVE  /\ Carded(board')
               /\ board' \in [Leads -> Card \cup {NoCard, Deleted}]
               /\ board'[l] # NoCard
               /\ \A k \in Leads \ {l} : board'[k] = board[k]
    <3>1. [stage |-> s, rank |-> r] \in Card
      BY <2>1 DEF Card, Good
    <3> QED
      BY <2>1, <3>1, CardAssumption DEF Enter, TypeOK
  <2>2. ASSUME NEW l \in Leads, CreateRead(l)
        PROVE  RankInv'
    <3>1. PICK s \in Stages : \E r \in LastRank(board, s) :
            reading' = [reading EXCEPT ![l] = [stage |-> s, last |-> r]]
      BY <2>2 DEF CreateRead
    <3>2. PICK r \in LastRank(board, s) :
            reading' = [reading EXCEPT ![l] = [stage |-> s, last |-> r]]
      BY <3>1
    <3>3. r # NoRank => Good(r)
      BY DEF LastRank, On
    <3>4. [stage |-> s, last |-> r] \in [stage: Stages, last: Rank \cup {NoRank}]
      BY <3>3 DEF Good
    <3>5. board' = board /\ shown' = shown
      BY <2>2 DEF CreateRead
    <3>6. \A k \in Leads : reading'[k] # NoCard /\ reading'[k].last # NoRank
            => Good(reading'[k].last)
      BY <3>2, <3>3 DEF TypeOK
    <3>7. board[l] = NoCard /\ \A k \in Leads \ {l} : reading'[k] = reading[k]
      BY <2>2, <3>2 DEF CreateRead, TypeOK
    <3>8. reading' \in [Leads -> [stage: Stages, last: Rank \cup {NoRank}] \cup {NoCard}]
      BY <3>2, <3>4 DEF TypeOK
    <3> QED
      BY <3>5, <3>6, <3>7, <3>8 DEF TypeOK
  <2>3. ASSUME NEW l \in Leads, CreateInsert(l)
        PROVE  RankInv'
    <3>1. /\ Enter(l, reading[l].stage, GetMidpointRank(reading[l].last, NoRank))
          /\ reading[l] # NoCard
          /\ reading' = [reading EXCEPT ![l] = NoCard] /\ shown' = shown
      BY <2>3 DEF CreateInsert
    <3>2. ~Throws(reading[l].last, NoRank)
      BY DEF Throws
    <3>3. reading[l].stage \in Stages /\ reading[l].last \in Rank \cup {NoRank}
      BY <3>1 DEF TypeOK
    <3>4. Good(GetMidpointRank(reading[l].last, NoRank))
      BY <3>1, <3>2, MidpointGood
    <3>5. /\ Carded(board')
          /\ board' \in [Leads -> Card \cup {NoCard, Deleted}]
          /\ board'[l] # NoCard
          /\ \A k \in Leads \ {l} : board'[k] = board[k]
      BY <2>1, <3>1, <3>3, <3>4
    <3> QED
      BY <3>1, <3>5 DEF TypeOK
  <2>4. ASSUME NEW l \in Leads, InsertWithDefaultRank(l)
        PROVE  RankInv'
    <3>1. PICK s \in Stages : Enter(l, s, InitialRank)
      BY <2>4 DEF InsertWithDefaultRank
    <3>2. Good(InitialRank)
      BY InitialAssumption, PadRankGood DEF InitialRank
    <3>3. /\ Carded(board')
          /\ board' \in [Leads -> Card \cup {NoCard, Deleted}]
          /\ board'[l] # NoCard
          /\ \A k \in Leads \ {l} : board'[k] = board[k]
      BY <2>1, <3>1, <3>2
    <3> QED
      BY <2>4, <3>3 DEF InsertWithDefaultRank, TypeOK
  <2>5. ASSUME NEW l \in Leads, NEW s \in Stages,
               NEW p \in Leads \cup {NoCard}, NEW n \in Leads \cup {NoCard},
               MoveLead(l, s, p, n)
        PROVE  RankInv'
    <3>1. /\ ShownRank(p) # NoRank => Good(ShownRank(p))
          /\ ShownRank(n) # NoRank => Good(ShownRank(n))
      BY <2>5 DEF MoveLead, Adjacent, On, ShownRank
    <3>2. Good(GetMidpointRank(ShownRank(p), ShownRank(n)))
      BY <2>5, <3>1, MidpointGood DEF MoveLead
    <3>3. /\ Carded(board')
          /\ board' \in [Leads -> Card \cup {NoCard, Deleted}]
          /\ board'[l] # NoCard
          /\ \A k \in Leads \ {l} : board'[k] = board[k]
      BY <2>1, <2>5, <3>2 DEF MoveLead
    <3> QED
      BY <2>5, <3>3 DEF MoveLead, TypeOK
  <2>6. ASSUME NEW l \in Leads, Remove(l)
        PROVE  RankInv'
    BY <2>6, CardAssumption DEF Remove, TypeOK
  <2>7. CASE Refresh
    BY <2>7 DEF Refresh, TypeOK
  <2>8. CASE UNCHANGED vars
    BY <2>8 DEF vars, TypeOK
  <2>9. ASSUME NEW l \in Leads, NEW s \in Stages, ChangeStage(l, s)
        PROVE  RankInv'
    <3>1. /\ board'[l] \in Card /\ board'[l].rank = board[l].rank
          /\ board' \in [Leads -> Card \cup {NoCard, Deleted}]
          /\ \A k \in Leads \ {l} : board'[k] = board[k]
      BY <2>9, StageChanged
    <3> QED
      BY <2>9, <3>1, CardAssumption DEF ChangeStage, TypeOK
  <2> QED
    BY <2>2, <2>3, <2>4, <2>5, <2>6, <2>7, <2>8, <2>9 DEF Next
<1> QED
  BY <1>1, <1>2, PTL DEF Spec

\* Every rank that any sequence of creations, imports, moves and deletions
\* brings about is a rank: a number and a length.
THEOREM TypeCorrect == Spec => []TypeOK
<1>1. RankInv => TypeOK
  BY DEF RankInv
<1> QED
  BY <1>1, RanksStayGood, PTL

-----------------------------------------------------------------------------
(* The order of a column *)

\* ORDER BY rank, id puts the cards of a column in one strict total order,
\* whatever the lengths of their ranks.
LEMMA ColumnOrder ==
  ASSUME NEW b, Carded(b), NEW s \in Stages
  PROVE  \A l, m, k \in On(b, s) :
           /\ ~Above(b, l, l)
           /\ Above(b, l, m) /\ Above(b, m, k) => Above(b, l, k)
           /\ Above(b, l, m) \/ l = m \/ Above(b, m, l)
<1> SUFFICES ASSUME NEW l \in On(b, s), NEW m \in On(b, s), NEW k \in On(b, s)
             PROVE  /\ ~Above(b, l, l)
                    /\ Above(b, l, m) /\ Above(b, m, k) => Above(b, l, k)
                    /\ Above(b, l, m) \/ l = m \/ Above(b, m, l)
  OBVIOUS
<1>1. /\ b[l].rank \in Rank /\ b[m].rank \in Rank /\ b[k].rank \in Rank
      /\ l \in Nat /\ m \in Nat /\ k \in Nat
  BY LeadsAssumption DEF On, Carded, Good
<1>2. \A x, y, z \in Rank :
        /\ ~Before(x, x)
        /\ Before(x, y) /\ Before(y, z) => Before(x, z)
        /\ Before(x, y) \/ x = y \/ Before(y, x)
  BY BeforeIsStrictOrder
<1>3. ~Above(b, l, l)
  BY <1>1, <1>2 DEF Above
<1>4. Above(b, l, m) /\ Above(b, m, k) => Above(b, l, k)
  BY <1>1, <1>2 DEF Above
<1>5. Above(b, l, m) \/ l = m \/ Above(b, m, l)
  BY <1>1, <1>2 DEF Above
<1> QED
  BY <1>3, <1>4, <1>5

\* create's query has one answer: two cards of a column are never both last.
THEOREM LastRankIsUnique ==
  Spec => [](\A s \in Stages : \A q, r \in LastRank(board, s) : q = r)
<1>1. ASSUME RankInv
      PROVE  \A s \in Stages : \A q, r \in LastRank(board, s) : q = r
  <2> SUFFICES ASSUME NEW s \in Stages,
                      NEW q \in LastRank(board, s), NEW r \in LastRank(board, s)
               PROVE  q = r
    OBVIOUS
  <2>1. CASE On(board, s) = {}
    BY <2>1 DEF LastRank
  <2>2. CASE On(board, s) # {}
    <3>1. PICK l \in On(board, s) :
            q = board[l].rank /\ \A m \in On(board, s) \ {l} : Above(board, m, l)
      BY <2>2 DEF LastRank
    <3>2. PICK k \in On(board, s) :
            r = board[k].rank /\ \A m \in On(board, s) \ {k} : Above(board, m, k)
      BY <2>2 DEF LastRank
    <3>3. l = k
      BY <1>1, <3>1, <3>2, ColumnOrder DEF RankInv
    <3> QED
      BY <3>1, <3>2, <3>3
  <2> QED
    BY <2>1, <2>2
<1> QED
  BY <1>1, RanksStayGood, PTL

\* A card that enters column s below or above another: its rank is the new
\* one, and all others keep theirs.
LEMMA Entering ==
  ASSUME RankInv, NEW l \in Leads, NEW s \in Stages, NEW r, Enter(l, s, r)
  PROVE  /\ board'[l].rank = r
         /\ \A m \in Leads \ {l} : board'[m] = board[m]
  BY DEF RankInv, TypeOK, Enter

\* create puts the new lead below every card of its stage, for ranks of any
\* lengths, as long as the last of them leaves room for a gap.
THEOREM CreatesLandLast == Spec => CreateLandsLast
<1> DEFINE Lands ==
      \A l \in Leads :
        /\ CreateInsert(l)
        /\ reading[l].last \in LastRank(board, reading[l].stage)
        /\ HasRoom(reading[l].last)
        => \A m \in On(board, reading[l].stage) : Above(board', m, l)
<1>1. ASSUME RankInv PROVE Lands
  <2> SUFFICES ASSUME NEW l \in Leads, CreateInsert(l),
                      reading[l].last \in LastRank(board, reading[l].stage),
                      HasRoom(reading[l].last),
                      NEW m \in On(board, reading[l].stage)
               PROVE  Above(board', m, l)
    OBVIOUS
  <2> DEFINE s == reading[l].stage
             last == reading[l].last
             new == GetMidpointRank(last, NoRank)
  <2>1. reading[l] # NoCard /\ Enter(l, s, new)
    BY DEF CreateInsert
  <2>2. s \in Stages /\ board[l] = NoCard /\ m # l /\ m \in Leads
    BY <1>1, <2>1 DEF RankInv, TypeOK, On
  <2>3. board'[l].rank = new /\ board'[m] = board[m]
    BY <1>1, <2>1, <2>2, Entering
  <2>4. PICK x \in On(board, s) :
          last = board[x].rank /\ \A y \in On(board, s) \ {x} : Above(board, y, x)
    BY DEF LastRank
  <2>5. Good(last) /\ Good(board[m].rank)
    BY <1>1, <2>4 DEF RankInv, Carded, On
  <2>6. last # NoRank /\ last.val + Gap < TenTo[Pad]
    BY <2>5, NoRankAssumption DEF HasRoom, Good
  <2>7. Before(last, new) /\ Good(new)
    BY <2>5, <2>6, AppendWithRoom, MidpointGood DEF Throws
  <2>8. board[m].rank = last \/ Before(board[m].rank, last)
    BY <2>4 DEF Above
  <2>9. Before(board[m].rank, new)
    BY <2>5, <2>7, <2>8, BeforeIsStrictOrder DEF Good
  <2> QED
    BY <2>3, <2>9 DEF Above
<1> QED
  BY <1>1, RanksStayGood, PTL DEF CreateLandsLast

\* moveLead drops a card where the user dropped it: for every width, gap and
\* number of leads, on a fresh view, between two cards of ordinary ranks or
\* below a last card that leaves room.
THEOREM FreshMovesLandBetween == Spec => FreshMoveLandsBetween
<1> DEFINE Lands ==
      \A l \in Leads, s \in Stages, p, n \in Leads \cup {NoCard} :
        /\ shown = board /\ MoveLead(l, s, p, n)
        /\ IF n = NoCard THEN HasRoom(ShownRank(p))
           ELSE IsPadded(ShownRank(p)) /\ IsPadded(ShownRank(n))
        => \A m \in On(board, s) \ {l} :
             \/ /\ p # NoCard /\ (m = p \/ Above(board, m, p))
                /\ Above(board', m, l)
             \/ /\ n # NoCard /\ (m = n \/ Above(board, n, m))
                /\ Above(board', l, m)
<1>1. ASSUME RankInv PROVE Lands
  <2> SUFFICES ASSUME NEW l \in Leads, NEW s \in Stages,
                      NEW p \in Leads \cup {NoCard}, NEW n \in Leads \cup {NoCard},
                      shown = board, MoveLead(l, s, p, n),
                      IF n = NoCard THEN HasRoom(ShownRank(p))
                      ELSE IsPadded(ShownRank(p)) /\ IsPadded(ShownRank(n)),
                      NEW m \in On(board, s) \ {l}
               PROVE  \/ /\ p # NoCard /\ (m = p \/ Above(board, m, p))
                         /\ Above(board', m, l)
                      \/ /\ n # NoCard /\ (m = n \/ Above(board, n, m))
                         /\ Above(board', l, m)
    OBVIOUS
  <2> DEFINE above == ShownRank(p)
             below == ShownRank(n)
             new == GetMidpointRank(above, below)
  <2>1. /\ Enter(l, s, new) /\ ~Throws(above, below)
        /\ m \in Leads /\ m # l
    BY DEF MoveLead, On
  <2>2. board'[l].rank = new /\ board'[m] = board[m]
    BY <1>1, <2>1, Entering
  <2>3. ASSUME NEW c \in {p, n}, c # NoCard
        PROVE  /\ c \in On(board, s) /\ ShownRank(c) = board[c].rank
               /\ Good(ShownRank(c)) /\ ShownRank(c) # NoRank
    <3>1. c \in On(board, s)
      BY <2>3 DEF MoveLead, Adjacent
    <3>2. ShownRank(c) = board[c].rank
      BY <2>3 DEF ShownRank
    <3>3. Good(ShownRank(c))
      BY <1>1, <3>1, <3>2 DEF RankInv, Carded, On
    <3> QED
      BY <3>1, <3>2, <3>3, NoRankAssumption DEF Good
  <2>4. ShownRank(NoCard) = NoRank
    BY DEF ShownRank
  <2>5. \/ p # NoCard /\ (m = p \/ Above(board, m, p))
        \/ n # NoCard /\ (m = n \/ Above(board, n, m))
    BY DEF MoveLead, Adjacent
  <2>6. /\ p # NoCard => Before(above, new)
        /\ n # NoCard => Before(new, below)
    <3>1. ASSUME NEW c \in {p, n}, c # NoCard, IsPadded(ShownRank(c))
          PROVE  /\ ShownRank(c) \in Padded
                 /\ ShownRank(c).val \in Nat /\ ShownRank(c).val > 0
      BY <2>3, <3>1 DEF IsPadded, Padded, Good, Rank
    <3>2. CASE p # NoCard /\ n # NoCard
      <4>1. /\ above \in Padded /\ below \in Padded
            /\ above.val \in Nat /\ below.val \in Nat
            /\ above # NoRank /\ below # NoRank
        BY <2>3, <3>1, <3>2
      <4>2. above.val < below.val
        BY <2>1, <4>1 DEF Throws
      <4>3. below.val = above.val + 1 \/ above.val + 1 < below.val
        BY <4>1, <4>2
      <4> QED
        BY <3>2, <4>1, <4>3, MidpointOfPadded, ExtensionOfPadded
    <3>3. CASE p # NoCard /\ n = NoCard
      <4>1. /\ Good(above) /\ above # NoRank
            /\ above.val + Gap < TenTo[Pad] /\ below = NoRank
        BY <2>3, <2>4, <3>3 DEF HasRoom
      <4> QED
        BY <3>3, <4>1, AppendWithRoom
    <3>4. CASE p = NoCard /\ n # NoCard
      <4>1. below \in Padded /\ below.val > 0 /\ above = NoRank
        BY <2>4, <3>1, <3>4
      <4> QED
        BY <3>4, <4>1, PrependToPadded
    <3>5. CASE p = NoCard /\ n = NoCard
      BY <3>5
    <3> QED
      BY <3>2, <3>3, <3>4, <3>5
  <2>7. /\ above # NoRank => Good(above)
        /\ below # NoRank => Good(below)
    BY <2>3, <2>4
  <2>8. Good(new) /\ board[m].rank \in Rank
    BY <1>1, <2>1, <2>7, MidpointGood DEF RankInv, Carded, On, Good
  <2>9. CASE p # NoCard /\ (m = p \/ Above(board, m, p))
    <3>1. board[m].rank = above \/ Before(board[m].rank, above)
      BY <2>3, <2>9 DEF Above
    <3>2. Before(board[m].rank, new)
      BY <2>3, <2>6, <2>8, <2>9, <3>1, BeforeIsStrictOrder DEF Good
    <3> QED
      BY <2>2, <2>9, <3>2 DEF Above
  <2>10. CASE n # NoCard /\ (m = n \/ Above(board, n, m))
    <3>1. board[m].rank = below \/ Before(below, board[m].rank)
      BY <2>3, <2>10 DEF Above
    <3>2. Before(new, board[m].rank)
      BY <2>3, <2>6, <2>8, <2>10, <3>1, BeforeIsStrictOrder DEF Good
    <3> QED
      BY <2>2, <2>10, <3>2 DEF Above
  <2> QED
    BY <2>5, <2>9, <2>10
<1> QED
  BY <1>1, RanksStayGood, PTL DEF FreshMoveLandsBetween
-----------------------------------------------------------------------------
(* Ranks as strings *)

Written(b) ==
  \A l \in Leads : b[l] \notin {NoCard, Deleted} => Digits(b[l].rank)

\* Every number on the board, on the screen or in a running create has as
\* many digits as its string is long, or fewer.
RanksAreDigits ==
  /\ Written(board) /\ Written(shown)
  /\ \A l \in Leads :
       reading[l] # NoCard /\ reading[l].last # NoRank => Digits(reading[l].last)

LEMMA DigitsStep == RankInv /\ RanksAreDigits /\ [Next]_vars => RanksAreDigits'
<1> SUFFICES ASSUME RankInv, RanksAreDigits, [Next]_vars
             PROVE  RanksAreDigits'
  OBVIOUS
<1> USE DEF RanksAreDigits, Written
<1>1. ASSUME NEW l \in Leads, NEW s \in Stages, NEW r,
             Enter(l, s, r), r \in Rank, r.len =< 2 * Pad => Digits(r)
      PROVE  Written(board')
  <2>1. board'[l].rank = r /\ \A m \in Leads \ {l} : board'[m] = board[m]
    BY <1>1, Entering
  <2>2. Digits(r)
    BY <1>1, BoundAssumption, PadAssumption DEF Enter, Representable, Rank
  <2> QED
    BY <2>1, <2>2
<1>2. ASSUME NEW l \in Leads, CreateRead(l)
      PROVE  RanksAreDigits'
  <2>0. PICK s \in Stages : \E r \in LastRank(board, s) :
          reading' = [reading EXCEPT ![l] = [stage |-> s, last |-> r]]
    BY <1>2 DEF CreateRead
  <2>1. PICK r \in LastRank(board, s) :
          reading' = [reading EXCEPT ![l] = [stage |-> s, last |-> r]]
    BY <2>0
  <2>2. r # NoRank => Digits(r)
    BY DEF LastRank, On
  <2>3. \A k \in Leads : reading'[k] # NoCard /\ reading'[k].last # NoRank
          => Digits(reading'[k].last)
    BY <2>1, <2>2 DEF RankInv, TypeOK
  <2>4. board' = board /\ shown' = shown
    BY <1>2 DEF CreateRead
  <2> QED
    BY <2>3, <2>4
<1>3. ASSUME NEW l \in Leads, CreateInsert(l)
      PROVE  RanksAreDigits'
  <2> DEFINE last == reading[l].last
  <2>1. /\ Enter(l, reading[l].stage, GetMidpointRank(last, NoRank))
        /\ reading[l] # NoCard /\ reading[l].stage \in Stages
        /\ reading' = [reading EXCEPT ![l] = NoCard] /\ shown' = shown
    BY <1>3 DEF CreateInsert, RankInv, TypeOK
  <2>2. ~Throws(last, NoRank) /\ (last # NoRank => Good(last) /\ Digits(last))
    BY <2>1 DEF Throws, RankInv
  <2>3. /\ GetMidpointRank(last, NoRank).len =< 2 * Pad => Digits(GetMidpointRank(last, NoRank))
        /\ GetMidpointRank(last, NoRank) \in Rank
    BY <2>2, MidpointDigits, MidpointGood DEF Good
  <2>4. Written(board')
    BY <1>1, <2>1, <2>3
  <2> QED
    BY <2>1, <2>4 DEF RankInv, TypeOK
<1>4. ASSUME NEW l \in Leads, InsertWithDefaultRank(l)
      PROVE  RanksAreDigits'
  <2>1. PICK s \in Stages : Enter(l, s, InitialRank)
    BY <1>4 DEF InsertWithDefaultRank
  <2>2. InitialRank \in Rank /\ (InitialRank.len =< 2 * Pad => Digits(InitialRank))
    BY InitialAssumption, PadRankGood, PadRankDigits DEF InitialRank, Good
  <2>3. Written(board')
    BY <1>1, <2>1, <2>2
  <2> QED
    BY <1>4, <2>3 DEF InsertWithDefaultRank
<1>5. ASSUME NEW l \in Leads, NEW s \in Stages,
             NEW p \in Leads \cup {NoCard}, NEW n \in Leads \cup {NoCard},
             MoveLead(l, s, p, n)
      PROVE  RanksAreDigits'
  <2>1. /\ ShownRank(p) # NoRank => Good(ShownRank(p)) /\ Digits(ShownRank(p))
        /\ ShownRank(n) # NoRank => Good(ShownRank(n))
        /\ ~Throws(ShownRank(p), ShownRank(n))
    BY <1>5 DEF MoveLead, Adjacent, On, ShownRank, RankInv, Carded
  <2> DEFINE r == GetMidpointRank(ShownRank(p), ShownRank(n))
  <2>2. r \in Rank /\ (r.len =< 2 * Pad => Digits(r))
    BY <2>1, MidpointDigits, MidpointGood DEF Good
  <2>3. Written(board')
    BY <1>1, <1>5, <2>2 DEF MoveLead
  <2> QED
    BY <1>5, <2>3 DEF MoveLead
<1>6. ASSUME NEW l \in Leads, Remove(l)
      PROVE  RanksAreDigits'
  BY <1>6, CardAssumption DEF Remove, RankInv, TypeOK
<1>7. CASE Refresh
  BY <1>7 DEF Refresh
<1>8. CASE UNCHANGED vars
  BY <1>8 DEF vars
<1>9. ASSUME NEW l \in Leads, NEW s \in Stages, ChangeStage(l, s)
      PROVE  RanksAreDigits'
  <2>1. /\ board'[l].rank = board[l].rank /\ board[l] \notin {NoCard, Deleted}
        /\ \A k \in Leads \ {l} : board'[k] = board[k]
    BY <1>9, StageChanged DEF RankInv, ChangeStage
  <2> QED
    BY <1>9, <2>1 DEF ChangeStage
<1> QED
  BY <1>2, <1>3, <1>4, <1>5, <1>6, <1>7, <1>8, <1>9 DEF Next

\* Every rank is one that a string has: what create, import and moveLead
\* write, the column holds digit by digit, so that comparing numbers and
\* lengths as the model does is comparing the strings.
THEOREM RanksAreStrings == Spec => []RanksAreDigits
<1>1. Init => RanksAreDigits
  BY DEF Init, RanksAreDigits, Written
<1> QED
  BY <1>1, DigitsStep, RanksStayGood, PTL DEF Spec
=============================================================================
