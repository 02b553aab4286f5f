--------------------------- MODULE LexoRankProofs ---------------------------
(***************************************************************************)
(* What holds of the rank strings themselves, for every width, gap and     *)
(* initial rank: the string order is a strict total order, and the rank    *)
(* getMidpointRank computes lies where it should as long as the neighbours *)
(* are of ordinary length or leave room.  Nothing is claimed of longer     *)
(* neighbours: there the documented order fails, and a run shows how.      *)
(*                                                                         *)
(* The string order scales by powers of ten.  The provers know nothing of  *)
(* the exponent operator, so TenTo is a recursive function, and its        *)
(* recursion equation and the power law are proved here by induction, in   *)
(* the form of the least counterexample.                                   *)
(***************************************************************************)
EXTENDS LexoRank, FiniteSetTheorems, WellFoundedInduction, TLAPS

\* Induction, as the least counterexample: a set of numbers that is not
\* empty has a least element.
LEMMA LeastElement ==
  ASSUME NEW T, T \subseteq Nat, T # {}
  PROVE  \E x \in T : \A y \in T : x =< y
<1> DEFINE R == OpToRel(<, Nat)
<1>1. \E x \in T : \A y \in T : <<y, x>> \notin R
  BY NatLessThanWellFounded, WFMin
<1>2. PICK x \in T : \A y \in T : <<y, x>> \notin R
  BY <1>1
<1>3. \A y \in T : ~(y < x)
  BY <1>2 DEF OpToRel
<1> QED
  BY <1>3

\* g lists the powers of ten up to the n-th.
IsPower(g, n) ==
  /\ g \in [0 .. n -> Nat]
  /\ g[0] = 1
  /\ \A k \in 1 .. n : g[k] = 10 * g[k - 1]

LEMMA PowerExists == \A n \in Nat : \E g : IsPower(g, n)
<1> DEFINE Without == {n \in Nat : ~ \E g : IsPower(g, n)}
<1> SUFFICES ASSUME Without # {}
             PROVE  FALSE
  OBVIOUS
<1>1. PICK n \in Without : \A m \in Without : n =< m
  BY LeastElement
<1>2. CASE n = 0
  <2>1. IsPower([i \in 0 .. 0 |-> 1], 0)
    BY DEF IsPower
  <2> QED
    BY <1>1, <1>2, <2>1
<1>3. CASE n # 0
  <2>1. n \in Nat /\ n - 1 \in Nat /\ n - 1 \notin Without
    BY <1>1, <1>3
  <2>2. PICK g : IsPower(g, n - 1)
    BY <2>1
  <2> DEFINE h == [i \in 0 .. n |-> IF i = n THEN 10 * g[n - 1] ELSE g[i]]
  <2>3. \A i \in 0 .. (n - 1) : g[i] \in Nat /\ h[i] = g[i]
    BY <2>1, <2>2 DEF IsPower
  <2>4. h[n] = 10 * g[n - 1] /\ 10 * g[n - 1] \in Nat
    <3>1. n \in 0 .. n /\ n - 1 \in 0 .. (n - 1)
      BY <2>1
    <3>2. g[n - 1] \in Nat
      BY <2>3, <3>1
    <3> QED
      BY <3>1, <3>2
  <2>5. h \in [0 .. n -> Nat]
    <3>1. \A i \in 0 .. n : i = n \/ i \in 0 .. (n - 1)
      BY <2>1
    <3>2. \A i \in 0 .. n : h[i] \in Nat
      BY <2>3, <2>4, <3>1
    <3> QED
      BY <3>2
  <2>6. h[0] = 1
    BY <2>1, <2>2, <2>3 DEF IsPower
  <2>7. ASSUME NEW k \in 1 .. n
        PROVE  h[k] = 10 * h[k - 1]
    <3>1. CASE k = n
      BY <2>1, <2>3, <2>4, <3>1
    <3>2. CASE k # n
      BY <2>1, <2>2, <2>3, <3>2 DEF IsPower
    <3> QED
      BY <3>1, <3>2
  <2>8. IsPower(h, n)
    BY <2>5, <2>6, <2>7 DEF IsPower
  <2> QED
    BY <1>1, <2>8
<1> QED
  BY <1>2, <1>3

LEMMA PowerUnique ==
  ASSUME NEW m \in Nat, NEW n \in Nat, NEW g, NEW h,
         IsPower(g, m), IsPower(h, n), NEW k \in Nat, k =< m, k =< n
  PROVE  g[k] = h[k]
<1> DEFINE Differ == {i \in Nat : i =< m /\ i =< n /\ g[i] # h[i]}
<1> SUFFICES ASSUME Differ # {}
             PROVE  FALSE
  OBVIOUS
<1>1. PICK i \in Differ : \A j \in Differ : i =< j
  BY LeastElement
<1>2. i # 0
  BY <1>1 DEF IsPower
<1>3. i \in 1 .. m /\ i \in 1 .. n /\ i - 1 \in Nat /\ i - 1 \notin Differ
  BY <1>1, <1>2
<1>4. g[i - 1] = h[i - 1]
  BY <1>3
<1> QED
  BY <1>1, <1>3, <1>4 DEF IsPower

\* The recursion equation of TenTo: the function its definition chooses
\* exists, so TenTo is that function.
LEMMA TenToRecursion ==
  /\ TenTo[0] = 1
  /\ \A k \in Nat : TenTo[k + 1] = 10 * TenTo[k]
<1> DEFINE list(n) == CHOOSE g : IsPower(g, n)
           F == [n \in Nat |-> list(n)[n]]
           Solves(f) == f = [k \in Nat |-> IF k = 0 THEN 1 ELSE 10 * f[k - 1]]
<1>1. \A n \in Nat : IsPower(list(n), n)
  BY PowerExists
<1>2. ASSUME NEW k \in Nat
      PROVE  F[k] = IF k = 0 THEN 1 ELSE 10 * F[k - 1]
  <2>1. CASE k = 0
    BY <1>1, <2>1 DEF IsPower
  <2>2. CASE k # 0
    <3>1. k - 1 \in Nat /\ k \in 1 .. k
      BY <2>2
    <3>2. F[k] = list(k)[k] /\ F[k - 1] = list(k - 1)[k - 1]
      BY <3>1
    <3>3. IsPower(list(k), k) /\ IsPower(list(k - 1), k - 1)
      BY <1>1, <3>1
    <3> HIDE DEF list, F
    <3>4. list(k)[k - 1] = list(k - 1)[k - 1]
      BY <3>1, <3>3, PowerUnique
    <3>5. list(k)[k] = 10 * list(k)[k - 1]
      BY <3>1, <3>3 DEF IsPower
    <3> QED
      BY <2>2, <3>2, <3>4, <3>5
  <2> QED
    BY <2>1, <2>2
<1>3. Solves(F)
  <2>1. F = [k \in Nat |-> F[k]]
    OBVIOUS
  <2> HIDE DEF F
  <2> QED
    BY <1>2, <2>1
<1>4. TenTo = CHOOSE f : Solves(f)
  BY DEF TenTo
<1>5. Solves(TenTo)
  <2> HIDE DEF Solves, F
  <2> QED
    BY <1>3, <1>4
<1>6. \A k \in Nat : TenTo[k] = IF k = 0 THEN 1 ELSE 10 * TenTo[k - 1]
  <2> HIDE DEF F
  <2> QED
    BY <1>5
<1>7. \A k \in Nat : k + 1 \in Nat /\ k + 1 # 0 /\ (k + 1) - 1 = k
  OBVIOUS
<1> HIDE DEF Solves, F
<1> QED
  BY <1>6, <1>7

LEMMA TenToPositive == \A k \in Nat : TenTo[k] \in Nat \ {0}
<1> DEFINE Bad == {k \in Nat : TenTo[k] \notin Nat \ {0}}
<1> SUFFICES ASSUME Bad # {}
             PROVE  FALSE
  OBVIOUS
<1>1. PICK k \in Bad : \A j \in Bad : k =< j
  BY LeastElement
<1>2. k # 0
  BY <1>1, TenToRecursion
<1>3. k - 1 \in Nat /\ k - 1 \notin Bad /\ (k - 1) + 1 = k
  BY <1>1, <1>2
<1>4. TenTo[k] = 10 * TenTo[k - 1] /\ TenTo[k - 1] \in Nat \ {0}
  BY <1>3, TenToRecursion
<1> QED
  BY <1>1, <1>4

LEMMA TenToSum == \A a, b \in Nat : TenTo[a + b] = TenTo[a] * TenTo[b]
<1> SUFFICES ASSUME NEW a \in Nat
             PROVE  \A b \in Nat : TenTo[a + b] = TenTo[a] * TenTo[b]
  OBVIOUS
<1> DEFINE Bad == {b \in Nat : TenTo[a + b] # TenTo[a] * TenTo[b]}
<1> SUFFICES ASSUME Bad # {}
             PROVE  FALSE
  OBVIOUS
<1>1. PICK b \in Bad : \A c \in Bad : b =< c
  BY LeastElement
<1>2. TenTo[a] \in Nat /\ b \in Nat
  BY <1>1, TenToPositive
<1>3. b # 0
  <2>1. a + 0 = a /\ TenTo[a] * 1 = TenTo[a]
    BY <1>2
  <2> QED
    BY <1>1, <2>1, TenToRecursion
<1>4. /\ b - 1 \in Nat /\ b - 1 \notin Bad /\ (b - 1) + 1 = b
      /\ a + (b - 1) \in Nat /\ (a + (b - 1)) + 1 = a + b
  BY <1>1, <1>2, <1>3
<1>5. /\ TenTo[a + b] = 10 * TenTo[a + (b - 1)]
      /\ TenTo[b] = 10 * TenTo[b - 1]
  BY <1>4, TenToRecursion
<1>6. TenTo[a + (b - 1)] = TenTo[a] * TenTo[b - 1]
  BY <1>4
<1>7. TenTo[b - 1] \in Nat
  BY <1>4, TenToPositive
<1>8. \A x, y \in Nat : 10 * (x * y) = x * (10 * y)
  OBVIOUS
<1>9. TenTo[a + b] = TenTo[a] * TenTo[b]
  BY <1>2, <1>5, <1>6, <1>7, <1>8
<1> QED
  BY <1>1, <1>9
-----------------------------------------------------------------------------
(* The order of ranks *)

\* Multiplying by a positive number keeps the order.
LEMMA TimesMonotone ==
  ASSUME NEW x \in Nat, NEW y \in Nat, NEW t \in Nat \ {0}
  PROVE  /\ x < y <=> x * t < y * t
         /\ x = y <=> x * t = y * t
         /\ x =< y <=> x * t =< y * t
<1>1. ASSUME NEW u \in Nat, NEW v \in Nat, u < v
      PROVE  u * t < v * t
  <2>1. v - u \in Nat \ {0} /\ v = u + (v - u)
    BY <1>1
  <2>2. (v - u) * t > 0 /\ u * t \in Int /\ (v - u) * t \in Int
    BY <2>1
  <2>3. v * t = u * t + (v - u) * t
    BY <2>1
  <2> QED
    BY <2>2, <2>3
<1>2. x < y \/ x = y \/ y < x
  OBVIOUS
<1>3. x * t \in Nat /\ y * t \in Nat
  OBVIOUS
<1>4. CASE x < y
  BY <1>1, <1>3, <1>4
<1>5. CASE x = y
  BY <1>3, <1>5
<1>6. CASE y < x
  BY <1>1, <1>3, <1>6
<1> QED
  BY <1>2, <1>4, <1>5, <1>6

\* The number a rank stands for when it is filled up to K digits.
Scaled(r, K) == r.val * TenTo[K - r.len]

LEMMA ScaledBy ==
  ASSUME NEW r \in Rank, NEW K \in Nat, NEW m \in Nat, r.len =< m, m =< K
  PROVE  /\ TenTo[m - r.len] \in Nat \ {0}
         /\ TenTo[K - m] \in Nat \ {0}
         /\ r.val * TenTo[m - r.len] \in Nat
         /\ Scaled(r, K) = (r.val * TenTo[m - r.len]) * TenTo[K - m]
<1>1. r.val \in Nat /\ r.len \in Nat
  BY DEF Rank
<1>2. m - r.len \in Nat /\ K - m \in Nat /\ K - r.len = (m - r.len) + (K - m)
  BY <1>1
<1>3. TenTo[m - r.len] \in Nat \ {0} /\ TenTo[K - m] \in Nat \ {0}
  BY <1>2, TenToPositive
<1>4. TenTo[K - r.len] = TenTo[m - r.len] * TenTo[K - m]
  BY <1>2, TenToSum
<1>5. \A x, y, z \in Nat : x * (y * z) = (x * y) * z /\ x * y \in Nat
  OBVIOUS
<1> QED
  BY <1>1, <1>3, <1>4, <1>5 DEF Scaled

\* Before compares the numbers filled up to any common length, and lets the
\* shorter of two ranks that differ in trailing zeros go first.
LEMMA BeforeIsScaled ==
  ASSUME NEW a \in Rank, NEW b \in Rank, NEW K \in Nat, a.len =< K, b.len =< K
  PROVE  Before(a, b) <=> \/ Scaled(a, K) < Scaled(b, K)
                          \/ Scaled(a, K) = Scaled(b, K) /\ a.len < b.len
<1>1. /\ a.val \in Nat /\ b.val \in Nat /\ a.len \in Nat /\ b.len \in Nat
      /\ a.len = b.len \/ a.len < b.len \/ b.len < a.len
  BY DEF Rank
<1>2. CASE a.len = b.len
  <2>1. /\ K - a.len \in Nat /\ TenTo[K - a.len] \in Nat \ {0}
        /\ Scaled(a, K) = a.val * TenTo[K - a.len]
        /\ Scaled(b, K) = b.val * TenTo[K - a.len]
    BY <1>1, <1>2, TenToPositive DEF Scaled
  <2>2. a.val < b.val <=> Scaled(a, K) < Scaled(b, K)
    BY <1>1, <2>1, TimesMonotone
  <2> QED
    BY <1>1, <1>2, <2>2 DEF Before
<1>3. CASE a.len < b.len
  <2> DEFINE x == a.val * TenTo[b.len - a.len]
             t == TenTo[K - b.len]
  <2>1. /\ b.len - a.len \in Nat /\ x \in Nat /\ t \in Nat \ {0}
        /\ Scaled(a, K) = x * t
    BY <1>1, <1>3, ScaledBy
  <2>2. Scaled(b, K) = b.val * t
    BY DEF Scaled
  <2>3. x =< b.val <=> x * t =< b.val * t
    <3> HIDE DEF x, t
    <3> QED
      BY <1>1, <2>1, TimesMonotone
  <2>4. Before(a, b) <=> x =< b.val
    BY <1>1, <1>3 DEF Before
  <2>5. x * t \in Nat /\ b.val * t \in Nat
    <3> HIDE DEF x, t
    <3> QED
      BY <1>1, <2>1
  <2> HIDE DEF x, t
  <2> QED
    BY <1>3, <2>1, <2>2, <2>3, <2>4, <2>5
<1>4. CASE b.len < a.len
  <2> DEFINE y == b.val * TenTo[a.len - b.len]
             t == TenTo[K - a.len]
  <2>1. /\ a.len - b.len \in Nat /\ y \in Nat /\ t \in Nat \ {0}
        /\ Scaled(b, K) = y * t
    BY <1>1, <1>4, ScaledBy
  <2>2. Scaled(a, K) = a.val * t
    BY DEF Scaled
  <2>3. a.val < y <=> a.val * t < y * t
    <3> HIDE DEF y, t
    <3> QED
      BY <1>1, <2>1, TimesMonotone
  <2>4. Before(a, b) <=> a.val < y
    BY <1>1, <1>4 DEF Before
  <2>5. ~(a.len < b.len)
    BY <1>1, <1>4
  <2> HIDE DEF y, t
  <2> QED
    BY <2>1, <2>2, <2>3, <2>4, <2>5
<1> QED
  BY <1>1, <1>2, <1>3, <1>4

\* The string order is a strict total order on ranks of any lengths.
THEOREM BeforeIsStrictOrder ==
  \A a, b, c \in Rank :
    /\ ~Before(a, a)
    /\ Before(a, b) /\ Before(b, c) => Before(a, c)
    /\ Before(a, b) \/ a = b \/ Before(b, a)
<1> SUFFICES ASSUME NEW a \in Rank, NEW b \in Rank, NEW c \in Rank
             PROVE  /\ ~Before(a, a)
                    /\ Before(a, b) /\ Before(b, c) => Before(a, c)
                    /\ Before(a, b) \/ a = b \/ Before(b, a)
  OBVIOUS
<1> DEFINE K == a.len + b.len + c.len
<1>1. /\ a.len \in Nat /\ b.len \in Nat /\ c.len \in Nat /\ K \in Nat
      /\ a.len =< K /\ b.len =< K /\ c.len =< K
      /\ a.val \in Nat /\ b.val \in Nat
  BY DEF Rank
<1> HIDE DEF K
<1>2. /\ Scaled(a, K) \in Nat /\ Scaled(b, K) \in Nat /\ Scaled(c, K) \in Nat
  <2>1. \A r \in Rank : r.len =< K => Scaled(r, K) \in Nat
    <3> SUFFICES ASSUME NEW r \in Rank, r.len =< K
                 PROVE  Scaled(r, K) \in Nat
      OBVIOUS
    <3>1. r.val \in Nat /\ K - r.len \in Nat
      BY <1>1 DEF Rank
    <3>2. TenTo[K - r.len] \in Nat
      BY <3>1, TenToPositive
    <3> QED
      BY <3>1, <3>2 DEF Scaled
  <2> QED
    BY <1>1, <2>1
<1>3. ~Before(a, a)
  BY <1>1, <1>2, BeforeIsScaled
<1>4. Before(a, b) /\ Before(b, c) => Before(a, c)
  <2>1. /\ Before(a, b) <=> \/ Scaled(a, K) < Scaled(b, K)
                            \/ Scaled(a, K) = Scaled(b, K) /\ a.len < b.len
        /\ Before(b, c) <=> \/ Scaled(b, K) < Scaled(c, K)
                            \/ Scaled(b, K) = Scaled(c, K) /\ b.len < c.len
        /\ Before(a, c) <=> \/ Scaled(a, K) < Scaled(c, K)
                            \/ Scaled(a, K) = Scaled(c, K) /\ a.len < c.len
    BY <1>1, BeforeIsScaled
  <2> QED
    BY <1>1, <1>2, <2>1
<1>5. Before(a, b) \/ a = b \/ Before(b, a)
  <2>1. /\ Before(a, b) <=> \/ Scaled(a, K) < Scaled(b, K)
                            \/ Scaled(a, K) = Scaled(b, K) /\ a.len < b.len
        /\ Before(b, a) <=> \/ Scaled(b, K) < Scaled(a, K)
                            \/ Scaled(b, K) = Scaled(a, K) /\ b.len < a.len
    BY <1>1, BeforeIsScaled
  <2>2. CASE Scaled(a, K) = Scaled(b, K) /\ a.len = b.len
    <3>1. K - a.len \in Nat /\ TenTo[K - a.len] \in Nat \ {0}
      BY <1>1, TenToPositive
    <3>2. a.val * TenTo[K - a.len] = b.val * TenTo[K - a.len]
      BY <2>2 DEF Scaled
    <3>3. a.val = b.val
      BY <1>1, <3>1, <3>2, TimesMonotone
    <3>4. /\ a = [val |-> a.val, len |-> a.len]
          /\ b = [val |-> b.val, len |-> b.len]
      BY DEF Rank
    <3> QED
      BY <2>2, <3>3, <3>4
  <2> QED
    BY <1>1, <1>2, <2>1, <2>2
<1> QED
  BY <1>3, <1>4, <1>5
-----------------------------------------------------------------------------
(* What getMidpointRank returns *)

LEMMA TenToOne == TenTo[1] = 10
<1>1. 0 \in Nat /\ 0 + 1 = 1
  OBVIOUS
<1> QED
  BY <1>1, TenToRecursion

LEMMA PadTenTo == TenTo[Pad] \in Nat \ {0}
  BY PadAssumption, TenToPositive

LEMMA PadRankOfSmall ==
  ASSUME NEW n \in Nat, n < TenTo[Pad]
  PROVE  PadRank(n) = [val |-> n, len |-> Pad] /\ PadRank(n) \in Padded
  BY PadAssumption DEF PadRank, Padded, Rank

\* Between two ordinary ranks with an integer between them: the result is
\* ordinary again and strictly between.
LEMMA MidpointOfPadded ==
  ASSUME NEW p \in Padded, NEW n \in Padded, p.val + 1 < n.val
  PROVE  /\ GetMidpointRank(p, n) \in Padded
         /\ Before(p, GetMidpointRank(p, n))
         /\ Before(GetMidpointRank(p, n), n)
<1> DEFINE mid == (p.val + n.val) \div 2
<1>1. p.val \in Nat /\ n.val \in Nat /\ p.len = Pad /\ n.len = Pad /\ n.val < TenTo[Pad]
  BY DEF Padded, Rank
<1>2. mid \in Nat /\ p.val < mid /\ mid < n.val
  BY <1>1
<1>3. mid < TenTo[Pad]
  BY <1>1, <1>2, PadTenTo
<1>4. p # NoRank /\ n # NoRank
  BY NoRankAssumption DEF Padded
<1>5. GetMidpointRank(p, n) = PadRank(mid)
  BY <1>2, <1>1, <1>4 DEF GetMidpointRank
<1>6. PadRank(mid) = [val |-> mid, len |-> Pad] /\ PadRank(mid) \in Padded
  BY <1>2, <1>3, PadRankOfSmall
<1> QED
  BY <1>1, <1>2, <1>5, <1>6 DEF Before

\* Between two ordinary ranks that leave no integer between them: the rank
\* of the upper card is extended by a digit.
LEMMA ExtensionOfPadded ==
  ASSUME NEW p \in Padded, NEW n \in Padded, n.val = p.val + 1
  PROVE  /\ Before(p, GetMidpointRank(p, n))
         /\ Before(GetMidpointRank(p, n), n)
<1>1. p.val \in Nat /\ n.val \in Nat /\ p.len = Pad /\ n.len = Pad
  BY DEF Padded, Rank
<1>2. p # NoRank /\ n # NoRank
  BY NoRankAssumption DEF Padded
<1>3. (p.val + n.val) \div 2 = p.val
  BY <1>1
<1>4. GetMidpointRank(p, n) = [val |-> 10 * p.val + 5, len |-> Pad + 1]
  BY <1>1, <1>2, <1>3 DEF GetMidpointRank, Extend
<1>5. /\ Pad # Pad + 1 /\ Pad < Pad + 1 /\ ~(Pad + 1 < Pad)
      /\ (Pad + 1) - Pad = 1 /\ TenTo[1] = 10
  BY PadAssumption, TenToOne
<1>6. p.val * 10 =< 10 * p.val + 5 /\ 10 * p.val + 5 < n.val * 10
  BY <1>1
<1>7. Before(p, [val |-> 10 * p.val + 5, len |-> Pad + 1])
  <2>1. TenTo[(Pad + 1) - Pad] = 10
    BY <1>5
  <2> QED
    BY <1>1, <1>5, <1>6, <2>1, Zenon DEF Before
<1>8. Before([val |-> 10 * p.val + 5, len |-> Pad + 1], n)
  <2>1. TenTo[(Pad + 1) - Pad] = 10
    BY <1>5
  <2> QED
    BY <1>1, <1>5, <1>6, <2>1, Zenon DEF Before
<1> QED
  BY <1>4, <1>7, <1>8

\* Ranks as cards carry them: positive, and of Pad digits at least.
Good(r) == r \in Rank /\ r.val > 0 /\ r.len >= Pad

\* Below the last card, whatever the length of its rank, as long as the
\* number leaves room for a gap.
LEMMA AppendWithRoom ==
  ASSUME NEW p, Good(p), p.val + Gap < TenTo[Pad]
  PROVE  Before(p, GetMidpointRank(p, NoRank))
<1> DEFINE q == [val |-> p.val + Gap, len |-> Pad]
<1>1. /\ p.val \in Nat /\ p.len \in Nat /\ p.val + Gap \in Nat
      /\ p.val < p.val + Gap /\ Pad \in Nat
      /\ p.len = Pad \/ p.len > Pad
  BY GapAssumption, PadAssumption DEF Good, Rank
<1>2. p # NoRank
  BY NoRankAssumption DEF Good
<1>3. GetMidpointRank(p, NoRank) = q
  BY <1>1, <1>2, PadRankOfSmall DEF GetMidpointRank
<1>4. CASE p.len = Pad
  BY <1>1, <1>3, <1>4 DEF Before
<1>5. CASE p.len > Pad
  <2> DEFINE t == TenTo[p.len - Pad]
  <2>1. p.len - Pad \in Nat
    BY <1>1, <1>5
  <2>2. t \in Nat \ {0}
    BY <2>1, TenToPositive
  <2>3. Before(p, q) <=> p.val < (p.val + Gap) * t
    BY <1>1, <1>5 DEF Before
  <2> HIDE DEF t
  <2>4. \A x \in Nat : x =< x * t
    <3> SUFFICES ASSUME NEW x \in Nat
                 PROVE  x =< x * t
      OBVIOUS
    <3>1. t - 1 \in Nat /\ x * t = x + x * (t - 1)
      BY <2>2
    <3>2. x * (t - 1) \in Nat
      BY <3>1
    <3>3. \A y \in Nat : x =< x + y
      OBVIOUS
    <3> QED
      BY <3>1, <3>2, <3>3
  <2>5. p.val + Gap =< (p.val + Gap) * t /\ (p.val + Gap) * t \in Nat
    BY <1>1, <2>2, <2>4
  <2> QED
    BY <1>1, <1>3, <2>3, <2>5
<1> QED
  BY <1>1, <1>4, <1>5

\* Above the first card, whose rank is not all zeros.
LEMMA PrependToPadded ==
  ASSUME NEW n \in Padded, n.val > 0
  PROVE  Before(GetMidpointRank(NoRank, n), n)
<1>1. n.val \in Nat /\ n.len = Pad /\ n.val < TenTo[Pad]
  BY DEF Padded, Rank
<1>2. n # NoRank
  BY NoRankAssumption DEF Padded
<1>3. CASE n.val \div 2 = 0
  <2>1. GetMidpointRank(NoRank, n) = [val |-> 5, len |-> Pad + 1]
    BY <1>2, <1>3 DEF GetMidpointRank, ExtendedZero
  <2>2. /\ Pad # Pad + 1 /\ ~(Pad + 1 < Pad)
        /\ (Pad + 1) - Pad = 1 /\ TenTo[1] = 10 /\ 5 < n.val * 10
    BY <1>1, PadAssumption, TenToOne
  <2>3. TenTo[(Pad + 1) - Pad] = 10
    BY <2>2
  <2>4. Before([val |-> 5, len |-> Pad + 1], n)
    BY <1>1, <2>2, <2>3, Zenon DEF Before
  <2> QED
    BY <2>1, <2>4
<1>4. CASE n.val \div 2 # 0
  <2>1. GetMidpointRank(NoRank, n) = PadRank(n.val \div 2)
    BY <1>2, <1>4 DEF GetMidpointRank
  <2>2. n.val \div 2 \in Nat /\ n.val \div 2 < n.val
    BY <1>1
  <2>3. n.val \div 2 < TenTo[Pad]
    BY <1>1, <2>2, PadTenTo
  <2>4. PadRank(n.val \div 2) = [val |-> n.val \div 2, len |-> Pad]
    BY <2>2, <2>3, PadRankOfSmall
  <2> QED
    BY <1>1, <2>1, <2>2, <2>4 DEF Before
<1> QED
  BY <1>3, <1>4
\* Where a midpoint is defined, it is a good rank if its neighbours are.
LEMMA PadRankGood ==
  ASSUME NEW n \in Nat \ {0}
  PROVE  Good(PadRank(n))
<1> DEFINE powers == {k \in Pad .. 2 * Pad : TenTo[k] =< n}
<1>1. Cardinality(powers) \in Nat
  <2>1. IsFiniteSet(Pad .. 2 * Pad)
    BY FS_Interval, PadAssumption
  <2>2. IsFiniteSet(powers)
    BY <2>1, FS_Subset
  <2> QED
    BY <2>2, FS_CardinalityType
<1>2. \A c \in Nat : /\ (IF n < TenTo[Pad] THEN Pad ELSE Pad + c) \in Nat \ {0}
                     /\ (IF n < TenTo[Pad] THEN Pad ELSE Pad + c) >= Pad
  BY PadAssumption
<1>3. /\ (IF n < TenTo[Pad] THEN Pad ELSE Pad + Cardinality(powers)) \in Nat \ {0}
      /\ (IF n < TenTo[Pad] THEN Pad ELSE Pad + Cardinality(powers)) >= Pad
  BY <1>1, <1>2
<1> HIDE DEF powers
<1>4. PadRank(n) = [val |-> n, len |-> IF n < TenTo[Pad] THEN Pad
                                       ELSE Pad + Cardinality(powers)]
  BY DEF PadRank, powers
<1> QED
  BY <1>3, <1>4 DEF Good, Rank

LEMMA MidpointGood ==
  ASSUME NEW p, NEW n,
         p # NoRank => Good(p),
         n # NoRank => Good(n),
         ~Throws(p, n)
  PROVE  Good(GetMidpointRank(p, n))
<1> USE PadRankGood
<1>1. \A r : Good(r) => r.val \in Nat \ {0} /\ r.len \in Nat
  BY DEF Good, Rank
<1>2. CASE p = NoRank /\ n = NoRank
  <2>1. GetMidpointRank(p, n) = PadRank(Initial)
    BY <1>2 DEF GetMidpointRank, InitialRank
  <2> QED
    BY <2>1, InitialAssumption
<1>3. CASE p # NoRank /\ n = NoRank
  <2>1. GetMidpointRank(p, n) = PadRank(p.val + Gap)
    BY <1>3 DEF GetMidpointRank
  <2>2. p.val + Gap \in Nat \ {0}
    BY <1>1, <1>3, GapAssumption
  <2> QED
    BY <2>1, <2>2
<1>4. CASE p = NoRank /\ n # NoRank
  <2>1. GetMidpointRank(p, n) = IF n.val \div 2 = 0 THEN ExtendedZero
                                ELSE PadRank(n.val \div 2)
    BY <1>4 DEF GetMidpointRank
  <2>2. n.val \div 2 \in Nat
    BY <1>1, <1>4
  <2>3. Good(ExtendedZero)
    BY PadAssumption DEF ExtendedZero, Good, Rank
  <2> QED
    BY <2>1, <2>2, <2>3
<1>5. CASE p # NoRank /\ n # NoRank
  <2> DEFINE mid == (p.val + n.val) \div 2
  <2>1. GetMidpointRank(p, n) = IF mid = p.val THEN Extend(p) ELSE PadRank(mid)
    BY <1>5 DEF GetMidpointRank
  <2>2. mid \in Nat \ {0}
    BY <1>1, <1>5
  <2>3. Good(Extend(p))
    BY <1>1, <1>5, PadAssumption DEF Extend, Good, Rank
  <2> QED
    BY <2>1, <2>2, <2>3
<1> QED
  BY <1>2, <1>3, <1>4, <1>5
-----------------------------------------------------------------------------
(* Ranks as strings of digits *)

\* A string of len digits: there is a digit for every power of ten in val.
Digits(r) == r.val < TenTo[r.len]

LEMMA TenToMonotone == \A j, k \in Nat : j =< k => TenTo[j] =< TenTo[k]
<1> SUFFICES ASSUME NEW j \in Nat, NEW k \in Nat, j =< k
             PROVE  TenTo[j] =< TenTo[k]
  OBVIOUS
<1>1. k - j \in Nat /\ j + (k - j) = k
  OBVIOUS
<1>2. TenTo[k] = TenTo[j] * TenTo[k - j]
  BY <1>1, TenToSum
<1>3. TenTo[j] \in Nat \ {0} /\ TenTo[k - j] \in Nat \ {0} /\ TenTo[k] \in Nat \ {0}
  BY <1>1, TenToPositive
<1>4. 1 \in Nat /\ 1 =< TenTo[k - j]
  BY <1>3
<1>5. 1 * TenTo[j] =< TenTo[k - j] * TenTo[j]
  BY <1>3, <1>4, TimesMonotone
<1>6. \A x, y \in Nat : 1 * x = x /\ x * y = y * x
  OBVIOUS
<1> QED
  BY <1>2, <1>3, <1>5, <1>6

\* padRank: no digit is missing and none is more than it takes, Pad digits
\* apart, up to the length at which the model stops counting.
THEOREM PadRankIsDecimal ==
  ASSUME NEW n \in Nat, n < TenTo[2 * Pad + 1]
  PROVE  /\ Digits(PadRank(n))
         /\ PadRank(n).len > Pad => TenTo[PadRank(n).len - 1] =< n
<1> USE PadAssumption
<1>1. CASE n < TenTo[Pad]
  BY <1>1, PadRankOfSmall DEF Digits
<1>2. CASE ~(n < TenTo[Pad])
  <2> DEFINE Longer == {k \in Nat : k >= Pad /\ n < TenTo[k]}
             powers == {k \in Pad .. 2 * Pad : TenTo[k] =< n}
  <2>1. 2 * Pad + 1 \in Longer
    OBVIOUS
  <2>2. PICK d \in Longer : \A k \in Longer : d =< k
    BY <2>1, LeastElement
  <2>3. d \in Nat /\ d > Pad /\ d =< 2 * Pad + 1 /\ n < TenTo[d]
    BY <1>2, <2>1, <2>2
  <2>4. \A k \in Pad .. 2 * Pad : TenTo[k] =< n <=> k < d
    <3> SUFFICES ASSUME NEW k \in Pad .. 2 * Pad
                 PROVE  TenTo[k] =< n <=> k < d
      OBVIOUS
    <3>1. k \in Nat /\ k >= Pad /\ TenTo[k] \in Nat /\ TenTo[d] \in Nat
      BY <2>3, TenToPositive
    <3>2. CASE k < d
      <4>1. k \notin Longer
        BY <2>2, <2>3, <3>1, <3>2
      <4> QED
        BY <3>1, <3>2, <4>1
    <3>3. CASE d =< k
      <4>1. TenTo[d] =< TenTo[k]
        BY <2>3, <3>1, <3>3, TenToMonotone
      <4> QED
        BY <2>3, <3>1, <3>3, <4>1
    <3> QED
      BY <2>3, <3>1, <3>2, <3>3
  <2>5. powers = Pad .. (d - 1)
    BY <2>3, <2>4
  <2>6. Cardinality(powers) = d - Pad
    <3>1. Pad \in Int /\ d - 1 \in Int /\ ~(Pad > d - 1)
      BY <2>3
    <3>2. Cardinality(Pad .. (d - 1)) = (d - 1) - Pad + 1
      BY <3>1, FS_Interval
    <3>3. (d - 1) - Pad + 1 = d - Pad
      BY <2>3
    <3> HIDE DEF powers
    <3> QED
      BY <2>5, <3>2, <3>3
  <2>7. PadRank(n) = [val |-> n, len |-> Pad + Cardinality(powers)]
    BY <1>2 DEF PadRank
  <2> HIDE DEF powers
  <2>8. PadRank(n) = [val |-> n, len |-> d]
    BY <2>3, <2>6, <2>7
  <2>9. d - 1 \in Pad .. 2 * Pad /\ d - 1 < d
    BY <2>3
  <2> QED
    BY <2>3, <2>4, <2>8, <2>9 DEF Digits
<1> QED
  BY <1>1, <1>2

\* A rank that is no longer than the model counts is a string of digits.
LEMMA PadRankDigits ==
  ASSUME NEW n \in Nat, PadRank(n).len =< 2 * Pad
  PROVE  Digits(PadRank(n))
<1> USE PadAssumption
<1>1. CASE n < TenTo[2 * Pad + 1]
  BY <1>1, PadRankIsDecimal
<1>2. CASE ~(n < TenTo[2 * Pad + 1])
  <2> DEFINE powers == {k \in Pad .. 2 * Pad : TenTo[k] =< n}
  <2>1. \A k \in Pad .. 2 * Pad : TenTo[k] =< n
    <3> SUFFICES ASSUME NEW k \in Pad .. 2 * Pad
                 PROVE  TenTo[k] =< n
      OBVIOUS
    <3>1. k \in Nat /\ 2 * Pad + 1 \in Nat /\ k =< 2 * Pad + 1
      OBVIOUS
    <3>2. TenTo[k] =< TenTo[2 * Pad + 1] /\ TenTo[k] \in Nat /\ TenTo[2 * Pad + 1] \in Nat
      BY <3>1, TenToMonotone, TenToPositive
    <3> QED
      BY <1>2, <3>2
  <2>2. powers = Pad .. 2 * Pad
    BY <2>1
  <2>3. Cardinality(powers) = Pad + 1
    <3>1. Pad \in Int /\ 2 * Pad \in Int /\ ~(Pad > 2 * Pad)
      OBVIOUS
    <3>2. Cardinality(Pad .. 2 * Pad) = 2 * Pad - Pad + 1
      BY <3>1, FS_Interval
    <3>3. 2 * Pad - Pad + 1 = Pad + 1
      OBVIOUS
    <3> HIDE DEF powers
    <3> QED
      BY <2>2, <3>2, <3>3
  <2>4. ~(n < TenTo[Pad])
    <3>1. Pad \in Pad .. 2 * Pad /\ TenTo[Pad] \in Nat
      BY TenToPositive
    <3> QED
      BY <2>1, <3>1
  <2>5. PadRank(n) = [val |-> n, len |-> Pad + Cardinality(powers)]
    BY <2>4 DEF PadRank
  <2> HIDE DEF powers
  <2> QED
    BY <2>3, <2>5
<1> QED
  BY <1>1, <1>2

LEMMA MidpointDigits ==
  ASSUME NEW p, NEW n,
         p # NoRank => Good(p) /\ Digits(p),
         n # NoRank => Good(n),
         ~Throws(p, n),
         GetMidpointRank(p, n).len =< 2 * Pad
  PROVE  Digits(GetMidpointRank(p, n))
<1> USE PadRankDigits
<1>1. \A r : Good(r) => r.val \in Nat \ {0} /\ r.len \in Nat
  BY DEF Good, Rank
<1>2. CASE p = NoRank /\ n = NoRank
  <2>1. GetMidpointRank(p, n) = PadRank(Initial)
    BY <1>2 DEF GetMidpointRank, InitialRank
  <2> QED
    BY <2>1, InitialAssumption
<1>3. CASE p # NoRank /\ n = NoRank
  <2>1. GetMidpointRank(p, n) = PadRank(p.val + Gap)
    BY <1>3 DEF GetMidpointRank
  <2>2. p.val + Gap \in Nat
    BY <1>1, <1>3, GapAssumption
  <2> QED
    BY <2>1, <2>2
<1>4. CASE p = NoRank /\ n # NoRank
  <2>1. GetMidpointRank(p, n) = IF n.val \div 2 = 0 THEN ExtendedZero
                                ELSE PadRank(n.val \div 2)
    BY <1>4 DEF GetMidpointRank
  <2>2. n.val \div 2 \in Nat
    BY <1>1, <1>4
  <2>3. Digits(ExtendedZero)
    <3>1. TenTo[Pad + 1] = 10 * TenTo[Pad] /\ TenTo[Pad] \in Nat \ {0}
      BY PadAssumption, TenToRecursion, PadTenTo
    <3> QED
      BY <3>1 DEF Digits, ExtendedZero
  <2> QED
    BY <2>1, <2>2, <2>3
<1>5. CASE p # NoRank /\ n # NoRank
  <2> DEFINE mid == (p.val + n.val) \div 2
  <2>1. GetMidpointRank(p, n) = IF mid = p.val THEN Extend(p) ELSE PadRank(mid)
    BY <1>5 DEF GetMidpointRank
  <2>2. mid \in Nat
    BY <1>1, <1>5
  <2>3. Digits(Extend(p))
    <3>1. p.val \in Nat /\ p.len \in Nat /\ p.val < TenTo[p.len] /\ TenTo[p.len] \in Nat
      BY <1>1, <1>5, TenToPositive DEF Digits
    <3>2. TenTo[p.len + 1] = 10 * TenTo[p.len]
      BY <3>1, TenToRecursion
    <3>3. Extend(p) = [val |-> 10 * p.val + 5, len |-> p.len + 1]
      BY DEF Extend
    <3>4. 10 * p.val + 5 < 10 * TenTo[p.len]
      BY <3>1
    <3> QED
      BY <3>2, <3>3, <3>4 DEF Digits
  <2> QED
    BY <2>1, <2>2, <2>3
<1> QED
  BY <1>2, <1>3, <1>4, <1>5
=============================================================================
