--------------------------- MODULE TreasuryProofs ---------------------------
(***************************************************************************)
(* Proofs about Payouts and Treasury, for any accounts, windows, totals,   *)
(* fees, weights, minimum and bounds.                                      *)
(***************************************************************************)
EXTENDS Treasury, Fees, SumProofs, SequenceTheorems

-----------------------------------------------------------------------------
(* Division.                                                               *)

LEMMA DivMod ==
  ASSUME NEW a \in Int, NEW b \in Nat \ {0}
  PROVE  /\ a \div b \in Int /\ a % b \in 0..(b - 1)
         /\ a = (b * (a \div b)) + (a % b)
         /\ a \in Nat => a \div b \in Nat
OBVIOUS

LEMMA TimesMonotonic ==
  ASSUME NEW b \in Nat \ {0}, NEW x \in Int, NEW y \in Int
  PROVE  /\ x <= y => b * x <= b * y
         /\ b * x < b * y => x < y
         /\ b * x = b * y => x = y
OBVIOUS

\* The last multiple of b up to t is past every multiple that t is past.
LEMMA FloorPast ==
  ASSUME NEW s \in Nat, NEW t \in Nat, NEW b \in Nat \ {0}, s % b = 0
  PROVE  s <= (t \div b) * b <=> s <= t
<1>1. PICK m \in Int : m = s \div b /\ s = b * m
  BY DivMod
<1>2. PICK n \in Int : n = t \div b /\ b * n <= t /\ t < (b * n) + b
  BY DivMod
<1>3. (t \div b) * b = b * n
  BY ONLY <1>2
<1>4. ASSUME s <= t
      PROVE  s <= b * n
  <2>1. b * m < b * (n + 1)
    BY ONLY <1>1, <1>2, <1>4, n \in Int, b \in Nat
  <2>2. m <= n
    BY <2>1, TimesMonotonic
  <2> QED
    BY <1>1, <2>2, TimesMonotonic
<1> QED
  BY <1>2, <1>3, <1>4

LEMMA FloorType ==
  ASSUME NEW t \in Nat, NEW b \in Nat \ {0}
  PROVE  (t \div b) * b \in 0..t
BY FloorPast, DivMod

-----------------------------------------------------------------------------
(* Sums over sequences.                                                    *)

LEMMA SumAppended ==
  ASSUME NEW n \in Nat, NEW f, NEW g, \A i \in 1..n : f[i] \in Int /\ g[i] = f[i],
         g[n + 1] \in Int
  PROVE  Sum(g, 1..(n + 1)) = Sum(f, 1..n) + g[n + 1]
<1>0. IsFiniteSet(1..n)
  BY FS_Interval
<1>1. IsFiniteSet(1..n) /\ n + 1 \notin 1..n /\ (1..n) \cup {n + 1} = 1..(n + 1)
  BY <1>0
<1>2. \A i \in (1..n) \cup {n + 1} : g[i] \in Int
  OBVIOUS
<1>3. Sum(g, (1..n) \cup {n + 1}) = Sum(g, 1..n) + g[n + 1]
  <2> DEFINE D == 1..n
             x == n + 1
  <2>1. IsFiniteSet(D) /\ x \notin D /\ \A i \in D \cup {x} : g[i] \in Int
    BY <1>1, <1>2
  <2> HIDE DEF D, x
  <2>2. Sum(g, D \cup {x}) = Sum(g, D) + g[x]
    BY ONLY <2>1, SumAddElement
  <2> QED
    BY <2>2 DEF D, x
<1>4. Sum(g, 1..n) = Sum(f, 1..n)
  BY <1>1, SumSame
<1> QED
  BY <1>1, <1>3, <1>4

-----------------------------------------------------------------------------
(* Ranks.  F ranks the elements of D by a strict total order: F[a] is how  *)
(* many come before a.                                                     *)

TotalOrder(D, O) ==
  /\ O \subseteq D \X D
  /\ \A a \in D : <<a, a>> \notin O
  /\ \A a, b \in D : a # b => <<a, b>> \in O \/ <<b, a>> \in O
  /\ \A a, b, c \in D : <<a, b>> \in O /\ <<b, c>> \in O => <<a, c>> \in O

Ahead(D, O, a) == {b \in D : <<b, a>> \in O}
Rank(D, O) == [a \in D |-> Cardinality(Ahead(D, O, a))]

LEMMA RankOrdered ==
  ASSUME NEW D, IsFiniteSet(D), NEW O, TotalOrder(D, O), NEW a \in D, NEW b \in D,
         <<a, b>> \in O
  PROVE  Rank(D, O)[a] < Rank(D, O)[b]
<1>1. Ahead(D, O, a) \in SUBSET Ahead(D, O, b) /\ Ahead(D, O, a) # Ahead(D, O, b)
  BY DEF TotalOrder, Ahead
<1>2. IsFiniteSet(Ahead(D, O, b)) /\ IsFiniteSet(Ahead(D, O, a))
  BY FS_Subset DEF Ahead
<1>3. PICK x, y \in Nat : x = Cardinality(Ahead(D, O, a)) /\ y = Cardinality(Ahead(D, O, b))
  BY <1>2, FS_CardinalityType
<1>4. x <= y /\ x # y
  BY <1>1, <1>2, <1>3, FS_Subset
<1>5. Rank(D, O)[a] = x /\ Rank(D, O)[b] = y
  BY <1>3 DEF Rank
<1> QED
  BY <1>4, <1>5

LEMMA RankType ==
  ASSUME NEW D, IsFiniteSet(D), NEW O, TotalOrder(D, O)
  PROVE  Rank(D, O) \in Injection(D, 0..(Cardinality(D) - 1))
<1> DEFINE r == Rank(D, O)
<1>1. ASSUME NEW a \in D
      PROVE  r[a] \in 0..(Cardinality(D) - 1)
  <2>1. Ahead(D, O, a) \in SUBSET (D \ {a})
    BY DEF Ahead, TotalOrder
  <2>2. IsFiniteSet(D \ {a}) /\ Cardinality(D \ {a}) = Cardinality(D) - 1
    BY FS_RemoveElement
  <2>3. PICK x \in Nat : x = Cardinality(Ahead(D, O, a))
    BY <2>1, <2>2, FS_Subset, FS_CardinalityType
  <2>4. Cardinality(D) \in Nat /\ x <= Cardinality(D) - 1
    BY <2>1, <2>2, <2>3, FS_Subset, FS_CardinalityType
  <2>5. r[a] = x
    BY <2>3 DEF Rank
  <2> QED
    BY <2>4, <2>5
<1>2. ASSUME NEW a \in D, NEW b \in D, r[a] = r[b]
      PROVE  a = b
  <2>1. ASSUME <<a, b>> \in O \/ <<b, a>> \in O
        PROVE  FALSE
    <3>1. r[a] < r[b] \/ r[b] < r[a]
      BY <2>1, RankOrdered
    <3>2. r[a] \in Int
      BY <1>1
    <3> QED
      BY ONLY <1>2, <3>1, <3>2
  <2> QED
    BY <2>1 DEF TotalOrder
<1>3. r \in [D -> 0..(Cardinality(D) - 1)]
  BY <1>1 DEF Rank
<1> QED
  BY <1>2, <1>3 DEF Injection, IsInjective

\* As many elements have a rank under k as there are such ranks.
LEMMA RankUnder ==
  ASSUME NEW D, IsFiniteSet(D), NEW O, TotalOrder(D, O), NEW k \in 0..Cardinality(D)
  PROVE  Cardinality({a \in D : Rank(D, O)[a] < k}) = k
<1> DEFINE r == Rank(D, O)  U == {a \in D : r[a] < k}  n == Cardinality(D)
<1>0. n \in Nat /\ k \in Nat /\ k <= n
  BY FS_CardinalityType
<1>1. r \in Injection(D, 0..(n - 1))
  BY RankType
<1>2. IsFiniteSet(0..(n - 1)) /\ Cardinality(0..(n - 1)) = n
  <2> HIDE DEF n
  <2>1. n - 1 \in Int
    BY <1>0
  <2>2. /\ IsFiniteSet(0..(n - 1))
        /\ Cardinality(0..(n - 1)) = IF 0 > n - 1 THEN 0 ELSE (n - 1) - 0 + 1
    BY <2>1, FS_Interval
  <2>3. (IF 0 > n - 1 THEN 0 ELSE (n - 1) - 0 + 1) = n
    BY <1>0
  <2> QED
    BY <2>2, <2>3
<1>3. r \in Surjection(D, 0..(n - 1))
  <2> HIDE DEF r, n
  <2>1. IsFiniteSet(D) /\ Cardinality(D) = Cardinality(0..(n - 1))
    BY <1>2 DEF n
  <2> QED
    BY <1>1, <1>2, <2>1, FS_Injection
<1>4. [a \in U |-> r[a]] \in Bijection(U, 0..(k - 1))
  <2> DEFINE g == [a \in U |-> r[a]]
  <2> HIDE DEF r, n
  <2>1. r \in [D -> 0..(n - 1)]
    BY <1>1 DEF Injection
  <2>2. g \in [U -> 0..(k - 1)]
    BY <2>1, <1>0
  <2>3. g \in Injection(U, 0..(k - 1))
    BY <1>1, <2>2 DEF Injection, IsInjective
  <2>4. \A j \in 0..(k - 1) : \E a \in U : g[a] = j
    <3> SUFFICES ASSUME NEW j \in 0..(k - 1)
                 PROVE  \E a \in U : g[a] = j
      OBVIOUS
    <3>1. j \in 0..(n - 1) /\ j < k
      BY <1>0
    <3>2. PICK a \in D : r[a] = j
      BY <1>3, <3>1 DEF Surjection
    <3> QED
      BY <3>1, <3>2
  <2> QED
    BY <2>2, <2>3, <2>4 DEF Bijection, Surjection
<1>5. IsFiniteSet(U)
  BY FS_Subset
<1>6. Cardinality(U) = Cardinality(0..(k - 1))
  BY <1>4, <1>5, FS_Bijection DEF ExistsBijection
<1> QED
  BY <1>0, <1>6, FS_Interval

-----------------------------------------------------------------------------
(* The split of a total.                                                   *)

Whole(w) == Sum(w, DOMAIN w)
Floors(total, w) == [a \in DOMAIN w |-> (total * w[a]) \div Whole(w)]
Rests(total, w) == [a \in DOMAIN w |-> (total * w[a]) % Whole(w)]
Left(total, w) == total - Sum(Floors(total, w), DOMAIN w)

\* The order in which what floors leave is given out.
Nearer(f) == {p \in (DOMAIN f) \X (DOMAIN f) :
                f[p[1]] > f[p[2]] \/ (f[p[1]] = f[p[2]] /\ p[1] < p[2])}

Up(total, w) == {a \in DOMAIN w : Rank(DOMAIN w, Nearer(Rests(total, w)))[a] < Left(total, w)}

LEMMA NearerIsTotal ==
  ASSUME NEW D \in SUBSET Nat, NEW f \in [D -> Nat]
  PROVE  TotalOrder(D, Nearer(f))
<1>0. Nearer(f) = {p \in D \X D : f[p[1]] > f[p[2]] \/ (f[p[1]] = f[p[2]] /\ p[1] < p[2])}
  BY Zenon DEF Nearer
<1>1. \A a, b \in D : <<a, b>> \in Nearer(f)
                      <=> f[a] > f[b] \/ (f[a] = f[b] /\ a < b)
  BY <1>0
<1>2. Nearer(f) \subseteq D \X D
  BY <1>0
<1>3. \A a \in D : a \in Nat /\ f[a] \in Nat
  OBVIOUS
<1>4. \A a, b, c \in D : <<a, b>> \in Nearer(f) /\ <<b, c>> \in Nearer(f) => <<a, c>> \in Nearer(f)
  <2> SUFFICES ASSUME NEW a \in D, NEW b \in D, NEW c \in D,
                      <<a, b>> \in Nearer(f), <<b, c>> \in Nearer(f)
               PROVE  f[a] > f[c] \/ (f[a] = f[c] /\ a < c)
    BY <1>1
  <2>1. f[a] > f[b] \/ (f[a] = f[b] /\ a < b)
    BY <1>1
  <2>2. f[b] > f[c] \/ (f[b] = f[c] /\ b < c)
    BY <1>1
  <2> QED
    BY <1>3, <2>1, <2>2
<1>5. \A a \in D : <<a, a>> \notin Nearer(f)
  BY <1>1, <1>3
<1>6. \A a, b \in D : a # b => <<a, b>> \in Nearer(f) \/ <<b, a>> \in Nearer(f)
  BY <1>1, <1>3
<1> QED
  BY <1>2, <1>4, <1>5, <1>6 DEF TotalOrder

\* The parts by floors, what they leave of each, and the order of it.
LEMMA SplitTypes ==
  ASSUME NEW D \in SUBSET Nat, IsFiniteSet(D), NEW w \in [D -> Nat], Whole(w) > 0,
         NEW total \in Nat
  PROVE  /\ Whole(w) \in Nat \ {0} /\ Left(total, w) \in Int
         /\ Floors(total, w) \in [D -> Nat] /\ Rests(total, w) \in [D -> Nat]
         /\ \A a \in D : /\ Rests(total, w)[a] < Whole(w)
                         /\ total * w[a] = (Whole(w) * Floors(total, w)[a]) + Rests(total, w)[a]
         /\ TotalOrder(D, Nearer(Rests(total, w)))
<1>1. PICK all : all = Whole(w)
  OBVIOUS
<1>2. all \in Nat \ {0}
  <2>1. Sum(w, D) \in Nat
    BY SumNat
  <2> QED
    BY <1>1, <2>1 DEF Whole
<1>3. ASSUME NEW a \in D
      PROVE  /\ Floors(total, w)[a] \in Nat /\ Rests(total, w)[a] \in 0..(all - 1)
             /\ total * w[a] = (all * Floors(total, w)[a]) + Rests(total, w)[a]
  <2>1. PICK n \in Nat : n = total * w[a] /\ n \in Int
    OBVIOUS
  <2>2. n \div all \in Nat /\ n % all \in 0..(all - 1) /\ n = (all * (n \div all)) + (n % all)
    BY <1>2, <2>1, DivMod
  <2>3. Floors(total, w)[a] = n \div all /\ Rests(total, w)[a] = n % all
    BY <1>1, <2>1 DEF Floors, Rests
  <2> QED
    BY <2>1, <2>2, <2>3
<1>4. Floors(total, w) \in [D -> Nat] /\ Rests(total, w) \in [D -> Nat]
  <2>1. /\ Floors(total, w) = [a \in D |-> Floors(total, w)[a]]
        /\ Rests(total, w) = [a \in D |-> Rests(total, w)[a]]
    BY DEF Floors, Rests
  <2> QED
    BY <1>2, <1>3, <2>1
<1>5. Left(total, w) \in Int
  <2>1. Sum(Floors(total, w), D) \in Nat
    BY <1>4, SumNat
  <2> QED
    BY <2>1 DEF Left
<1>6. \A a \in D : Rests(total, w)[a] < all
  BY <1>2, <1>3
<1> QED
  BY <1>1, <1>2, <1>3, <1>4, <1>5, <1>6, NearerIsTotal

\* What floors leave, times the whole, is the sum of the remainders.
LEMMA LeftIsRests ==
  ASSUME NEW D \in SUBSET Nat, IsFiniteSet(D), NEW w \in [D -> Nat], Whole(w) > 0,
         NEW total \in Nat
  PROVE  Whole(w) * Left(total, w) = Sum(Rests(total, w), D)
<1>1. PICK all \in Nat \ {0} : all = Whole(w)
  BY SplitTypes
<1>2. PICK f \in [D -> Nat] : f = Floors(total, w)
  BY SplitTypes
<1>3. PICK r \in [D -> Nat] : r = Rests(total, w)
  BY SplitTypes
<1>4. \A a \in D : total * w[a] = (all * f[a]) + r[a]
  BY <1>1, <1>2, <1>3, SplitTypes
<1> DEFINE gg == [a \in D |-> all * f[a]]
           hh == [a \in D |-> total * w[a]]
<1>5. PICK g, h : /\ \A a \in D : g[a] = all * f[a] /\ h[a] = total * w[a]
                  /\ Adds(g, r, h, D)
  <2>1. \A a \in D : gg[a] = all * f[a] /\ hh[a] = total * w[a]
    OBVIOUS
  <2>2. \A a \in D : gg[a] \in Int /\ r[a] \in Int
    OBVIOUS
  <2>3. \A a \in D : hh[a] = gg[a] + r[a]
    BY <1>4
  <2>4. Adds(gg, r, hh, D)
    BY <2>2, <2>3 DEF Adds
  <2> HIDE DEF gg, hh
  <2> QED
    BY <2>1, <2>4
<1>6. Sum(h, D) = Sum(g, D) + Sum(r, D)
  BY <1>5, SumPlus
<1>7. Sum(h, D) = total * all /\ Sum(g, D) = all * Sum(f, D)
  <2>1. total \in Int /\ \A a \in D : w[a] \in Int /\ h[a] = total * w[a]
    BY <1>5
  <2>2. all \in Int /\ \A a \in D : f[a] \in Int /\ g[a] = all * f[a]
    BY <1>5
  <2>3. Sum(h, D) = total * Sum(w, D)
    BY <2>1, SumTimes
  <2>4. Sum(g, D) = all * Sum(f, D)
    BY <2>2, SumTimes
  <2> QED
    BY <1>1, <2>3, <2>4 DEF Whole
<1>8. Sum(f, D) \in Nat /\ Sum(r, D) \in Nat
  BY SumNat
<1>9. all * (total - Sum(f, D)) = Sum(r, D)
  <2>1. all * (total - Sum(f, D)) = (total * all) - (all * Sum(f, D))
    BY <1>8
  <2> QED
    BY ONLY <1>6, <1>7, <1>8, <2>1, all \in Nat, total \in Nat
<1> QED
  BY <1>1, <1>2, <1>3, <1>9 DEF Left

\* As many are rounded up as zatoshi are left by the floors.
LEMMA UpCount ==
  ASSUME NEW D \in SUBSET Nat, IsFiniteSet(D), NEW w \in [D -> Nat], Whole(w) > 0,
         NEW total \in Nat
  PROVE  /\ Left(total, w) \in Nat
         /\ Up(total, w) \in SUBSET D /\ Cardinality(Up(total, w)) = Left(total, w)
<1>1. PICK all \in Nat \ {0} : all = Whole(w)
  BY SplitTypes
<1>2. PICK r \in [D -> Nat] : r = Rests(total, w) /\ \A a \in D : r[a] <= all
  <2>1. Rests(total, w) \in [D -> Nat] /\ \A a \in D : Rests(total, w)[a] < all
    BY <1>1, SplitTypes
  <2>2. \A a \in D : Rests(total, w)[a] <= all
    BY <2>1
  <2> QED
    BY <2>1, <2>2
<1>3. PICK left \in Int : left = Left(total, w)
  BY SplitTypes
<1>4. all * left = Sum(r, D)
  BY <1>1, <1>2, <1>3, LeftIsRests
<1>5. PICK n \in Nat : n = Cardinality(D)
  BY FS_CardinalityType
<1>6. left \in 0..n
  <2>1. Sum(r, D) \in Nat
    BY SumNat
  <2>2. 0 <= left
    <3>1. all * left < all * 0 => left < 0
      BY TimesMonotonic
    <3>2. left < 0 => all * left < 0
      OBVIOUS
    <3> QED
      BY ONLY <1>4, <2>1, <3>2, left \in Int
  <2>3. Sum(r, D) <= all * n
    <3>1. PICK k : \A a \in D : k[a] = all
      <4>1. \A a \in D : [b \in D |-> all][a] = all
        OBVIOUS
      <4> QED
        BY <4>1
    <3>2. Sum(k, D) = all * n
      <4>1. all \in Int
        OBVIOUS
      <4>2. Sum(k, D) = all * Cardinality(D)
        BY <3>1, <4>1, SumConstant
      <4> QED
        BY <1>5, <4>2
    <3>3. \A a \in D : r[a] \in Int /\ k[a] \in Int /\ r[a] <= k[a]
      BY <1>2, <3>1
    <3>4. Sum(r, D) <= Sum(k, D)
      BY <3>3, SumAtMost
    <3> QED
      BY <3>2, <3>4
  <2>4. left <= n
    <3>1. n < left => all * n < all * left
      <4>1. n < left => n + 1 <= left
        OBVIOUS
      <4>2. n + 1 <= left => all * (n + 1) <= all * left
        BY TimesMonotonic
      <4>3. all * n < all * (n + 1)
        OBVIOUS
      <4>4. all * n \in Int /\ all * (n + 1) \in Int /\ all * left \in Int
        OBVIOUS
      <4> QED
        BY <4>1, <4>2, <4>3, <4>4
    <3> QED
      BY ONLY <1>4, <2>1, <2>3, <3>1, left \in Int, n \in Nat, all \in Nat
  <2> QED
    BY <2>2, <2>4
<1>7. PICK O : O = Nearer(r) /\ TotalOrder(D, O)
  BY <1>2, SplitTypes
<1>8. Up(total, w) = {a \in D : Rank(D, O)[a] < left}
  BY <1>2, <1>3, <1>7 DEF Up
<1>9. Cardinality({a \in D : Rank(D, O)[a] < left}) = left
  BY <1>5, <1>6, <1>7, RankUnder
<1> QED
  BY <1>3, <1>6, <1>8, <1>9

\* Nobody is rounded up who has an exact part.
LEMMA UpHasRest ==
  ASSUME NEW D \in SUBSET Nat, IsFiniteSet(D), NEW w \in [D -> Nat], Whole(w) > 0,
         NEW total \in Nat, NEW a \in Up(total, w)
  PROVE  Rests(total, w)[a] > 0
<1>1. PICK all \in Nat \ {0} : all = Whole(w)
  BY SplitTypes
<1>2. PICK r \in [D -> Nat] : r = Rests(total, w) /\ \A b \in D : r[b] <= all
  <2>1. Rests(total, w) \in [D -> Nat] /\ \A b \in D : Rests(total, w)[b] < all
    BY <1>1, SplitTypes
  <2>2. \A b \in D : Rests(total, w)[b] <= all
    BY <2>1
  <2> QED
    BY <2>1, <2>2
<1>3. PICK left \in Nat : left = Left(total, w)
  BY UpCount
<1>4. all * left = Sum(r, D)
  BY <1>1, <1>2, <1>3, LeftIsRests
<1>5. PICK O : O = Nearer(r) /\ TotalOrder(D, O)
  BY <1>2, SplitTypes
<1>6. a \in D /\ Rank(D, O)[a] < left
  BY <1>2, <1>3, <1>5 DEF Up
<1> SUFFICES ASSUME ~(r[a] > 0)
             PROVE  FALSE
  BY <1>2
<1>7. r[a] = 0
  BY <1>6
<1>8. PICK Q \in SUBSET D : Q = {b \in D : r[b] > 0}
  OBVIOUS
<1>9. PICK m \in Nat : m = Cardinality(Q)
  BY FS_Subset, FS_CardinalityType
<1>10. m < left
  <2>1. Q \in SUBSET Ahead(D, O, a)
    BY <1>5, <1>6, <1>7, <1>8 DEF Ahead, Nearer
  <2>2. IsFiniteSet(Ahead(D, O, a)) /\ Cardinality(Ahead(D, O, a)) \in Nat
    BY FS_Subset, FS_CardinalityType DEF Ahead
  <2>3. m <= Cardinality(Ahead(D, O, a))
    BY <1>9, <2>1, <2>2, FS_Subset
  <2>4. Rank(D, O)[a] = Cardinality(Ahead(D, O, a))
    BY <1>6 DEF Rank
  <2> QED
    BY ONLY <1>6, <2>2, <2>3, <2>4, m \in Nat, left \in Nat
<1>11. Sum(r, D) <= all * m
  <2>1. PICK one : (\A b \in Q : one[b] = 1) /\ (\A b \in D \ Q : one[b] = 0)
    <3>1. \A b \in D : [c \in D |-> IF c \in Q THEN 1 ELSE 0][b] = IF b \in Q THEN 1 ELSE 0
      OBVIOUS
    <3> QED
      BY <3>1
  <2>2. PICK k : \A b \in D : k[b] = all * one[b]
    <3>1. \A b \in D : [c \in D |-> all * one[c]][b] = all * one[b]
      OBVIOUS
    <3> QED
      BY <3>1
  <2>3. Sum(one, D) = m
    BY <1>9, <2>1, SumOnes
  <2>4. \A b \in D : one[b] \in Int
    BY <2>1
  <2>5. Sum(k, D) = all * Sum(one, D)
    <3>1. all \in Int /\ \A b \in D : one[b] \in Int /\ k[b] = all * one[b]
      BY <2>2, <2>4
    <3> QED
      BY <3>1, SumTimes
  <2>6. \A b \in D : r[b] \in Int /\ k[b] \in Int /\ r[b] <= k[b]
    <3> SUFFICES ASSUME NEW b \in D
                 PROVE  r[b] \in Int /\ k[b] \in Int /\ r[b] <= k[b]
      OBVIOUS
    <3>1. r[b] \in Nat /\ r[b] <= all /\ k[b] = all * one[b]
      BY <1>2, <2>2
    <3>2. CASE b \in Q
      BY <2>1, <3>1, <3>2
    <3>3. CASE b \notin Q
      BY <1>8, <2>1, <3>1, <3>3
    <3> QED
      BY <3>2, <3>3
  <2>7. Sum(r, D) <= Sum(k, D)
    BY <2>6, SumAtMost
  <2> QED
    BY <2>3, <2>5, <2>7
<1>12. all * m < all * left
  <2>1. all * (m + 1) <= all * left
    BY <1>10, TimesMonotonic
  <2>2. all * (m + 1) = (all * m) + all /\ all * m \in Int /\ all * left \in Int
    OBVIOUS
  <2> QED
    BY ONLY <2>1, <2>2, all \in Nat \ {0}
<1> QED
  BY ONLY <1>4, <1>11, <1>12, all \in Nat, m \in Nat, left \in Nat

LEMMA SplitIs ==
  ASSUME NEW D \in SUBSET Nat, IsFiniteSet(D), NEW w \in [D -> Nat], Whole(w) > 0,
         NEW total \in Nat \ {0}
  PROVE  SplitByWeight(total, w) =
           [a \in D |-> Floors(total, w)[a] + IF a \in Up(total, w) THEN 1 ELSE 0]
<1>1. DOMAIN w = D /\ Whole(w) # 0
  OBVIOUS
<1>2. \A a \in D : Rank(D, Nearer(Rests(total, w)))[a]
                   = Cardinality({b \in D : \/ Rests(total, w)[b] > Rests(total, w)[a]
                                            \/ /\ Rests(total, w)[b] = Rests(total, w)[a]
                                               /\ b < a})
  <2> SUFFICES ASSUME NEW a \in D
               PROVE  Ahead(D, Nearer(Rests(total, w)), a)
                      = {b \in D : \/ Rests(total, w)[b] > Rests(total, w)[a]
                                   \/ /\ Rests(total, w)[b] = Rests(total, w)[a]
                                      /\ b < a}
    BY DEF Rank
  <2>1. PICK r \in [D -> Nat] : r = Rests(total, w)
    BY SplitTypes
  <2>2. \A b \in D : <<b, a>> \in Nearer(r) <=> r[b] > r[a] \/ (r[b] = r[a] /\ b < a)
    BY DEF Nearer
  <2> QED
    BY <2>1, <2>2 DEF Ahead
<1>3. \A a \in D : a \in Up(total, w)
                   <=> Cardinality({b \in D : \/ Rests(total, w)[b] > Rests(total, w)[a]
                                              \/ /\ Rests(total, w)[b] = Rests(total, w)[a]
                                                 /\ b < a}) < Left(total, w)
  BY <1>1, <1>2 DEF Up
<1> QED
  BY <1>1, <1>3 DEF SplitByWeight, Whole, Floors, Rests, Left

\* The parts are whole zatoshi, and together they are the total.
LEMMA SplitExact ==
  ASSUME NEW D \in SUBSET Nat, IsFiniteSet(D), NEW w \in [D -> Nat],
         NEW total \in Nat, total = 0 \/ Whole(w) > 0
  PROVE  SplitByWeight(total, w) \in [D -> Nat] /\ Sum(SplitByWeight(total, w), D) = total
<1>1. CASE total = 0
  <2>1. SplitByWeight(total, w) = [a \in D |-> 0]
    BY <1>1 DEF SplitByWeight
  <2>2. Sum([a \in D |-> 0], D) = 0
    <3>1. \A a \in D : [b \in D |-> 0][a] = 0
      OBVIOUS
    <3> QED
      BY <3>1, SumZero
  <2>3. [a \in D |-> 0] \in [D -> Nat]
    OBVIOUS
  <2> QED
    BY <1>1, <2>1, <2>2, <2>3
<1>2. CASE total # 0 /\ Whole(w) > 0
  <2>1. PICK f \in [D -> Nat] : f = Floors(total, w)
    BY <1>2, SplitTypes
  <2>2. PICK U \in SUBSET D : U = Up(total, w)
    BY <1>2, UpCount
  <2>3. PICK one : /\ \A a \in D : one[a] = IF a \in U THEN 1 ELSE 0
                   /\ \A a \in D : one[a] \in Nat
    <3>1. \A a \in D : [b \in D |-> IF b \in U THEN 1 ELSE 0][a] = IF a \in U THEN 1 ELSE 0
      OBVIOUS
    <3>2. \A a \in D : [b \in D |-> IF b \in U THEN 1 ELSE 0][a] \in Nat
      OBVIOUS
    <3> QED
      BY <3>1, <3>2
  <2>4. PICK g : g = SplitByWeight(total, w) /\ g = [a \in D |-> f[a] + one[a]]
    <3>1. total \in Nat \ {0}
      BY <1>2
    <3>2. SplitByWeight(total, w) = [a \in D |-> f[a] + IF a \in U THEN 1 ELSE 0]
      BY <1>2, <2>1, <2>2, <3>1, SplitIs
    <3> QED
      BY <2>3, <3>2
  <2>5. Sum(one, D) = Left(total, w) /\ Left(total, w) \in Nat
    <3>1. (\A a \in U : one[a] = 1) /\ (\A a \in D \ U : one[a] = 0)
      BY <2>3
    <3>2. Sum(one, D) = Cardinality(U)
      BY <3>1, SumOnes
    <3> QED
      BY <1>2, <2>2, <3>2, UpCount
  <2>6. Sum(f, D) \in Nat
    BY SumNat
  <2>7. Left(total, w) = total - Sum(f, D)
    BY <2>1 DEF Left
  <2>8. \A a \in D : f[a] \in Int /\ one[a] \in Int /\ g[a] = f[a] + one[a]
    <3>1. \A a \in D : f[a] \in Int /\ one[a] \in Int
      BY <2>3
    <3>2. \A a \in D : g[a] = f[a] + one[a]
      BY <2>4
    <3> QED
      BY <3>1, <3>2
  <2>9. Sum(g, D) = Sum(f, D) + Sum(one, D)
    <3>1. Adds(f, one, g, D)
      BY <2>8 DEF Adds
    <3> QED
      BY <3>1, SumPlus
  <2>10. Sum(g, D) = total
    BY ONLY <2>5, <2>6, <2>7, <2>9, total \in Nat
  <2>11. g \in [D -> Nat]
    <3>1. \A a \in D : f[a] + one[a] \in Nat
      BY <2>3
    <3> QED
      BY <2>4, <3>1
  <2> QED
    BY <2>4, <2>10, <2>11
<1> QED
  BY <1>1, <1>2

\* By how much an account's part, times the whole, is over its exact part.
Over(total, w, a) == (SplitByWeight(total, w)[a] * Whole(w)) - (total * w[a])

LEMMA OverIs ==
  ASSUME NEW D \in SUBSET Nat, IsFiniteSet(D), NEW w \in [D -> Nat], Whole(w) > 0,
         NEW total \in Nat \ {0}, NEW a \in D
  PROVE  Over(total, w, a) = (IF a \in Up(total, w) THEN Whole(w) ELSE 0) - Rests(total, w)[a]
<1>0. total \in Nat
  OBVIOUS
<1>1. PICK all \in Nat \ {0} : all = Whole(w)
  BY <1>0, SplitTypes
<1>2. PICK x, r \in Nat : /\ x = Floors(total, w)[a] /\ r = Rests(total, w)[a]
                          /\ total * w[a] = (all * x) + r
  <2>1. Floors(total, w) \in [D -> Nat] /\ Rests(total, w) \in [D -> Nat]
    BY <1>0, SplitTypes
  <2>2. Floors(total, w)[a] \in Nat /\ Rests(total, w)[a] \in Nat
    BY <2>1
  <2>3. total * w[a] = (all * Floors(total, w)[a]) + Rests(total, w)[a]
    BY <1>0, <1>1, SplitTypes
  <2> QED
    BY <2>2, <2>3
<1>3. SplitByWeight(total, w)[a] = x + IF a \in Up(total, w) THEN 1 ELSE 0
  BY <1>2, SplitIs
<1>4. CASE a \in Up(total, w)
  <2>1. Over(total, w, a) = ((x + 1) * all) - ((all * x) + r)
    BY <1>1, <1>2, <1>3, <1>4 DEF Over
  <2>2. ((x + 1) * all) - ((all * x) + r) = all - r
    BY ONLY x \in Nat, r \in Nat, all \in Nat
  <2> QED
    BY <1>1, <1>2, <1>4, <2>1, <2>2
<1>5. CASE a \notin Up(total, w)
  <2>1. Over(total, w, a) = ((x + 0) * all) - ((all * x) + r)
    BY <1>1, <1>2, <1>3, <1>5 DEF Over
  <2>2. ((x + 0) * all) - ((all * x) + r) = 0 - r
    BY ONLY x \in Nat, r \in Nat, all \in Nat
  <2> QED
    BY <1>1, <1>2, <1>5, <2>1, <2>2
<1> QED
  BY <1>4, <1>5

\* Who is before somebody that is rounded up is rounded up.
LEMMA UpIsFirst ==
  ASSUME NEW D \in SUBSET Nat, IsFiniteSet(D), NEW w \in [D -> Nat], Whole(w) > 0,
         NEW total \in Nat, NEW a \in D, NEW b \in Up(total, w),
         LET r == Rests(total, w) IN r[a] > r[b] \/ (r[a] = r[b] /\ a < b)
  PROVE  a \in Up(total, w)
<1>1. PICK r \in [D -> Nat] : r = Rests(total, w)
  BY SplitTypes
<1>2. PICK O : O = Nearer(r) /\ TotalOrder(D, O)
  BY <1>1, SplitTypes
<1>3. b \in D /\ Rank(D, O)[b] < Left(total, w)
  BY <1>1, <1>2 DEF Up
<1>4. <<a, b>> \in O
  BY <1>1, <1>2, <1>3 DEF Nearer
<1>5. Rank(D, O)[a] < Rank(D, O)[b]
  BY <1>2, <1>3, <1>4, RankOrdered
<1>6. Rank(D, O)[a] \in Int /\ Rank(D, O)[b] \in Int
  <2>1. Rank(D, O) \in [D -> 0..(Cardinality(D) - 1)]
    BY <1>2, RankType DEF Injection
  <2> QED
    BY <1>3, <2>1
<1>7. Left(total, w) \in Int
  BY SplitTypes
<1>8. Rank(D, O)[a] < Left(total, w)
  BY ONLY <1>3, <1>5, <1>6, <1>7
<1> QED
  BY <1>1, <1>2, <1>8 DEF Up

LEMMA SplitFair ==
  ASSUME NEW D \in SUBSET Nat, IsFiniteSet(D), NEW w \in [D -> Nat], Whole(w) > 0,
         NEW total \in Nat \ {0}, NEW a \in D, NEW b \in D
  PROVE  /\ Over(total, w, a) \in (1 - Whole(w))..(Whole(w) - 1)
         /\ w[a] > w[b] => SplitByWeight(total, w)[a] >= SplitByWeight(total, w)[b]
         /\ Over(total, w, a) > 0 /\ Over(total, w, b) < 0
            => Over(total, w, a) - Over(total, w, b) <= Whole(w)
<1>0. total \in Nat
  OBVIOUS
<1>1. PICK all \in Nat \ {0} : all = Whole(w)
  BY <1>0, SplitTypes
<1>2. PICK r \in [D -> Nat] : r = Rests(total, w) /\ \A c \in D : r[c] < all
  BY <1>0, <1>1, SplitTypes
<1>3. PICK U \in SUBSET D : U = Up(total, w)
  BY <1>0, UpCount
<1>4. PICK f \in [D -> Nat] : /\ f = Floors(total, w)
                              /\ \A c \in D : total * w[c] = (all * f[c]) + r[c]
  <2>1. Floors(total, w) \in [D -> Nat]
    BY <1>0, SplitTypes
  <2>2. \A c \in D : total * w[c] = (all * Floors(total, w)[c]) + r[c]
    BY <1>0, <1>1, <1>2, SplitTypes
  <2> QED
    BY <2>1, <2>2
<1>5. \A c \in D : Over(total, w, c) = (IF c \in U THEN all ELSE 0) - r[c]
  BY <1>1, <1>2, <1>3, OverIs
<1>6. \A c \in U : r[c] > 0
  BY <1>0, <1>2, <1>3, UpHasRest
<1>7. \A c, d \in D : d \in U /\ (r[c] > r[d] \/ (r[c] = r[d] /\ c < d)) => c \in U
  BY <1>0, <1>2, <1>3, UpIsFirst
<1>8. Over(total, w, a) \in (1 - all)..(all - 1)
  <2>1. r[a] \in Nat /\ r[a] < all
    BY <1>2
  <2>2. CASE a \in U
    <3>1. r[a] > 0 /\ Over(total, w, a) = all - r[a]
      BY <1>5, <1>6, <2>2
    <3> QED
      BY <2>1, <3>1
  <2>3. CASE a \notin U
    <3>1. Over(total, w, a) = 0 - r[a]
      BY <1>5, <2>3
    <3> QED
      BY <2>1, <3>1
  <2> QED
    BY <2>2, <2>3
<1>9. ASSUME w[a] > w[b]
      PROVE  SplitByWeight(total, w)[a] >= SplitByWeight(total, w)[b]
  <2>0. PICK g : /\ g = SplitByWeight(total, w)
                 /\ \A c \in D : g[c] = f[c] + IF c \in U THEN 1 ELSE 0
    BY <1>3, <1>4, SplitIs
  <2>1. f[a] \in Nat /\ f[b] \in Nat /\ r[a] \in Nat /\ r[b] \in Nat /\ r[b] < all /\ r[a] < all
    BY <1>2
  <2>2. total * w[a] > total * w[b]
    <3>1. w[a] \in Nat /\ w[b] \in Nat
      OBVIOUS
    <3> QED
      BY ONLY <1>9, <3>1, total \in Nat \ {0}
  <2>3. (all * f[a]) + r[a] > (all * f[b]) + r[b]
    BY <1>4, <2>2
  <2>4. f[b] <= f[a]
    <3>1. f[a] < f[b] => all * (f[a] + 1) <= all * f[b]
      BY <2>1, TimesMonotonic
    <3>2. all * (f[a] + 1) = (all * f[a]) + all /\ all * f[a] \in Int /\ all * f[b] \in Int
      BY <2>1
    <3> QED
      BY ONLY <2>1, <2>3, <3>1, <3>2, all \in Nat
  <2>5. CASE f[b] < f[a]
    <3>1. g[a] = f[a] \/ g[a] = f[a] + 1
      BY <2>0
    <3>2. g[b] = f[b] \/ g[b] = f[b] + 1
      BY <2>0
    <3>3. g[a] >= g[b]
      BY ONLY <2>1, <2>5, <3>1, <3>2
    <3> QED
      BY <2>0, <3>3
  <2>6. CASE f[b] = f[a]
    <3>1. r[a] > r[b]
      <4>1. all * f[a] \in Int /\ all * f[a] = all * f[b]
        BY <2>1, <2>6
      <4> QED
        BY ONLY <2>1, <2>3, <4>1
    <3>2. b \in U => a \in U
      BY <1>7, <3>1
    <3>3. g[a] >= g[b]
      BY <2>0, <2>1, <2>6, <3>2
    <3> QED
      BY <2>0, <3>3
  <2> QED
    BY <2>1, <2>4, <2>5, <2>6
<1>10. ASSUME Over(total, w, a) > 0, Over(total, w, b) < 0
       PROVE  Over(total, w, a) - Over(total, w, b) <= all
  <2>1. r[a] \in Nat /\ r[b] \in Nat /\ r[b] < all /\ r[a] < all
    BY <1>2
  <2>2. a \in U /\ Over(total, w, a) = all - r[a]
    <3>1. a \notin U => Over(total, w, a) = 0 - r[a]
      BY <1>5
    <3>2. a \in U => Over(total, w, a) = all - r[a]
      BY <1>5
    <3> QED
      BY ONLY <1>10, <2>1, <3>1, <3>2
  <2>3. b \notin U /\ Over(total, w, b) = 0 - r[b]
    <3>1. b \notin U => Over(total, w, b) = 0 - r[b]
      BY <1>5
    <3>2. b \in U => Over(total, w, b) = all - r[b]
      BY <1>5
    <3> QED
      BY ONLY <1>10, <2>1, <3>1, <3>2, all \in Nat
  <2>4. r[b] <= r[a]
    <3>1. ~(r[b] > r[a])
      BY <1>7, <2>2, <2>3
    <3> QED
      BY <2>1, <3>1
  <2> QED
    BY ONLY <2>1, <2>2, <2>3, <2>4, all \in Nat
<1> QED
  BY <1>1, <1>8, <1>9, <1>10

-----------------------------------------------------------------------------
(* Payouts: types.                                                         *)

EntryRec == [weight : Nat, gross : Nat, fee : Nat, carriedIn : Int, amount : Nat,
             carriedOut : Int]
EntriesOf == UNION {[D -> EntryRec] : D \in SUBSET Account}
RoundRec == [start : Nat, end : Nat, total : Nat, entries : EntriesOf]

Shape ==
  /\ earned \in [Account -> [Time -> Nat]]
  /\ buckets \in [Account -> [Time -> Nat]]
  /\ rounds \in Seq(RoundRec)
  /\ planned \in [Proc -> {<<>>} \cup {<<r>> : r \in RoundRec}]
  /\ now \in Time

\* What is planned and what is recorded.
Held == {rounds[i] : i \in DOMAIN rounds} \cup {planned[p][1] : p \in {q \in Proc : planned[q] # <<>>}}

LEMMA Bounds ==
  /\ Account \in SUBSET Nat /\ IsFiniteSet(Account)
  /\ Bucket \in Nat \ {0} /\ MinPayout \in Nat
  /\ Late \in Nat /\ Grace \in Nat /\ MaxTime \in Nat
  /\ \A w \in Weight : w \in Nat \ {0}
  /\ \A win \in Window : win[1] \in Nat /\ win[2] \in Nat /\ win = <<win[1], win[2]>>
  /\ \A t \in Total : t \in Nat
  /\ \A b \in Bps : b \in 0..BasisPoints
<1>1. /\ Account \in SUBSET Nat /\ IsFiniteSet(Account)
      /\ Bucket \in Nat \ {0} /\ MinPayout \in Nat
  BY PayoutsAssumption
<1>2. Late \in Nat /\ Grace \in Nat /\ MaxTime \in Nat
  <2>1. {Late, Grace, MaxShares, MaxTime} \subseteq Nat
    BY PayoutsAssumption
  <2> QED
    BY ONLY <2>1
<1>3. \A win \in Window : win[1] \in Nat /\ win[2] \in Nat /\ win = <<win[1], win[2]>>
  <2>1. Window \subseteq Nat \X Nat
    BY PayoutsAssumption
  <2> QED
    BY ONLY <2>1
<1>4. /\ \A w \in Weight : w \in Nat \ {0}
      /\ \A t \in Total : t \in Nat
      /\ \A b \in Bps : b \in 0..BasisPoints
  <2>1. Weight \subseteq Nat \ {0}
    BY PayoutsAssumption
  <2>2. Total \subseteq Nat
    BY PayoutsAssumption
  <2>3. Bps \subseteq 0..BasisPoints
    BY PayoutsAssumption
  <2>4. \A w \in Weight : w \in Nat \ {0}
    BY ONLY <2>1
  <2>5. \A t \in Total : t \in Nat
    BY ONLY <2>2
  <2>6. \A b \in Bps : b \in 0..BasisPoints
    BY ONLY <2>3
  <2> QED
    BY ONLY <2>4, <2>5, <2>6
<1> QED
  BY <1>1, <1>2, <1>3, <1>4

LEMMA EntryField ==
  ASSUME NEW r \in RoundRec, NEW a \in DOMAIN r.entries
  PROVE  a \in Account /\ r.entries[a] \in EntryRec
BY DEF RoundRec, EntriesOf

LEMMA RoundEntries ==
  ASSUME NEW r \in RoundRec
  PROVE  /\ DOMAIN r.entries \in SUBSET Account /\ IsFiniteSet(DOMAIN r.entries)
         /\ r.entries \in [DOMAIN r.entries -> EntryRec]
<1>1. PICK D \in SUBSET Account : r.entries \in [D -> EntryRec]
  BY DEF RoundRec, EntriesOf
<1>2. IsFiniteSet(D)
  BY Bounds, FS_Subset
<1> QED
  BY <1>1, <1>2

LEMMA RoundsIndexed ==
  ASSUME Shape
  PROVE  /\ Len(rounds) \in Nat /\ DOMAIN rounds = 1..Len(rounds)
         /\ IsFiniteSet(DOMAIN rounds) /\ \A i \in DOMAIN rounds : rounds[i] \in RoundRec
<1>1. Len(rounds) \in Nat /\ DOMAIN rounds = 1..Len(rounds)
  BY DEF Shape
<1>2. IsFiniteSet(1..Len(rounds))
  BY <1>1, FS_Interval
<1> QED
  BY <1>1, <1>2 DEF Shape

\* What one round adds to an account's balance.
Carry(r, a) == IF a \in DOMAIN r.entries
               THEN r.entries[a].carriedOut - r.entries[a].carriedIn ELSE 0

LEMMA CarryType ==
  ASSUME NEW r \in RoundRec, NEW a \in Account
  PROVE  Carry(r, a) \in Int
BY EntryField DEF Carry, EntryRec

LEMMA CarriedIs ==
  ASSUME NEW a
  PROVE  Carried(a) = Sum([i \in DOMAIN rounds |-> Carry(rounds[i], a)], DOMAIN rounds)
BY DEF Carried, Carry

LEMMA CarriedType ==
  ASSUME Shape, NEW a \in Account
  PROVE  Carried(a) \in Int
<1>1. \A i \in DOMAIN rounds : [j \in DOMAIN rounds |-> Carry(rounds[j], a)][i] \in Int
  BY RoundsIndexed, CarryType
<1>2. Sum([i \in DOMAIN rounds |-> Carry(rounds[i], a)], DOMAIN rounds) \in Int
  BY <1>1, RoundsIndexed, SumType
<1> QED
  BY <1>2, CarriedIs

LEMMA WeightInType ==
  ASSUME Shape, NEW a \in Account, NEW s \in Time, NEW e \in Time
  PROVE  WeightIn(a, s, e) \in Nat /\ IsFiniteSet(s..(e - 1))
<1>1. s..(e - 1) \subseteq Time /\ s \in Int /\ e - 1 \in Int
  BY Bounds DEF Time
<1>2. IsFiniteSet(s..(e - 1))
  BY <1>1, FS_Interval
<1>3. \A t \in s..(e - 1) : buckets[a][t] \in Nat
  BY <1>1 DEF Shape
<1> QED
  BY <1>2, <1>3, SumNat DEF WeightIn

-----------------------------------------------------------------------------
(* One entry, and one round.                                               *)

Balanced(e) ==
  /\ e.fee <= e.gross
  /\ e.amount + e.carriedOut = e.gross - e.fee + e.carriedIn
  /\ e.amount = 0 \/ e.carriedOut = 0
  /\ e.carriedOut < MinPayout \/ e.carriedOut <= 0

LEMMA EntrySound ==
  ASSUME NEW weight \in Nat, NEW gross \in Nat, NEW bps \in Bps, NEW carried \in Int
  PROVE  LET e == Entry(weight, gross, bps, carried)
         IN  e \in EntryRec /\ Balanced(e) /\ e.weight = weight /\ e.gross = gross
                            /\ e.carriedIn = carried
<1>1. PICK cut \in Nat : cut = (gross * bps) \div BasisPoints /\ cut <= gross
  <2>0. BasisPoints \in Nat \ {0}
    BY DEF BasisPoints
  <2>1. bps \in Nat /\ bps <= BasisPoints
    <3>1. bps \in 0..BasisPoints
      BY Bounds
    <3> QED
      BY <2>0, <3>1
  <2>2. PICK n \in Nat : n = gross * bps /\ n <= gross * BasisPoints
    <3>1. gross * bps \in Nat /\ gross * bps <= gross * BasisPoints
      BY <2>0, <2>1
    <3> QED
      BY <3>1
  <2>3. PICK q \in Nat : q = n \div BasisPoints /\ BasisPoints * q <= n
    BY DivMod, <2>0
  <2>4. q <= gross
    <3>1. gross + 1 <= q => BasisPoints * (gross + 1) <= BasisPoints * q
      BY <2>0, TimesMonotonic
    <3>2. BasisPoints * (gross + 1) = gross * BasisPoints + BasisPoints
      BY <2>0
    <3>3. BasisPoints * (gross + 1) \in Int /\ BasisPoints * q \in Int
          /\ gross * BasisPoints \in Int
      BY <2>0
    <3> QED
      BY <2>0, <2>2, <2>3, <3>1, <3>2, <3>3
  <2> QED
    BY <2>2, <2>3, <2>4
<1>2. PICK owed \in Int : owed = gross - cut + carried
  OBVIOUS
<1>3. PICK e : e = Entry(weight, gross, bps, carried)
  OBVIOUS
<1>4. e = [weight |-> weight, gross |-> gross, fee |-> cut, carriedIn |-> carried,
           amount |-> IF Pays(owed) THEN owed ELSE 0,
           carriedOut |-> IF Pays(owed) THEN 0 ELSE owed]
  BY <1>1, <1>2, <1>3 DEF Entry
<1>5. Pays(owed) => owed \in Nat
  BY DEF Pays
<1>6. e \in EntryRec
  BY <1>4, <1>5 DEF EntryRec
<1>7. Balanced(e)
  <2>1. /\ e.gross = gross /\ e.fee = cut /\ e.carriedIn = carried
        /\ e.amount = IF Pays(owed) THEN owed ELSE 0
        /\ e.carriedOut = IF Pays(owed) THEN 0 ELSE owed
    BY <1>4
  <2>2. CASE Pays(owed)
    BY <1>1, <1>2, <2>1, <2>2 DEF Balanced
  <2>3. CASE ~Pays(owed)
    <3>1. owed < MinPayout \/ owed <= 0
      BY <2>3, Bounds DEF Pays
    <3> QED
      BY <1>1, <1>2, <2>1, <2>3, <3>1 DEF Balanced
  <2> QED
    BY <2>2, <2>3
<1> QED
  BY <1>3, <1>4, <1>6, <1>7

\* The parts of RoundConserves and SplitFollowsWork that are about one round.
Conserves(r) ==
  /\ r.total = Of(r, "gross")
  /\ Of(r, "amount") + Of(r, "carriedOut") = r.total - Of(r, "fee") + Of(r, "carriedIn")

Follows(r) ==
  \A a, b \in DOMAIN r.entries :
    LET all == Of(r, "weight")  x == r.entries[a]  y == r.entries[b]
        Excess(e) == e.gross * all - r.total * e.weight
    IN r.total > 0 =>
         /\ Excess(x) \in (1 - all)..(all - 1)
         /\ x.weight > y.weight => x.gross >= y.gross
         /\ Excess(x) > 0 /\ Excess(y) < 0 => Excess(x) - Excess(y) <= all

AllBalanced(r) == \A a \in DOMAIN r.entries : Balanced(r.entries[a])

Sound(r) ==
  /\ <<r.start, r.end>> \in Window /\ r.total \in Total
  /\ AllBalanced(r) /\ Conserves(r) /\ Follows(r)

\* What every entry balances, the round balances.
LEMMA BalancedConserves ==
  ASSUME NEW r \in RoundRec, AllBalanced(r), r.total = Of(r, "gross")
  PROVE  Conserves(r)
<1>1. PICK D \in SUBSET Account : D = DOMAIN r.entries /\ IsFiniteSet(D)
  BY RoundEntries
<1> DEFINE F(field) == [a \in D |-> r.entries[a][field]]
<1>2. PICK gross, cut, amount, in, out :
        /\ gross = F("gross") /\ cut = F("fee") /\ amount = F("amount")
        /\ in = F("carriedIn") /\ out = F("carriedOut")
  OBVIOUS
<1>3. /\ Of(r, "gross") = Sum(gross, D) /\ Of(r, "fee") = Sum(cut, D)
      /\ Of(r, "amount") = Sum(amount, D)
      /\ Of(r, "carriedIn") = Sum(in, D) /\ Of(r, "carriedOut") = Sum(out, D)
  BY <1>1, <1>2 DEF Of
<1>4. \A a \in D : /\ gross[a] = r.entries[a].gross /\ cut[a] = r.entries[a].fee
                   /\ amount[a] = r.entries[a].amount
                   /\ in[a] = r.entries[a].carriedIn /\ out[a] = r.entries[a].carriedOut
  BY <1>2
<1>5. \A a \in D : /\ gross[a] \in Int /\ cut[a] \in Int /\ amount[a] \in Int
                   /\ in[a] \in Int /\ out[a] \in Int
  BY <1>1, <1>4, EntryField DEF EntryRec
<1>6. \A a \in D : amount[a] + out[a] = gross[a] - cut[a] + in[a]
  BY <1>1, <1>4 DEF AllBalanced, Balanced
<1> HIDE DEF F
<1>7. PICK net : \A a \in D : net[a] = gross[a] - cut[a]
  <2>1. \A a \in D : [b \in D |-> gross[b] - cut[b]][a] = gross[a] - cut[a]
    OBVIOUS
  <2> QED
    BY <2>1
<1>8. PICK both : \A a \in D : both[a] = amount[a] + out[a]
  <2>1. \A a \in D : [b \in D |-> amount[b] + out[b]][a] = amount[a] + out[a]
    OBVIOUS
  <2> QED
    BY <2>1
<1>9. Adds(net, cut, gross, D)
  BY ONLY <1>5, <1>7 DEF Adds
<1>10. Adds(amount, out, both, D)
  BY ONLY <1>5, <1>8 DEF Adds
<1>11. Adds(net, in, both, D)
  BY ONLY <1>5, <1>6, <1>7, <1>8 DEF Adds
<1>12. /\ Sum(gross, D) = Sum(net, D) + Sum(cut, D)
       /\ Sum(both, D) = Sum(amount, D) + Sum(out, D)
       /\ Sum(both, D) = Sum(net, D) + Sum(in, D)
  BY <1>1, <1>9, <1>10, <1>11, SumPlus
<1>13. Sum(net, D) \in Int /\ Sum(cut, D) \in Int /\ Sum(in, D) \in Int
  <2>1. \A a \in D : net[a] \in Int
    BY <1>5, <1>7
  <2>2. (\A a \in D : cut[a] \in Int) /\ (\A a \in D : in[a] \in Int)
    BY <1>5
  <2> QED
    BY <1>1, <2>1, <2>2, SumType
<1>14. Sum(amount, D) + Sum(out, D) = Sum(gross, D) - Sum(cut, D) + Sum(in, D)
  BY ONLY <1>12, <1>13
<1> QED
  BY <1>3, <1>14 DEF Conserves

-----------------------------------------------------------------------------
(* What plan() computes.                                                   *)

Drawn(s, e, total, bps) ==
  LET who == Subjects(s, e)
      w == [a \in who |-> WeightIn(a, s, e)]
      gross == SplitByWeight(total, w)
  IN [start |-> s, end |-> e, total |-> total,
      entries |-> [a \in who |-> Entry(w[a], gross[a], bps[a], Carried(a))]]

LEMMA PlanIs ==
  ASSUME NEW p, NEW s, NEW e, NEW total, NEW bps, Plan(p, s, e, total, bps)
  PROVE  /\ planned[p] = <<>> /\ now >= e + Grace /\ s < e /\ Aligned(s) /\ Aligned(e)
         /\ total = 0 \/ Whole([a \in Subjects(s, e) |-> WeightIn(a, s, e)]) > 0
         /\ planned' = [planned EXCEPT ![p] = <<Drawn(s, e, total, bps)>>]
         /\ UNCHANGED <<earned, buckets, rounds, count, now>>
BY DEF Plan, Drawn, Whole

LEMMA PlanDraws ==
  ASSUME NEW p, NEW s, NEW e, NEW total, NEW bps, Plan(p, s, e, total, bps)
  PROVE  /\ planned' = [planned EXCEPT ![p] = <<Drawn(s, e, total, bps)>>]
         /\ UNCHANGED <<earned, buckets, rounds, now>>
BY DEF Plan, Drawn

\* An account's part of the window, of the total, and its entry.
PartsOf(r, s, e, total, bps, D, w, gross) ==
  /\ D \in SUBSET Account /\ IsFiniteSet(D) /\ D = Subjects(s, e)
  /\ w \in [D -> Nat] /\ (\A a \in D : w[a] = WeightIn(a, s, e))
  /\ gross \in [D -> Nat] /\ gross = SplitByWeight(total, w) /\ Sum(gross, D) = total
  /\ total = 0 \/ Whole(w) > 0
  /\ DOMAIN r.entries = D
  /\ \A a \in D : r.entries[a] = Entry(w[a], gross[a], bps[a], Carried(a))

LEMMA DrawnIs ==
  ASSUME Shape, NEW s \in Time, NEW e \in Time, NEW total \in Nat, NEW bps \in Rates,
         total = 0 \/ Whole([a \in Subjects(s, e) |-> WeightIn(a, s, e)]) > 0
  PROVE  \E D, w, gross :
           PartsOf(Drawn(s, e, total, bps), s, e, total, bps, D, w, gross)
<1>1. PICK D \in SUBSET Account : D = Subjects(s, e)
  BY DEF Subjects
<1>2. D \in SUBSET Nat /\ IsFiniteSet(D)
  BY Bounds, FS_Subset
<1>3. PICK w \in [D -> Nat] : w = [a \in D |-> WeightIn(a, s, e)]
  <2>1. \A a \in D : WeightIn(a, s, e) \in Nat
    BY WeightInType
  <2> QED
    BY <2>1
<1>4. total = 0 \/ Whole(w) > 0
  BY <1>1, <1>3
<1>5. PICK gross \in [D -> Nat] : gross = SplitByWeight(total, w) /\ Sum(gross, D) = total
  BY <1>2, <1>4, SplitExact
<1>6. Drawn(s, e, total, bps).entries
        = [a \in D |-> Entry(w[a], gross[a], bps[a], Carried(a))]
  BY <1>1, <1>3, <1>5 DEF Drawn
<1>7. \A a \in D : w[a] = WeightIn(a, s, e)
  BY <1>3
<1>8. /\ DOMAIN Drawn(s, e, total, bps).entries = D
      /\ \A a \in D : Drawn(s, e, total, bps).entries[a]
                      = Entry(w[a], gross[a], bps[a], Carried(a))
  BY <1>6
<1> QED
  BY <1>1, <1>2, <1>4, <1>5, <1>7, <1>8 DEF PartsOf

LEMMA DrawnSound ==
  ASSUME Shape, NEW s \in Time, NEW e \in Time, <<s, e>> \in Window, NEW total \in Total,
         NEW bps \in Rates,
         total = 0 \/ Whole([a \in Subjects(s, e) |-> WeightIn(a, s, e)]) > 0
  PROVE  LET r == Drawn(s, e, total, bps) IN r \in RoundRec /\ Sound(r)
<1>0. total \in Nat /\ s \in Nat /\ e \in Nat
  BY Bounds DEF Time
<1>1. PICK r : r = Drawn(s, e, total, bps)
  OBVIOUS
<1>2. PICK D, w, gross : PartsOf(r, s, e, total, bps, D, w, gross)
  BY <1>0, <1>1, DrawnIs
<1> USE <1>2 DEF PartsOf
<1>3. r.start = s /\ r.end = e /\ r.total = total
  BY <1>1 DEF Drawn
<1>4. \A a \in D : LET x == r.entries[a] IN
                   x \in EntryRec /\ Balanced(x) /\ x.weight = w[a] /\ x.gross = gross[a]
  <2> SUFFICES ASSUME NEW a \in D
               PROVE  LET x == Entry(w[a], gross[a], bps[a], Carried(a)) IN
                      x \in EntryRec /\ Balanced(x) /\ x.weight = w[a] /\ x.gross = gross[a]
    BY <1>2
  <2>1. w[a] \in Nat /\ gross[a] \in Nat /\ bps[a] \in Bps /\ Carried(a) \in Int
    BY <1>2, CarriedType DEF Rates
  <2>2. PICK wa \in Nat, ga \in Nat, ba \in Bps, ca \in Int :
               wa = w[a] /\ ga = gross[a] /\ ba = bps[a] /\ ca = Carried(a)
    BY <2>1
  <2>3. LET x == Entry(wa, ga, ba, ca) IN
        x \in EntryRec /\ Balanced(x) /\ x.weight = wa /\ x.gross = ga
    BY EntrySound
  <2> QED
    BY <2>2, <2>3
<1>5. r \in RoundRec
  <2>1. PICK f : f = r.entries
    OBVIOUS
  <2>2. f = [a \in D |-> Entry(w[a], gross[a], bps[a], Carried(a))]
    <3>1. f = [a \in Subjects(s, e) |-> f[a]]
      BY <1>1, <2>1 DEF Drawn
    <3> QED
      BY <1>2, <2>1, <3>1
  <2>3. f \in [D -> EntryRec]
    BY <1>2, <1>4, <2>1, <2>2
  <2>4. f \in EntriesOf
    BY <1>2, <2>3 DEF EntriesOf
  <2>5. r = [start |-> s, end |-> e, total |-> total, entries |-> f]
    BY <1>1, <2>1 DEF Drawn
  <2> QED
    BY <1>0, <2>4, <2>5 DEF RoundRec
<1>6. Of(r, "gross") = total /\ Of(r, "weight") = Sum(w, D)
  <2>1. \A a \in D : gross[a] \in Int /\ [b \in D |-> r.entries[b]["gross"]][a] = gross[a]
    BY <1>2, <1>4
  <2>2. Sum([b \in D |-> r.entries[b]["gross"]], D) = Sum(gross, D)
    BY <1>2, <2>1, SumSame
  <2>3. \A a \in D : w[a] \in Int /\ [b \in D |-> r.entries[b]["weight"]][a] = w[a]
    BY <1>2, <1>4
  <2>4. Sum([b \in D |-> r.entries[b]["weight"]], D) = Sum(w, D)
    BY <1>2, <2>3, SumSame
  <2> QED
    BY <1>2, <2>2, <2>4 DEF Of
<1>7. AllBalanced(r)
  BY <1>2, <1>4 DEF AllBalanced
<1>8. Conserves(r)
  BY <1>3, <1>5, <1>6, <1>7, BalancedConserves
<1>9. Follows(r)
  <2> SUFFICES ASSUME NEW a \in D, NEW b \in D, total > 0
               PROVE  LET all == Whole(w)  x == r.entries[a]  y == r.entries[b]
                          Excess(z) == z.gross * all - total * z.weight
                      IN /\ Excess(x) \in (1 - all)..(all - 1)
                         /\ x.weight > y.weight => x.gross >= y.gross
                         /\ Excess(x) > 0 /\ Excess(y) < 0 => Excess(x) - Excess(y) <= all
    <3>1. Of(r, "weight") = Whole(w)
      BY <1>2, <1>6 DEF Whole
    <3> QED
      BY <1>2, <1>3, <3>1 DEF Follows
  <2>1. D \in SUBSET Nat /\ Whole(w) > 0 /\ total \in Nat \ {0}
    BY <1>0, <1>2, Bounds
  <2>2. /\ Over(total, w, a) \in (1 - Whole(w))..(Whole(w) - 1)
        /\ w[a] > w[b] => gross[a] >= gross[b]
        /\ Over(total, w, a) > 0 /\ Over(total, w, b) < 0
           => Over(total, w, a) - Over(total, w, b) <= Whole(w)
    BY <1>2, <2>1, SplitFair
  <2>3. /\ Over(total, w, a) = gross[a] * Whole(w) - total * w[a]
        /\ Over(total, w, b) = gross[b] * Whole(w) - total * w[b]
    BY <1>2 DEF Over
  <2>4. /\ r.entries[a].weight = w[a] /\ r.entries[a].gross = gross[a]
        /\ r.entries[b].weight = w[b] /\ r.entries[b].gross = gross[b]
    BY <1>4
  <2> QED
    BY <2>2, <2>3, <2>4
<1> QED
  BY <1>1, <1>3, <1>5, <1>7, <1>8, <1>9 DEF Sound

-----------------------------------------------------------------------------
(* The inductive invariant of Payouts.                                     *)

\* Between two bucket boundaries the buckets hold what was submitted there.
BucketsAgree ==
  \A a \in Account : \A s, e \in Time :
    Aligned(s) /\ Aligned(e) => WeightIn(a, s, e) = Sum(earned[a], s..(e - 1))

HeldSound == \A r \in Held : Sound(r)

PayoutsInv == Shape /\ BucketsAgree /\ HeldSound

LEMMA HeldIs ==
  ASSUME Shape, NEW r
  PROVE  r \in Held <=> \/ \E i \in DOMAIN rounds : r = rounds[i]
                        \/ \E p \in Proc : planned[p] = <<r>>
<1>1. \A p \in Proc : planned[p] = <<>> \/ planned[p] = <<planned[p][1]>>
  BY DEF Shape
<1>2. \A p \in Proc : planned[p] = <<r>> => planned[p] # <<>> /\ planned[p][1] = r
  OBVIOUS
<1> QED
  BY <1>1, <1>2 DEF Held

LEMMA HeldNext ==
  ASSUME Shape', NEW r
  PROVE  r \in Held' <=> \/ \E i \in DOMAIN rounds' : r = rounds'[i]
                         \/ \E p \in Proc : planned'[p] = <<r>>
<1>1. \A p \in Proc : planned'[p] = <<>> \/ planned'[p] = <<planned'[p][1]>>
  BY DEF Shape
<1>2. \A p \in Proc : planned'[p] = <<r>> => planned'[p] # <<>> /\ planned'[p][1] = r
  OBVIOUS
<1> QED
  BY <1>1, <1>2 DEF Held

LEMMA InitPayoutsInv == Init => PayoutsInv
<1> SUFFICES ASSUME Init
             PROVE  PayoutsInv
  OBVIOUS
<1>1. Shape
  <2>1. rounds \in Seq(RoundRec)
    BY EmptySeq DEF Init
  <2>2. now \in Time
    BY Bounds DEF Init, Time
  <2> QED
    BY <2>1, <2>2 DEF Init, Shape
<1>2. BucketsAgree
  <2> SUFFICES ASSUME NEW a \in Account, NEW s \in Time, NEW e \in Time
               PROVE  WeightIn(a, s, e) = Sum(earned[a], s..(e - 1))
    BY DEF BucketsAgree
  <2>1. IsFiniteSet(s..(e - 1))
    BY <1>1, WeightInType
  <2>2. \A t \in s..(e - 1) : buckets[a][t] = 0 /\ earned[a][t] = 0
    BY Bounds DEF Init, Time
  <2> QED
    BY <2>1, <2>2, SumZero DEF WeightIn
<1>3. HeldSound
  BY <1>1, HeldIs DEF Init, HeldSound
<1> QED
  BY <1>1, <1>2, <1>3 DEF PayoutsInv

Grown(f, x, d) == [f EXCEPT ![x] = @ + d]

LEMMA SumGrown ==
  ASSUME NEW X, NEW f \in [X -> Nat], NEW S \in SUBSET X, IsFiniteSet(S), NEW x \in X,
         NEW d \in Nat
  PROVE  Sum(Grown(f, x, d), S) = Sum(f, S) + IF x \in S THEN d ELSE 0
<1>1. PICK g \in [X -> Nat] : /\ g = Grown(f, x, d) /\ g[x] = f[x] + d
                              /\ \A y \in X : y # x => g[y] = f[y]
  <2>1. f[x] + d \in Nat
    OBVIOUS
  <2>2. [f EXCEPT ![x] = f[x] + d] \in [X -> Nat]
    BY <2>1
  <2>3. [f EXCEPT ![x] = f[x] + d][x] = f[x] + d
    OBVIOUS
  <2>4. \A y \in X : y # x => [f EXCEPT ![x] = f[x] + d][y] = f[y]
    OBVIOUS
  <2> QED
    BY <2>2, <2>3, <2>4 DEF Grown
<1>2. Sum(f, S) \in Nat
  BY SumNat
<1>3. CASE x \in S
  <2>1. d \in Int /\ (\A y \in S : f[y] \in Int) /\ (\A y \in S : y # x => g[y] = f[y])
    BY <1>1
  <2>2. g[x] = f[x] + d /\ x \in S
    BY <1>1, <1>3
  <2>3. Sum(g, S) = Sum(f, S) + d
    BY ONLY <2>1, <2>2, IsFiniteSet(S), SumUpdate
  <2> QED
    BY <1>1, <1>3, <2>3
<1>4. CASE x \notin S
  <2>1. \A y \in S : f[y] \in Int /\ g[y] = f[y]
    BY <1>1, <1>4
  <2>2. Sum(g, S) = Sum(f, S)
    BY <2>1, SumSame
  <2> QED
    BY <1>1, <1>2, <1>4, <2>2
<1> QED
  BY <1>3, <1>4

LEMMA RecordShareKeeps ==
  ASSUME PayoutsInv, NEW a \in Account, NEW t \in Time, NEW w \in Weight,
         RecordShare(a, t, w)
  PROVE  PayoutsInv'
<1>0. Shape /\ w \in Nat /\ t \in Nat /\ Bucket \in Nat \ {0}
  BY Bounds DEF PayoutsInv, Time
<1>1. PICK b \in Time : b = BucketStartFor(t)
  <2>1. BucketStartFor(t) \in 0..t
    BY <1>0, FloorType DEF BucketStartFor
  <2> QED
    BY <2>1, Bounds DEF Time
<1>2. PICK f, g : /\ f \in [Time -> Nat] /\ f = earned[a] /\ g \in [Time -> Nat] /\ g = buckets[a]
  BY <1>0 DEF Shape
<1>3. /\ earned' = [earned EXCEPT ![a] = Grown(f, t, w)]
      /\ buckets' = [buckets EXCEPT ![a] = Grown(g, b, w)]
      /\ UNCHANGED <<rounds, planned, now>>
  BY <1>1, <1>2 DEF RecordShare, Grown
<1>4. Grown(f, t, w) \in [Time -> Nat] /\ Grown(g, b, w) \in [Time -> Nat]
  BY <1>0, <1>2 DEF Grown
<1>5. Shape'
  BY <1>0, <1>3, <1>4 DEF Shape
<1>6. BucketsAgree'
  <2> SUFFICES ASSUME NEW c \in Account, NEW s \in Time, NEW e \in Time,
                      Aligned(s), Aligned(e)
               PROVE  Sum(buckets'[c], s..(e - 1)) = Sum(earned'[c], s..(e - 1))
    BY DEF BucketsAgree, WeightIn
  <2>1. Sum(buckets[c], s..(e - 1)) = Sum(earned[c], s..(e - 1))
    BY DEF PayoutsInv, BucketsAgree, WeightIn
  <2>2. CASE c # a
    <3>1. buckets'[c] = buckets[c] /\ earned'[c] = earned[c]
      BY <1>0, <1>3, <2>2 DEF Shape
    <3> QED
      BY <2>1, <3>1
  <2>3. CASE c = a
    <3>1. PICK S \in SUBSET Time : S = s..(e - 1) /\ IsFiniteSet(S)
      <4>1. s..(e - 1) \in SUBSET Time
        BY Bounds DEF Time
      <4> QED
        BY <1>0, <4>1, WeightInType
    <3>2. b \in S <=> t \in S
      <4>1. s \in Nat /\ e \in Nat /\ b \in Nat /\ t \in Nat
        BY DEF Time
      <4>2. (s <= b <=> s <= t) /\ (e <= b <=> e <= t)
        BY <1>0, <1>1, <4>1, FloorPast DEF BucketStartFor, Aligned
      <4> QED
        BY <3>1, <4>1, <4>2
    <3>a. \A h \in [Time -> Nat], x \in Time :
             Sum(Grown(h, x, w), S) = Sum(h, S) + IF x \in S THEN w ELSE 0
      <4> SUFFICES ASSUME NEW h \in [Time -> Nat], NEW x \in Time
                   PROVE  Sum(Grown(h, x, w), S) = Sum(h, S) + IF x \in S THEN w ELSE 0
        OBVIOUS
      <4>1. w \in Nat /\ IsFiniteSet(S) /\ S \in SUBSET Time
        BY <1>0, <3>1
      <4> QED
        BY ONLY <4>1, SumGrown
    <3>3. Sum(Grown(f, t, w), S) = Sum(f, S) + IF t \in S THEN w ELSE 0
      BY <1>2, <3>a
    <3>4. Sum(Grown(g, b, w), S) = Sum(g, S) + IF b \in S THEN w ELSE 0
      BY <1>2, <3>a
    <3>5. earned'[c] = Grown(f, t, w) /\ buckets'[c] = Grown(g, b, w)
      BY <1>0, <1>3, <2>3 DEF Shape
    <3>6. Sum(g, S) = Sum(f, S)
      BY <1>2, <2>1, <2>3, <3>1
    <3>7. Sum(Grown(g, b, w), S) = Sum(Grown(f, t, w), S)
      BY <3>2, <3>3, <3>4, <3>6
    <3> QED
      BY <3>1, <3>5, <3>7
  <2> QED
    BY <2>2, <2>3
<1>7. HeldSound'
  <2>1. Held' = Held
    BY <1>3 DEF Held
  <2> QED
    BY <2>1 DEF PayoutsInv, HeldSound, Sound
<1> QED
  BY <1>5, <1>6, <1>7 DEF PayoutsInv

\* The window a command may plan is over, and on the clock.
LEMMA PlanWindow ==
  ASSUME Shape, NEW p, NEW win \in Window, NEW total, NEW bps,
         Plan(p, win[1], win[2], total, bps)
  PROVE  /\ win[1] \in Time /\ win[2] \in Time /\ <<win[1], win[2]>> \in Window
         /\ win[2] + Grace <= now
<1>1. now >= win[2] + Grace /\ win[1] < win[2]
  BY PlanIs
<1>2. win[1] \in Nat /\ win[2] \in Nat /\ win = <<win[1], win[2]>> /\ Grace \in Nat
      /\ now \in 0..MaxTime /\ MaxTime \in Nat
  BY Bounds DEF Shape, Time
<1>3. win[1] \in 0..MaxTime /\ win[2] \in 0..MaxTime /\ win[2] + Grace <= now
  BY ONLY <1>1, <1>2
<1> QED
  BY <1>2, <1>3 DEF Time

LEMMA PlanHeld ==
  ASSUME Shape, NEW p \in Proc, NEW r \in RoundRec, planned' = [planned EXCEPT ![p] = <<r>>],
         UNCHANGED <<earned, buckets, rounds, now>>
  PROVE  Shape' /\ \A x \in Held' : x \in Held \/ x = r
<1>1. Shape'
  BY DEF Shape
<1>2. ASSUME NEW x \in Held'
      PROVE  x \in Held \/ x = r
  <2>1. (\E i \in DOMAIN rounds' : x = rounds'[i]) \/ (\E q \in Proc : planned'[q] = <<x>>)
    BY <1>1, <1>2, HeldNext
  <2>2. CASE \E i \in DOMAIN rounds : x = rounds[i]
    BY <2>2, HeldIs
  <2>3. CASE \E q \in Proc : planned'[q] = <<x>>
    <3>1. PICK q \in Proc : planned'[q] = <<x>>
      BY <2>3
    <3>2. planned[q] = <<x>> \/ <<r>> = <<x>>
      BY <3>1 DEF Shape
    <3>3. <<r>> = <<x>> => r = x
      OBVIOUS
    <3> QED
      BY <3>2, <3>3, HeldIs
  <2> QED
    BY <2>1, <2>2, <2>3
<1> QED
  BY <1>1, <1>2

LEMMA PlanKeeps ==
  ASSUME PayoutsInv, NEW p \in Proc, NEW win \in Window, NEW total \in Total,
         NEW bps \in Rates, Plan(p, win[1], win[2], total, bps)
  PROVE  PayoutsInv'
<1>1. PICK r : r = Drawn(win[1], win[2], total, bps)
  OBVIOUS
<1>2. r \in RoundRec /\ Sound(r)
  <2>1. /\ win[1] \in Time /\ win[2] \in Time /\ <<win[1], win[2]>> \in Window
        /\ total = 0 \/ Whole([a \in Subjects(win[1], win[2]) |-> WeightIn(a, win[1], win[2])]) > 0
    <3>1. total = 0 \/ Whole([a \in Subjects(win[1], win[2]) |-> WeightIn(a, win[1], win[2])]) > 0
      BY PlanIs
    <3> QED
      BY <3>1, PlanWindow DEF PayoutsInv
  <2> QED
    BY <1>1, <2>1, DrawnSound DEF PayoutsInv
<1>3. /\ planned' = [planned EXCEPT ![p] = <<r>>]
      /\ UNCHANGED <<earned, buckets, rounds, now>>
  <2>1. /\ planned' = [planned EXCEPT ![p] = <<Drawn(win[1], win[2], total, bps)>>]
        /\ UNCHANGED <<earned, buckets, rounds, now>>
    BY PlanDraws
  <2> QED
    BY ONLY <1>1, <2>1
<1>4. Shape' /\ \A x \in Held' : x \in Held \/ x = r
  BY <1>2, <1>3, PlanHeld DEF PayoutsInv
<1>5. HeldSound'
  <2>1. \A x \in Held' : Sound(x)
    BY <1>2, <1>4 DEF PayoutsInv, HeldSound
  <2> QED
    BY <2>1 DEF HeldSound
<1>6. BucketsAgree'
  BY <1>3 DEF PayoutsInv, BucketsAgree, WeightIn
<1> QED
  BY <1>4, <1>5, <1>6 DEF PayoutsInv

\* A round that is recorded is the one that was planned.
LEMMA RecordIs ==
  ASSUME Shape, NEW p \in Proc, Record(p)
  PROVE  /\ UNCHANGED <<earned, buckets, now>>
         /\ planned' = [planned EXCEPT ![p] = <<>>]
         /\ \/ rounds' = rounds
            \/ \E r \in RoundRec :
                 /\ planned[p] = <<r>> /\ rounds' \in Seq(RoundRec)
                 /\ Len(rounds') = Len(rounds) + 1 /\ rounds'[Len(rounds) + 1] = r
                 /\ \A i \in DOMAIN rounds : rounds'[i] = rounds[i]
<1>1. PICK r \in RoundRec : planned[p] = <<r>>
  BY DEF Record, Shape
<1>2. /\ UNCHANGED <<earned, buckets, now>>
      /\ planned' = [planned EXCEPT ![p] = <<>>]
      /\ rounds' = rounds \/ rounds' = rounds \o <<r>>
  BY <1>1 DEF Record
<1>3. ASSUME rounds' = rounds \o <<r>>
      PROVE  /\ rounds' \in Seq(RoundRec)
             /\ Len(rounds') = Len(rounds) + 1 /\ rounds'[Len(rounds) + 1] = r
             /\ \A i \in DOMAIN rounds : rounds'[i] = rounds[i]
  <2>1. rounds \in Seq(RoundRec) /\ <<r>> \in Seq(RoundRec) /\ Len(<<r>>) = 1 /\ <<r>>[1] = r
    BY DEF Shape
  <2>2. PICK t : t = <<r>>
    OBVIOUS
  <2>3. /\ rounds \o t \in Seq(RoundRec) /\ Len(rounds \o t) = Len(rounds) + Len(t)
        /\ \A i \in 1..(Len(rounds) + Len(t)) :
             (rounds \o t)[i] = IF i <= Len(rounds) THEN rounds[i] ELSE t[i - Len(rounds)]
    BY <2>1, <2>2, ConcatProperties
  <2>4. Len(rounds) \in Nat /\ DOMAIN rounds = 1..Len(rounds) /\ Len(t) = 1 /\ t[1] = r
    BY <2>1, <2>2
  <2>5. Len(rounds) + 1 \in 1..(Len(rounds) + 1) /\ ~(Len(rounds) + 1 <= Len(rounds))
        /\ (Len(rounds) + 1) - Len(rounds) = 1
    BY <2>4
  <2>6. (rounds \o t)[Len(rounds) + 1] = r
    BY <2>3, <2>4, <2>5
  <2>7. \A i \in DOMAIN rounds : (rounds \o t)[i] = rounds[i]
    BY <2>3, <2>4
  <2> QED
    BY <1>3, <2>2, <2>3, <2>4, <2>6, <2>7
<1> QED
  BY <1>1, <1>2, <1>3

LEMMA RecordKeeps ==
  ASSUME PayoutsInv, NEW p \in Proc, Record(p)
  PROVE  PayoutsInv' /\ Held' \subseteq Held
<1>0. Shape
  BY DEF PayoutsInv
<1>1. Shape'
  BY <1>0, RecordIs DEF Shape
<1>2. ASSUME NEW x \in Held'
      PROVE  x \in Held
  <2>1. (\E i \in DOMAIN rounds' : x = rounds'[i]) \/ (\E q \in Proc : planned'[q] = <<x>>)
    BY <1>1, <1>2, HeldNext
  <2>2. ASSUME NEW q \in Proc, planned'[q] = <<x>>
        PROVE  x \in Held
    <3>0. planned' = [planned EXCEPT ![p] = <<>>] /\ <<x>> # <<>>
      BY <1>0, RecordIs
    <3>1. planned[q] = <<x>>
      BY <1>0, <2>2, <3>0 DEF Shape
    <3> QED
      BY <1>0, <3>1, HeldIs
  <2>3. ASSUME NEW i \in DOMAIN rounds', x = rounds'[i]
        PROVE  x \in Held
    <3>1. CASE rounds' = rounds
      BY <1>0, <2>3, <3>1, HeldIs
    <3>2. ASSUME NEW r \in RoundRec,
                 planned[p] = <<r>>, rounds' \in Seq(RoundRec),
                 Len(rounds') = Len(rounds) + 1, rounds'[Len(rounds) + 1] = r,
                 \A j \in DOMAIN rounds : rounds'[j] = rounds[j]
          PROVE  x \in Held
      <4>1. i \in DOMAIN rounds \/ i = Len(rounds) + 1
        <5>1. DOMAIN rounds' = 1..(Len(rounds) + 1)
          BY <3>2
        <5> QED
          BY <1>0, <2>3, <5>1, RoundsIndexed
      <4>2. x = r \/ \E j \in DOMAIN rounds : x = rounds[j]
        BY <2>3, <3>2, <4>1
      <4> QED
        BY <1>0, <3>2, <4>2, HeldIs
    <3> QED
      BY <1>0, <3>1, <3>2, RecordIs
  <2> QED
    BY <2>1, <2>2, <2>3
<1>3. HeldSound'
  BY <1>2 DEF PayoutsInv, HeldSound
<1>4. BucketsAgree'
  <2>1. UNCHANGED <<earned, buckets>>
    BY <1>0, RecordIs
  <2> QED
    BY <2>1 DEF PayoutsInv, BucketsAgree, WeightIn
<1> QED
  BY <1>1, <1>2, <1>3, <1>4 DEF PayoutsInv

LEMMA QuitKeeps ==
  ASSUME PayoutsInv, NEW p \in Proc, Quit(p)
  PROVE  PayoutsInv' /\ Held' \subseteq Held
<1>0. Shape /\ UNCHANGED <<earned, buckets, rounds, now>>
      /\ planned' = [planned EXCEPT ![p] = <<>>]
  BY DEF PayoutsInv, Quit
<1>1. Shape'
  BY <1>0 DEF Shape
<1>2. ASSUME NEW x \in Held'
      PROVE  x \in Held
  <2>1. (\E i \in DOMAIN rounds : x = rounds[i]) \/ (\E q \in Proc : planned'[q] = <<x>>)
    BY <1>0, <1>1, <1>2, HeldNext
  <2>2. ASSUME NEW q \in Proc, planned'[q] = <<x>>
        PROVE  planned[q] = <<x>>
    <3>1. <<x>> # <<>>
      OBVIOUS
    <3> QED
      BY <1>0, <2>2, <3>1 DEF Shape
  <2> QED
    BY <1>0, <2>1, <2>2, HeldIs
<1>3. HeldSound'
  BY <1>2 DEF PayoutsInv, HeldSound
<1>4. BucketsAgree'
  BY <1>0 DEF PayoutsInv, BucketsAgree, WeightIn
<1> QED
  BY <1>1, <1>2, <1>3, <1>4 DEF PayoutsInv

LEMMA IdleKeeps ==
  ASSUME PayoutsInv, Tick \/ UNCHANGED vars
  PROVE  PayoutsInv' /\ Held' = Held /\ UNCHANGED <<earned, buckets, rounds, planned>>
         /\ now <= now'
<1>1. UNCHANGED <<earned, buckets, rounds, planned>>
  BY DEF Tick, vars
<1>2. now' \in Time /\ now <= now'
  <2>1. now \in 0..MaxTime /\ MaxTime \in Nat
    BY Bounds DEF PayoutsInv, Shape, Time
  <2>2. now' = now \/ (now < MaxTime /\ now' = now + 1)
    BY DEF Tick, vars
  <2> QED
    BY ONLY <2>1, <2>2 DEF Time
<1>3. Shape'
  BY <1>1, <1>2 DEF PayoutsInv, Shape
<1>4. Held' = Held
  BY <1>1 DEF Held
<1>5. HeldSound' /\ BucketsAgree'
  BY <1>1, <1>4 DEF PayoutsInv, HeldSound, BucketsAgree, WeightIn
<1> QED
  BY <1>1, <1>2, <1>3, <1>4, <1>5 DEF PayoutsInv

LEMMA NextPayoutsInv == PayoutsInv /\ [Next]_vars => PayoutsInv'
<1> SUFFICES ASSUME PayoutsInv, [Next]_vars
             PROVE  PayoutsInv'
  OBVIOUS
<1>1. ASSUME NEW a \in Account, NEW t \in Time, NEW w \in Weight, RecordShare(a, t, w)
      PROVE  PayoutsInv'
  BY <1>1, RecordShareKeeps
<1>2. ASSUME NEW p \in Proc, NEW win \in Window, NEW total \in Total, NEW bps \in Rates,
             Plan(p, win[1], win[2], total, bps)
      PROVE  PayoutsInv'
  BY <1>2, PlanKeeps
<1>3. ASSUME NEW p \in Proc, Record(p) \/ Quit(p)
      PROVE  PayoutsInv'
  BY <1>3, RecordKeeps, QuitKeeps
<1>4. CASE Tick \/ UNCHANGED vars
  BY <1>4, IdleKeeps
<1> QED
  BY <1>1, <1>2, <1>3, <1>4 DEF Next

LEMMA PayoutsInvariant == Spec => []PayoutsInv
<1>1. Init => PayoutsInv
  BY InitPayoutsInv
<1>2. PayoutsInv /\ [Next]_vars => PayoutsInv'
  BY NextPayoutsInv
<1> QED
  BY <1>1, <1>2, PTL DEF Spec

\* Types: a round is one of the windows asked for, its parts and payments are
\* naturals, a fee is never over the part it comes off, and an entry pays or
\* carries out, never both (payouts.ts:171-214).
THEOREM PayoutsTypeCorrect == Spec => []TypeOK
<1>1. PayoutsInv => TypeOK
  <2> SUFFICES ASSUME PayoutsInv
               PROVE  TypeOK
    OBVIOUS
  <2>1. ASSUME NEW r \in RoundRec, Sound(r)
        PROVE  RoundOK(r)
    <3>1. ASSUME NEW a \in DOMAIN r.entries
          PROVE  LET e == r.entries[a] IN
                 /\ {e.weight, e.gross, e.amount} \subseteq Nat
                 /\ e.fee \in 0..e.gross
                 /\ {e.carriedIn, e.carriedOut} \subseteq Int
                 /\ e.amount = 0 \/ e.carriedOut = 0
      <4>1. PICK e : e = r.entries[a] /\ e \in EntryRec /\ Balanced(e)
        BY <2>1, EntryField DEF Sound, AllBalanced
      <4>2. /\ e.weight \in Nat /\ e.gross \in Nat /\ e.amount \in Nat /\ e.fee \in Nat
            /\ e.carriedIn \in Int /\ e.carriedOut \in Int
        BY <4>1 DEF EntryRec
      <4>3. e.fee <= e.gross /\ (e.amount = 0 \/ e.carriedOut = 0)
        BY <4>1 DEF Balanced
      <4>4. e.fee \in 0..e.gross
        BY <4>2, <4>3
      <4> QED
        BY <4>1, <4>2, <4>3, <4>4
    <3>2. DOMAIN r.entries \subseteq Account
      BY RoundEntries
    <3> QED
      BY <2>1, <3>1, <3>2 DEF RoundOK, Sound
  <2>2. \A i \in DOMAIN rounds : RoundOK(rounds[i])
    BY <2>1, HeldIs, RoundsIndexed DEF PayoutsInv, HeldSound
  <2>3. ASSUME NEW p \in Proc, planned[p] # <<>>
        PROVE  Len(planned[p]) = 1 /\ RoundOK(planned[p][1])
    <3>1. PICK r \in RoundRec : planned[p] = <<r>>
      BY <2>3 DEF PayoutsInv, Shape
    <3>2. Sound(r)
      BY <3>1, HeldIs DEF PayoutsInv, HeldSound
    <3> QED
      BY <2>1, <3>1, <3>2
  <2> QED
    BY <2>2, <2>3 DEF PayoutsInv, Shape, TypeOK
<1> QED
  BY <1>1, PayoutsInvariant, PTL

\* Whatever weights, totals, fees and balances: a round's parts are its total,
\* and what it pays and carries out is the total less the fees, plus what it
\* carried in, to the last zatoshi (payouts.ts:245-277).
THEOREM RoundsConserve == Spec => []RoundConserves
<1>1. PayoutsInv => RoundConserves
  BY HeldIs DEF PayoutsInv, HeldSound, Sound, Conserves, RoundConserves, Recorded
<1> QED
  BY <1>1, PayoutsInvariant, PTL

\* In every round nobody is off their exact part by a zatoshi, no account gets
\* less than another that did less, and what floors leave goes to those it was
\* nearest to (payouts.ts:245-277).
THEOREM SplitsFollowWork == Spec => []SplitFollowsWork
<1>1. PayoutsInv => SplitFollowsWork
  <2> SUFFICES ASSUME PayoutsInv, NEW r \in Recorded
               PROVE  Follows(r)
    BY DEF SplitFollowsWork, Follows
  <2> QED
    BY HeldIs DEF PayoutsInv, HeldSound, Sound, Recorded
<1> QED
  BY <1>1, PayoutsInvariant, PTL

-----------------------------------------------------------------------------
(* A round pays the work of its window.  The hypothesis is what operators  *)
(* do and nothing enforces: they plan a window once its verdicts are in.   *)

PaysWork(r) ==
  \A a \in Account :
    LET work == Sum(earned[a], r.start..(r.end - 1)) IN
    IF a \in DOMAIN r.entries THEN r.entries[a].weight = work ELSE work = 0

WindowsInv == \A r \in Held : r.end + Grace <= now /\ PaysWork(r)

LEMMA HeldRecord ==
  ASSUME Shape, NEW r \in Held
  PROVE  r \in RoundRec /\ r.start \in Nat /\ r.end \in Nat
<1>1. r \in RoundRec
  <2>1. ASSUME NEW p \in Proc, planned[p] = <<r>>
        PROVE  r \in RoundRec
    <3>0. planned[p] # <<>>
      BY <2>1
    <3>1. PICK x \in RoundRec : planned[p] = <<x>>
      BY <3>0 DEF Shape
    <3>2. <<x>>[1] = <<r>>[1]
      BY <2>1, <3>1
    <3> QED
      BY <3>2
  <2>2. ASSUME NEW i \in DOMAIN rounds, r = rounds[i]
        PROVE  r \in RoundRec
    BY <2>2, RoundsIndexed
  <2> QED
    BY <2>1, <2>2, HeldIs
<1> QED
  BY <1>1 DEF RoundRec

LEMMA DrawnPaysWork ==
  ASSUME PayoutsInv, NEW s \in Time, NEW e \in Time, NEW total \in Nat, NEW bps \in Rates,
         total = 0 \/ Whole([a \in Subjects(s, e) |-> WeightIn(a, s, e)]) > 0,
         Aligned(s), Aligned(e)
  PROVE  PaysWork(Drawn(s, e, total, bps))
<1>0. Shape
  BY DEF PayoutsInv
<1>1. PICK r : r = Drawn(s, e, total, bps)
  OBVIOUS
<1>2. PICK D, w, gross : PartsOf(r, s, e, total, bps, D, w, gross)
  BY <1>0, <1>1, DrawnIs
<1>3. r.start = s /\ r.end = e
  BY <1>1 DEF Drawn
<1>4. ASSUME NEW a \in Account
      PROVE  LET work == Sum(earned[a], s..(e - 1)) IN
             IF a \in DOMAIN r.entries THEN r.entries[a].weight = work ELSE work = 0
  <2>1. PICK work \in Nat : work = WeightIn(a, s, e) /\ work = Sum(earned[a], s..(e - 1))
    BY <1>0, WeightInType DEF PayoutsInv, BucketsAgree
  <2>2. CASE a \in D
    <3>1. r.entries[a] = Entry(w[a], gross[a], bps[a], Carried(a)) /\ w[a] = work
      BY <1>2, <2>1, <2>2 DEF PartsOf
    <3>2. r.entries[a].weight = work
      BY <3>1 DEF Entry
    <3> QED
      BY <1>2, <2>1, <2>2, <3>2 DEF PartsOf
  <2>3. CASE a \notin D
    <3>1. ~(work > 0)
      BY <1>2, <2>1, <2>3 DEF PartsOf, Subjects
    <3> QED
      BY <1>2, <2>1, <2>3, <3>1 DEF PartsOf
  <2> QED
    BY <2>2, <2>3
<1> QED
  BY <1>1, <1>3, <1>4 DEF PaysWork

LEMMA NextWindowsInv ==
  ASSUME Grace >= Late, PayoutsInv, WindowsInv, [Next]_vars
  PROVE  WindowsInv'
<1>0. Shape /\ PayoutsInv'
  BY NextPayoutsInv DEF PayoutsInv
<1>1. ASSUME NEW a \in Account, NEW t \in Time, NEW w \in Weight, RecordShare(a, t, w)
      PROVE  WindowsInv'
  <2>1. /\ t <= now /\ now - t <= Late
        /\ earned' = [earned EXCEPT ![a][t] = @ + w] /\ UNCHANGED <<rounds, planned, now>>
    BY <1>1 DEF RecordShare
  <2>2. Held' = Held
    BY <2>1 DEF Held
  <2>3. ASSUME NEW r \in Held, NEW c \in Account
        PROVE  Sum(earned'[c], r.start..(r.end - 1)) = Sum(earned[c], r.start..(r.end - 1))
    <3>1. r.start \in Nat /\ r.end \in Nat /\ r.end + Grace <= now
      BY <1>0, HeldRecord DEF WindowsInv
    <3>2. now \in 0..MaxTime /\ MaxTime \in Nat /\ Late \in Nat /\ Grace \in Nat /\ t \in Nat
      BY <1>0, Bounds DEF Shape, Time
    <3>3. PICK S : S = r.start..(r.end - 1) /\ IsFiniteSet(S)
      <4>1. r.start \in Int /\ r.end - 1 \in Int
        BY <3>1
      <4>2. IsFiniteSet(r.start..(r.end - 1))
        BY <4>1, FS_Interval
      <4> QED
        BY <4>2
    <3>4. \A u \in S : u \in Time /\ u # t
      <4>1. \A u \in S : u \in 0..MaxTime /\ u # t
        BY ONLY <2>1, <3>1, <3>2, <3>3, Grace >= Late
      <4> QED
        BY <4>1 DEF Time
    <3>5. earned[c] \in [Time -> Nat]
      BY <1>0 DEF Shape
    <3>6. \A u \in S : earned[c][u] \in Int /\ earned'[c][u] = earned[c][u]
      BY <1>0, <2>1, <3>4, <3>5 DEF Shape
    <3> QED
      BY <3>3, <3>6, SumSame
  <2> QED
    BY <2>1, <2>2, <2>3 DEF WindowsInv, PaysWork
<1>2. ASSUME NEW p \in Proc, NEW win \in Window, NEW total \in Total, NEW bps \in Rates,
             Plan(p, win[1], win[2], total, bps)
      PROVE  WindowsInv'
  <2>1. PICK r : r = Drawn(win[1], win[2], total, bps)
    OBVIOUS
  <2>2. /\ win[1] \in Time /\ win[2] \in Time /\ <<win[1], win[2]>> \in Window
        /\ win[2] + Grace <= now
    BY <1>0, <1>2, PlanWindow
  <2>3. /\ total = 0 \/ Whole([a \in Subjects(win[1], win[2]) |-> WeightIn(a, win[1], win[2])]) > 0
        /\ Aligned(win[1]) /\ Aligned(win[2])
        /\ planned' = [planned EXCEPT ![p] = <<r>>]
        /\ UNCHANGED <<earned, buckets, rounds, now>>
    BY <1>2, <2>1, PlanIs
  <2>4. r \in RoundRec
    BY <1>0, <2>1, <2>2, <2>3, DrawnSound
  <2>5. PaysWork(r)
    <3>1. total \in Nat
      BY Bounds
    <3> QED
      BY <2>1, <2>2, <2>3, <3>1, DrawnPaysWork
  <2>6. r.end = win[2]
    BY <2>1 DEF Drawn
  <2>7. \A x \in Held' : x \in Held \/ x = r
    BY <1>0, <2>3, <2>4, PlanHeld
  <2> QED
    BY <2>2, <2>3, <2>5, <2>6, <2>7 DEF WindowsInv, PaysWork
<1>3. ASSUME NEW p \in Proc, Record(p) \/ Quit(p)
      PROVE  WindowsInv'
  <2>1. Held' \subseteq Held
    BY <1>3, RecordKeeps, QuitKeeps
  <2>2. UNCHANGED <<earned, now>>
    BY <1>3 DEF Record, Quit
  <2> QED
    BY <2>1, <2>2 DEF WindowsInv, PaysWork
<1>4. CASE Tick \/ UNCHANGED vars
  <2>1. Held' = Held /\ earned' = earned /\ now <= now'
    BY <1>4, IdleKeeps
  <2>2. \A r \in Held : r.end + Grace <= now'
    <3> SUFFICES ASSUME NEW r \in Held
                 PROVE  r.end + Grace <= now'
      OBVIOUS
    <3>1. r.end \in Nat /\ r.end + Grace <= now
      BY <1>0, HeldRecord DEF WindowsInv
    <3>2. now \in 0..MaxTime /\ now' \in 0..MaxTime /\ MaxTime \in Nat /\ Grace \in Nat
      BY <1>0, Bounds DEF PayoutsInv, Shape, Time
    <3> QED
      BY ONLY <2>1, <3>1, <3>2
  <2> QED
    BY <2>1, <2>2 DEF WindowsInv, PaysWork
<1> QED
  BY <1>1, <1>2, <1>3, <1>4 DEF Next

\* When no verdict is booked later than operators wait, a round pays exactly
\* the work submitted in its window, every share of it and nothing else
\* (payouts.ts:14, 129-142).
THEOREM RoundsPayTheirWindow == Grace >= Late => (Spec => []RoundPaysItsWindow)
<1> SUFFICES ASSUME Grace >= Late
             PROVE  Spec => []RoundPaysItsWindow
  OBVIOUS
<1>1. Init => WindowsInv
  <2> SUFFICES ASSUME Init
               PROVE  Held = {}
    BY DEF WindowsInv
  <2> QED
    BY DEF Init, Held
<1>2. PayoutsInv /\ WindowsInv /\ [Next]_vars => WindowsInv'
  BY NextWindowsInv
<1>3. PayoutsInv /\ WindowsInv => RoundPaysItsWindow
  BY HeldIs DEF PayoutsInv, WindowsInv, PaysWork, RoundPaysItsWindow, Recorded
<1> QED
  BY <1>1, <1>2, <1>3, PayoutsInvariant, PTL DEF Spec

-----------------------------------------------------------------------------
(* Balances.  One payout command at a time: two that overlap can plan the  *)
(* same balance into two rounds.                                           *)

OneCommand == \A p, q \in Proc : p = q

CarryInv ==
  /\ \A a \in Account : Carried(a) >= 0
  /\ \A p \in Proc : planned[p] # <<>> =>
       LET e == planned[p][1].entries IN
       \A a \in Account : IF a \in DOMAIN e THEN e[a].carriedIn = Carried(a)
                          ELSE Carried(a) = 0

\* What a step does to the rounds: nothing, or one that was planned is added.
Adding(p, r) ==
  /\ planned[p] = <<r>> /\ planned' = [planned EXCEPT ![p] = <<>>]
  /\ rounds' \in Seq(RoundRec)
  /\ Len(rounds') = Len(rounds) + 1 /\ rounds'[Len(rounds) + 1] = r
  /\ \A i \in DOMAIN rounds : rounds'[i] = rounds[i]

LEMMA RoundsStep ==
  ASSUME Shape, [Next]_vars
  PROVE  rounds' = rounds \/ \E p \in Proc, r \in RoundRec : Adding(p, r)
<1>1. ASSUME NEW p \in Proc, Record(p)
      PROVE  rounds' = rounds \/ \E r \in RoundRec : Adding(p, r)
  BY <1>1, RecordIs DEF Adding
<1>2. ASSUME NEW p \in Proc, NEW win \in Window, NEW total \in Total, NEW bps \in Rates,
             Plan(p, win[1], win[2], total, bps)
      PROVE  rounds' = rounds
  BY <1>2, PlanIs
<1>3. ASSUME NEW a \in Account, NEW t \in Time, NEW w \in Weight, RecordShare(a, t, w)
      PROVE  rounds' = rounds
  BY <1>3 DEF RecordShare
<1>4. ASSUME NEW p \in Proc, Quit(p)
      PROVE  rounds' = rounds
  BY <1>4 DEF Quit
<1>5. CASE Tick \/ UNCHANGED vars
  BY <1>5 DEF Tick, vars
<1> QED
  BY <1>1, <1>2, <1>3, <1>4, <1>5 DEF Next

\* A sum over the rounds, whatever is summed of one round, grows by what the
\* round that is added contributes.
LEMMA RoundsSum ==
  ASSUME Shape, NEW p \in Proc, NEW r \in RoundRec, Adding(p, r), NEW f, NEW g,
         \A i \in DOMAIN rounds : f[i] \in Int /\ g[i] = f[i], g[Len(rounds) + 1] \in Int
  PROVE  Sum(g, DOMAIN rounds') = Sum(f, DOMAIN rounds) + g[Len(rounds) + 1]
<1>1. PICK n \in Nat : n = Len(rounds) /\ DOMAIN rounds = 1..n
  BY RoundsIndexed
<1>2. DOMAIN rounds' = 1..(n + 1)
  BY <1>1 DEF Adding
<1>3. (\A i \in 1..n : f[i] \in Int /\ g[i] = f[i]) /\ g[n + 1] \in Int
  BY <1>1
<1>4. Sum(g, 1..(n + 1)) = Sum(f, 1..n) + g[n + 1]
  BY <1>3, SumAppended
<1> QED
  BY <1>1, <1>2, <1>4

LEMMA CarriedGrows ==
  ASSUME Shape, NEW p \in Proc, NEW r \in RoundRec, Adding(p, r), NEW a \in Account
  PROVE  Carried(a)' = Carried(a) + Carry(r, a)
<1>1. PICK f : f = [i \in DOMAIN rounds |-> Carry(rounds[i], a)]
  OBVIOUS
<1>2. PICK g : g = [i \in DOMAIN rounds' |-> Carry(rounds'[i], a)]
  OBVIOUS
<1>3. Len(rounds) \in Nat /\ DOMAIN rounds = 1..Len(rounds)
      /\ DOMAIN rounds' = 1..(Len(rounds) + 1)
  BY RoundsIndexed DEF Adding
<1>4. \A i \in DOMAIN rounds : i \in DOMAIN rounds'
  BY <1>3
<1>5. Len(rounds) + 1 \in DOMAIN rounds'
  BY <1>3
<1>6. \A i \in DOMAIN rounds : f[i] \in Int /\ g[i] = f[i]
  BY <1>1, <1>2, <1>4, RoundsIndexed, CarryType DEF Adding
<1>7. g[Len(rounds) + 1] = Carry(r, a) /\ Carry(r, a) \in Int
  BY <1>2, <1>5, CarryType DEF Adding
<1>8. Sum(g, DOMAIN rounds') = Sum(f, DOMAIN rounds) + g[Len(rounds) + 1]
  BY <1>6, <1>7, RoundsSum
<1>9. Carried(a) = Sum(f, DOMAIN rounds)
  BY <1>1, CarriedIs
<1>10. Carried(a)' = Sum(g, DOMAIN rounds')
  BY <1>2 DEF Carried, Carry
<1> QED
  BY <1>7, <1>8, <1>9, <1>10

\* What is owed after the round a command planned from what was owed before.
LEMMA CarryAfter ==
  ASSUME PayoutsInv, CarryInv, NEW p \in Proc, NEW r \in RoundRec, Adding(p, r),
         NEW a \in Account
  PROVE  /\ Carried(a)' \in Nat
         /\ Carried(a) > 0 => a \in DOMAIN r.entries
         /\ a \in DOMAIN r.entries => Carried(a)' < MinPayout \/ Carried(a)' = 0
<1>0. Shape /\ Sound(r)
  BY HeldIs DEF Adding, PayoutsInv, HeldSound
<1>1. Carried(a) \in Nat
  BY <1>0, CarriedType DEF CarryInv
<1>2. planned[p] # <<>> /\ planned[p][1] = r
  BY DEF Adding
<1>3. Carried(a)' = Carried(a) + Carry(r, a)
  BY <1>0, CarriedGrows
<1>4. CASE a \in DOMAIN r.entries
  <2>1. PICK e : e = r.entries[a] /\ e \in EntryRec /\ Balanced(e)
    BY <1>0, <1>4, EntryField DEF Sound, AllBalanced
  <2>2. e.carriedIn = Carried(a)
    BY <1>2, <1>4, <2>1 DEF CarryInv
  <2>3. /\ e.gross \in Nat /\ e.fee \in Nat /\ e.amount \in Nat
        /\ e.carriedIn \in Int /\ e.carriedOut \in Int
    BY <2>1 DEF EntryRec
  <2>4. /\ e.fee <= e.gross
        /\ e.amount + e.carriedOut = e.gross - e.fee + e.carriedIn
        /\ e.amount = 0 \/ e.carriedOut = 0
        /\ e.carriedOut < MinPayout \/ e.carriedOut <= 0
    BY <2>1 DEF Balanced
  <2>5. Carried(a)' = Carried(a) + (e.carriedOut - e.carriedIn)
    BY <1>3, <1>4, <2>1 DEF Carry
  <2>6. Carried(a)' = e.carriedOut
    BY ONLY <1>1, <2>2, <2>3, <2>5
  <2>7. e.carriedOut >= 0
    BY ONLY <1>1, <2>2, <2>3, <2>4
  <2>8. e.carriedOut \in Nat /\ (e.carriedOut < MinPayout \/ e.carriedOut = 0)
    BY <2>3, <2>4, <2>7, Bounds
  <2> QED
    BY <1>4, <2>6, <2>8
<1>5. CASE a \notin DOMAIN r.entries
  <2>1. Carried(a) = 0
    BY <1>2, <1>5 DEF CarryInv
  <2>2. Carry(r, a) = 0
    BY <1>5 DEF Carry
  <2> QED
    BY <1>3, <1>5, <2>1, <2>2
<1> QED
  BY <1>4, <1>5

LEMMA DrawnCarry ==
  ASSUME Shape, CarryInv, NEW s \in Time, NEW e \in Time, NEW total \in Nat,
         NEW bps \in Rates, NEW r, r = Drawn(s, e, total, bps),
         total = 0 \/ Whole([a \in Subjects(s, e) |-> WeightIn(a, s, e)]) > 0,
         NEW a \in Account
  PROVE  IF a \in DOMAIN r.entries THEN r.entries[a].carriedIn = Carried(a)
         ELSE Carried(a) = 0
<1>1. PICK D, w, gross : PartsOf(r, s, e, total, bps, D, w, gross)
  BY DrawnIs
<1>2. CASE a \in D
  <2>1. r.entries[a] = Entry(w[a], gross[a], bps[a], Carried(a))
    BY <1>1, <1>2 DEF PartsOf
  <2>2. r.entries[a].carriedIn = Carried(a)
    BY <2>1 DEF Entry
  <2> QED
    BY <1>1, <1>2, <2>2 DEF PartsOf
<1>3. CASE a \notin D
  BY <1>1, <1>3 DEF PartsOf, Subjects
<1> QED
  BY <1>2, <1>3

LEMMA NextCarryInv ==
  ASSUME OneCommand, PayoutsInv, CarryInv, [Next]_vars
  PROVE  CarryInv'
<1>0. Shape
  BY DEF PayoutsInv
<1>1. ASSUME NEW p \in Proc, NEW r \in RoundRec, Adding(p, r)
      PROVE  CarryInv'
  <2>1. \A a \in Account : Carried(a)' >= 0
    <3>1. \A a \in Account : Carried(a)' \in Nat
      BY <1>1, CarryAfter
    <3> QED
      BY <3>1
  <2>2. \A q \in Proc : planned'[q] = <<>>
    BY <1>0, <1>1 DEF Adding, OneCommand, Shape
  <2> QED
    BY <2>1, <2>2 DEF CarryInv
<1>2. ASSUME rounds' = rounds
      PROVE  CarryInv'
  <2>1. \A a \in Account : Carried(a)' = Carried(a)
    BY <1>2 DEF Carried
  <2>2. ASSUME NEW p \in Proc, planned'[p] # <<>>, NEW a \in Account
        PROVE  LET e == planned'[p][1].entries IN
               IF a \in DOMAIN e THEN e[a].carriedIn = Carried(a) ELSE Carried(a) = 0
    <3>1. CASE planned'[p] = planned[p]
      BY <2>2, <3>1 DEF CarryInv
    <3>2. ASSUME NEW q \in Proc, NEW win \in Window, NEW total \in Total, NEW bps \in Rates,
                 Plan(q, win[1], win[2], total, bps)
          PROVE  LET e == planned'[p][1].entries IN
                 IF a \in DOMAIN e THEN e[a].carriedIn = Carried(a) ELSE Carried(a) = 0
      <4>1. PICK r : r = Drawn(win[1], win[2], total, bps)
        OBVIOUS
      <4>2. /\ planned' = [planned EXCEPT ![q] = <<r>>]
            /\ total = 0 \/ Whole([b \in Subjects(win[1], win[2]) |-> WeightIn(b, win[1], win[2])]) > 0
        BY <3>2, <4>1, PlanIs
      <4>3. planned'[p][1] = r
        BY <1>0, <4>2 DEF OneCommand, Shape
      <4>4. win[1] \in Time /\ win[2] \in Time /\ total \in Nat
        <5>1. win[1] \in Time /\ win[2] \in Time
          BY <1>0, <3>2, PlanWindow
        <5> QED
          BY <5>1, Bounds
      <4>5. IF a \in DOMAIN r.entries THEN r.entries[a].carriedIn = Carried(a)
            ELSE Carried(a) = 0
        BY <1>0, <4>1, <4>2, <4>4, DrawnCarry
      <4> QED
        BY <4>3, <4>5
    <3>3. ASSUME NEW q \in Proc, Record(q) \/ Quit(q)
          PROVE  FALSE
      <4>1. planned' = [planned EXCEPT ![q] = <<>>]
        BY <3>3 DEF Record, Quit
      <4> QED
        BY <1>0, <2>2, <4>1 DEF OneCommand, Shape
    <3>4. ASSUME \/ \E b \in Account, t \in Time, w \in Weight : RecordShare(b, t, w)
                 \/ Tick \/ UNCHANGED vars
          PROVE  planned'[p] = planned[p]
      BY <3>4 DEF RecordShare, Tick, vars
    <3> QED
      BY <3>1, <3>2, <3>3, <3>4 DEF Next
  <2> QED
    BY <2>1, <2>2 DEF CarryInv
<1> QED
  BY <1>0, <1>1, <1>2, RoundsStep

LEMMA InitCarryInv == Init => CarryInv
<1> SUFFICES ASSUME Init
             PROVE  CarryInv
  OBVIOUS
<1>1. DOMAIN rounds = {}
  BY DEF Init
<1>2. \A a \in Account : Carried(a) = 0
  BY <1>1, SumEmpty, CarriedIs
<1> QED
  BY <1>2 DEF CarryInv, Init

\* With one payout command at a time, balances roll and nobody is stranded:
\* whoever is owed is in the next round, and whoever is in a round is owed less
\* than the minimum after it (payouts.ts:74-77, 177-190).
THEOREM NobodyStaysStranded == OneCommand => (Spec => NobodyIsStranded)
<1> SUFFICES ASSUME OneCommand
             PROVE  Spec => NobodyIsStranded
  OBVIOUS
<1> DEFINE Rolls ==
      \A a \in Account :
        Len(rounds') > Len(rounds) =>
          LET r == rounds'[Len(rounds')] IN
          /\ Carried(a) > 0 => a \in DOMAIN r.entries
          /\ a \in DOMAIN r.entries => Carried(a)' < MinPayout \/ Carried(a)' = 0
<1>1. PayoutsInv /\ CarryInv /\ [Next]_vars => CarryInv'
  BY NextCarryInv
<1>2. PayoutsInv /\ CarryInv /\ [Next]_vars => [Rolls]_vars
  <2> SUFFICES ASSUME PayoutsInv, CarryInv, [Next]_vars
               PROVE  Rolls
    OBVIOUS
  <2>0. Shape /\ Len(rounds) \in Nat
    BY RoundsIndexed DEF PayoutsInv
  <2>1. CASE rounds' = rounds
    BY <2>0, <2>1
  <2>2. ASSUME NEW p \in Proc, NEW r \in RoundRec, Adding(p, r)
        PROVE  Rolls
    <3>1. rounds'[Len(rounds')] = r
      BY <2>2 DEF Adding
    <3>2. \A a \in Account :
            /\ Carried(a) > 0 => a \in DOMAIN r.entries
            /\ a \in DOMAIN r.entries => Carried(a)' < MinPayout \/ Carried(a)' = 0
      BY <2>2, CarryAfter
    <3> QED
      BY <3>1, <3>2
  <2> QED
    BY <2>0, <2>1, <2>2, RoundsStep
<1>3. Spec => [][Rolls]_vars
  <2> HIDE DEF Rolls
  <2> QED
    BY <1>1, <1>2, InitCarryInv, PayoutsInvariant, PTL DEF Spec
<1> QED
  BY <1>3 DEF NobodyIsStranded

-----------------------------------------------------------------------------
(* Treasury: a round is paid at most once, whoever pays it.                *)

MoneyShape ==
  /\ paid \subseteq Payment
  /\ received \in [Account -> Int]
  /\ way \in [1..MaxRounds -> {"open", "wallet", "external"}]
  /\ calls \in [1..MaxRounds -> SUBSET Op]
  /\ Len(rounds) <= MaxRounds

\* The wallet pays only what it was called for, it is called once, and it is
\* called for no round that was paid by hand.
PaidInv ==
  /\ \A i \in 1..MaxRounds, o \in Op : <<i, o>> \in paid => o \in calls[i]
  /\ \A i \in 1..MaxRounds : \A o, q \in calls[i] : o = q
  /\ \A i \in 1..MaxRounds : way[i] # "wallet" => calls[i] = {}
  /\ \A i \in 1..MaxRounds : ByHand(i) => way[i] # "wallet"
  /\ \A x \in paid : x[1] \in DOMAIN rounds

IsPaid(i) == \E h \in Op \cup {Hand} : <<i, h>> \in paid
Reached(i, a) == IF IsPaid(i) THEN AmountOf(i, a) ELSE 0

ReceivedInv ==
  \A a \in Account :
    received[a] = Sum([i \in DOMAIN rounds |-> Reached(i, a)], DOMAIN rounds)

MoneyInv == MoneyShape /\ PaidInv /\ ReceivedInv

LEMMA AmountType ==
  ASSUME Shape, NEW i \in DOMAIN rounds, NEW a \in Account
  PROVE  AmountOf(i, a) \in Nat /\ Reached(i, a) \in Nat
<1>1. rounds[i] \in RoundRec
  BY RoundsIndexed
<1>2. a \in DOMAIN rounds[i].entries => rounds[i].entries[a]["amount"] \in Nat
  BY <1>1, EntryField DEF EntryRec
<1>3. AmountOf(i, a) \in Nat
  BY <1>2 DEF AmountOf, In
<1> QED
  BY <1>3 DEF Reached

LEMMA InitMoneyInv == TreasuryInit => MoneyInv
<1> SUFFICES ASSUME TreasuryInit
             PROVE  MoneyInv
  OBVIOUS
<1>1. /\ rounds = <<>> /\ paid = {} /\ received = [a \in Account |-> 0]
      /\ way = [i \in 1..MaxRounds |-> "open"] /\ calls = [i \in 1..MaxRounds |-> {}]
  BY DEF TreasuryInit, Init, R!Init
<1>2. MoneyShape
  <2>1. Len(rounds) <= MaxRounds
    BY <1>1, TreasuryAssumption
  <2> QED
    BY <1>1, <2>1 DEF MoneyShape
<1>3. PaidInv
  BY <1>1 DEF PaidInv, ByHand
<1>4. ReceivedInv
  <2>1. DOMAIN rounds = {}
    BY <1>1
  <2> QED
    BY <1>1, <2>1, SumEmpty DEF ReceivedInv
<1> QED
  BY <1>2, <1>3, <1>4 DEF MoneyInv

LEMMA PlanningKeepsMoney ==
  ASSUME Shape, MoneyInv, Planning
  PROVE  MoneyInv'
<1>0. /\ Next /\ Len(rounds') <= MaxRounds
      /\ UNCHANGED <<paid, received, way, calls>>
  BY DEF Planning, books, money
<1>1. MoneyShape'
  BY <1>0 DEF MoneyInv, MoneyShape
<1>2. CASE rounds' = rounds
  <2>1. PaidInv'
    BY <1>0, <1>2 DEF MoneyInv, PaidInv, ByHand
  <2>2. ReceivedInv'
    BY <1>0, <1>2 DEF MoneyInv, ReceivedInv, Reached, IsPaid, AmountOf
  <2> QED
    BY <1>1, <2>1, <2>2 DEF MoneyInv
<1>3. ASSUME NEW p \in Proc, NEW r \in RoundRec, Adding(p, r)
      PROVE  MoneyInv'
  <2>0. Len(rounds) \in Nat /\ DOMAIN rounds = 1..Len(rounds)
        /\ DOMAIN rounds' = 1..(Len(rounds) + 1)
    BY <1>3, RoundsIndexed DEF Adding
  <2>1. PaidInv'
    <3>1. \A x \in paid : x[1] \in DOMAIN rounds'
      BY <2>0 DEF MoneyInv, PaidInv
    <3> QED
      BY <1>0, <3>1 DEF MoneyInv, PaidInv, ByHand
  <2>2. ReceivedInv'
    <3> SUFFICES ASSUME NEW a \in Account
                 PROVE  (received[a] = Sum([i \in DOMAIN rounds |-> Reached(i, a)],
                                           DOMAIN rounds))'
      BY DEF ReceivedInv
    <3>1. PICK f : f = [i \in DOMAIN rounds |-> Reached(i, a)]
      OBVIOUS
    <3>2. PICK g : g = [i \in DOMAIN rounds' |-> Reached(i, a)']
      OBVIOUS
    <3>3. \A i \in DOMAIN rounds : f[i] \in Int /\ g[i] = f[i]
      <4> SUFFICES ASSUME NEW i \in DOMAIN rounds
                   PROVE  f[i] \in Int /\ g[i] = f[i]
        OBVIOUS
      <4>1. i \in DOMAIN rounds' /\ rounds'[i] = rounds[i]
        BY <1>3, <2>0 DEF Adding
      <4>2. Reached(i, a)' = Reached(i, a)
        BY <1>0, <4>1 DEF Reached, IsPaid, AmountOf
      <4>3. f[i] \in Nat
        BY <3>1, AmountType
      <4> QED
        BY <3>1, <3>2, <4>1, <4>2, <4>3
    <3>4. g[Len(rounds) + 1] = 0
      <4>0. PICK n \in Nat : n = Len(rounds) + 1
        BY <2>0
      <4>1. n \in DOMAIN rounds' /\ n \notin DOMAIN rounds
        BY <2>0, <4>0
      <4>2. \A h : <<n, h>> \notin paid
        <5>1. \A h : <<n, h>>[1] = n
          OBVIOUS
        <5> QED
          BY <4>1, <5>1 DEF MoneyInv, PaidInv
      <4>3. Reached(n, a)' = 0
        BY <1>0, <4>2 DEF Reached, IsPaid
      <4> QED
        BY <3>2, <4>0, <4>1, <4>3
    <3>5. Sum(g, DOMAIN rounds') = Sum(f, DOMAIN rounds) + g[Len(rounds) + 1]
      <4>1. g[Len(rounds) + 1] \in Int
        BY <3>4
      <4> QED
        BY <1>3, <3>3, <4>1, RoundsSum
    <3>6. received[a] = Sum(f, DOMAIN rounds) /\ received[a] \in Int
      BY <3>1 DEF MoneyInv, ReceivedInv, MoneyShape
    <3>7. received[a] = Sum(g, DOMAIN rounds')
      BY ONLY <3>4, <3>5, <3>6
    <3> QED
      BY <1>0, <3>2, <3>7
  <2> QED
    BY <1>1, <2>1, <2>2 DEF MoneyInv
<1> QED
  BY <1>0, <1>2, <1>3, RoundsStep

LEMMA BooksKeepMoney ==
  ASSUME MoneyInv, NEW i \in 1..MaxRounds, Books(i)
  PROVE  MoneyInv'
<1>0. UNCHANGED <<rounds, paid, received>>
  BY DEF Books, vars, money
<1>1. MoneyShape' /\ PaidInv'
  <2>1. CASE ClaimRound(i)
    <3>1. way' = [way EXCEPT ![i] = "wallet"] /\ calls' = calls /\ ~ByHand(i) /\ way[i] = "open"
      BY <2>1 DEF ClaimRound, R!Claim
    <3> QED
      BY <1>0, <3>1 DEF MoneyInv, MoneyShape, PaidInv, ByHand
  <2>2. ASSUME NEW o \in Op, R!Call(i, o)
        PROVE  MoneyShape' /\ PaidInv'
    <3>1. way' = way /\ calls' = [calls EXCEPT ![i] = {o}] /\ way[i] = "wallet" /\ calls[i] = {}
      BY <2>2 DEF R!Call
    <3> QED
      BY <1>0, <3>1 DEF MoneyInv, MoneyShape, PaidInv, ByHand
  <2>3. ASSUME (\E o \in calls[i] : <<i, o>> \in paid /\ R!Complete(i, <<i, o>>)) \/ R!Fail(i)
        PROVE  MoneyShape' /\ PaidInv'
    <3>1. way' = way /\ calls' = calls
      BY <2>3 DEF R!Complete, R!Fail
    <3> QED
      BY <1>0, <3>1 DEF MoneyInv, MoneyShape, PaidInv, ByHand
  <2>4. CASE ByHand(i) /\ R!Settle(i, <<i, Hand>>)
    <3>1. way' = [way EXCEPT ![i] = "external"] /\ calls' = calls /\ way[i] = "open"
      BY <2>4 DEF R!Settle
    <3> QED
      BY <1>0, <3>1 DEF MoneyInv, MoneyShape, PaidInv, ByHand
  <2> QED
    BY <2>1, <2>2, <2>3, <2>4 DEF Books
<1>2. ReceivedInv'
  BY <1>0 DEF MoneyInv, ReceivedInv, Reached, IsPaid, AmountOf
<1> QED
  BY <1>1, <1>2 DEF MoneyInv

LEMMA PayKeepsMoney ==
  ASSUME Shape, MoneyInv, NEW i \in DOMAIN rounds, NEW how \in Op \cup {Hand}, Pay(i, how),
         how \in Op => how \in calls[i], how = Hand => way[i] = "open"
  PROVE  MoneyInv'
<1>0. /\ paid' = paid \cup {<<i, how>>} /\ <<i, how>> \notin paid
      /\ received' = [a \in Account |-> received[a] + AmountOf(i, a)]
      /\ UNCHANGED <<rounds, way, calls>>
  BY DEF Pay, vars, books
<1>1. i \in 1..MaxRounds
  <2>1. Len(rounds) \in Nat /\ DOMAIN rounds = 1..Len(rounds) /\ Len(rounds) <= MaxRounds
        /\ MaxRounds \in Nat
    BY RoundsIndexed, TreasuryAssumption DEF MoneyInv, MoneyShape
  <2> QED
    BY <2>1
<1>2. Hand \notin Op
  BY TreasuryAssumption DEF Hand
<1>3. ~IsPaid(i)
  <2> SUFFICES ASSUME NEW h \in Op \cup {Hand}, <<i, h>> \in paid
               PROVE  FALSE
    BY DEF IsPaid
  <2>1. h # how
    BY <1>0
  <2>2. CASE h \in Op /\ how \in Op
    BY <1>1, <2>1, <2>2 DEF MoneyInv, PaidInv
  <2>3. CASE h \in Op /\ how = Hand
    BY <1>1, <2>3 DEF MoneyInv, PaidInv
  <2>4. CASE h = Hand /\ how \in Op
    BY <1>1, <2>4 DEF MoneyInv, PaidInv, ByHand
  <2> QED
    BY <2>1, <2>2, <2>3, <2>4
<1>4. MoneyShape'
  <2>1. <<i, how>> \in Payment
    BY <1>1 DEF Payment
  <2>2. \A a \in Account : AmountOf(i, a) \in Int
    BY AmountType
  <2>3. \A a \in Account : received[a] + AmountOf(i, a) \in Int
    BY <2>2 DEF MoneyInv, MoneyShape
  <2>4. received' \in [Account -> Int]
    BY <1>0, <2>3
  <2>5. paid' \subseteq Payment
    BY <1>0, <2>1 DEF MoneyInv, MoneyShape
  <2> QED
    BY <1>0, <2>4, <2>5 DEF MoneyInv, MoneyShape
<1>5. PaidInv'
  <2>1. \A j \in 1..MaxRounds, o \in Op : <<j, o>> \in paid' => o \in calls[j]
    BY <1>0 DEF MoneyInv, PaidInv
  <2>2. \A j \in 1..MaxRounds : <<j, Hand>> \in paid' => way[j] # "wallet"
    BY <1>0, <1>2 DEF MoneyInv, PaidInv, ByHand
  <2>3. \A x \in paid' : x[1] \in DOMAIN rounds
    BY <1>0 DEF MoneyInv, PaidInv
  <2> QED
    BY <1>0, <2>1, <2>2, <2>3 DEF MoneyInv, PaidInv, ByHand
<1>6. ReceivedInv'
  <2> SUFFICES ASSUME NEW a \in Account
               PROVE  received'[a] = Sum([j \in DOMAIN rounds |-> Reached(j, a)'],
                                         DOMAIN rounds)
    BY <1>0 DEF ReceivedInv
  <2>1. PICK f : f = [j \in DOMAIN rounds |-> Reached(j, a)]
    OBVIOUS
  <2>2. PICK g : g = [j \in DOMAIN rounds |-> Reached(j, a)']
    OBVIOUS
  <2>3. PICK d \in Int : d = AmountOf(i, a)
    BY AmountType
  <2>4. \A j \in DOMAIN rounds : j # i => g[j] = f[j]
    <3> SUFFICES ASSUME NEW j \in DOMAIN rounds, j # i
                 PROVE  Reached(j, a)' = Reached(j, a)
      BY <2>1, <2>2
    <3>1. \A h : <<j, h>> \in paid' <=> <<j, h>> \in paid
      BY <1>0
    <3> QED
      BY <1>0, <3>1 DEF Reached, IsPaid, AmountOf
  <2>5. g[i] = f[i] + d
    <3>1. f[i] = 0
      BY <1>3, <2>1 DEF Reached
    <3>2. IsPaid(i)'
      BY <1>0 DEF IsPaid
    <3>3. g[i] = d
      BY <1>0, <2>2, <2>3, <3>2 DEF Reached, AmountOf
    <3> QED
      BY <3>1, <3>3
  <2>6. IsFiniteSet(DOMAIN rounds) /\ \A j \in DOMAIN rounds : f[j] \in Int
    <3>1. \A j \in DOMAIN rounds : Reached(j, a) \in Nat
      BY AmountType
    <3> QED
      BY <2>1, <3>1, RoundsIndexed
  <2>7. Sum(g, DOMAIN rounds) = Sum(f, DOMAIN rounds) + d
    BY <2>4, <2>5, <2>6, SumUpdate
  <2>8. received[a] = Sum(f, DOMAIN rounds)
    BY <2>1 DEF MoneyInv, ReceivedInv
  <2>9. received'[a] = received[a] + d
    BY <1>0, <2>3
  <2> QED
    BY <2>2, <2>7, <2>8, <2>9
<1> QED
  BY <1>4, <1>5, <1>6 DEF MoneyInv

-----------------------------------------------------------------------------
(* Treasury: what is received and what is carried are earned, for any      *)
(* number of payout commands at once.                                      *)

BookedInv == PayoutsInv /\ MoneyInv

LEMMA NextBookedInv ==
  ASSUME BookedInv, [TreasuryNext]_treasuryVars
  PROVE  BookedInv'
<1>0. Shape /\ PayoutsInv /\ MoneyInv
  BY DEF BookedInv, PayoutsInv
<1>1. CASE Planning
  <2>1. [Next]_vars
    BY <1>1 DEF Planning
  <2> QED
    BY <1>0, <1>1, <2>1, NextPayoutsInv, PlanningKeepsMoney DEF BookedInv
<1>2. ASSUME UNCHANGED vars, MoneyInv'
      PROVE  BookedInv'
  <2>1. [Next]_vars
    BY <1>2
  <2> QED
    BY <1>0, <1>2, <2>1, NextPayoutsInv DEF BookedInv
<1>3. ASSUME NEW i \in DOMAIN rounds
      PROVE  i \in 1..MaxRounds
  <2>1. Len(rounds) \in Nat /\ DOMAIN rounds = 1..Len(rounds) /\ Len(rounds) <= MaxRounds
        /\ MaxRounds \in Nat
    BY <1>0, RoundsIndexed, TreasuryAssumption DEF MoneyInv, MoneyShape
  <2> QED
    BY <2>1
<1>4. ASSUME NEW i \in DOMAIN rounds, Books(i)
      PROVE  BookedInv'
  <2>1. UNCHANGED vars
    BY <1>4 DEF Books
  <2>2. MoneyInv'
    BY <1>0, <1>3, <1>4, BooksKeepMoney
  <2> QED
    BY <1>2, <2>1, <2>2
<1>5. ASSUME NEW i \in DOMAIN rounds, NEW o \in Op, WalletPays(i, o)
      PROVE  BookedInv'
  <2>1. o \in calls[i] /\ Pay(i, o) /\ UNCHANGED vars
    BY <1>5 DEF WalletPays, Pay
  <2>2. o # Hand
    BY TreasuryAssumption DEF Hand
  <2>3. MoneyInv'
    BY <1>0, <2>1, <2>2, PayKeepsMoney
  <2> QED
    BY <1>2, <2>1, <2>3
<1>6. ASSUME NEW i \in DOMAIN rounds, HandPays(i)
      PROVE  BookedInv'
  <2>1. way[i] = "open" /\ Pay(i, Hand) /\ UNCHANGED vars
    BY <1>6 DEF HandPays, Pay
  <2>2. Hand \notin Op
    BY TreasuryAssumption DEF Hand
  <2>3. MoneyInv'
    BY <1>0, <2>1, <2>2, PayKeepsMoney
  <2> QED
    BY <1>2, <2>1, <2>3
<1>7. CASE UNCHANGED treasuryVars
  <2>1. UNCHANGED vars /\ UNCHANGED <<rounds, paid, received, way, calls>>
    BY <1>7 DEF treasuryVars, vars, books, money
  <2>2. MoneyShape' /\ PaidInv'
    BY <1>0, <2>1 DEF MoneyInv, MoneyShape, PaidInv, ByHand
  <2>3. ReceivedInv'
    BY <1>0, <2>1 DEF MoneyInv, ReceivedInv, Reached, IsPaid, AmountOf
  <2>4. MoneyInv'
    BY <2>2, <2>3 DEF MoneyInv
  <2> QED
    BY <1>2, <2>1, <2>4
<1> QED
  BY <1>1, <1>4, <1>5, <1>6, <1>7 DEF TreasuryNext

\* What was earned and not yet paid out by a round is the balance.
LEMMA EarnedIs ==
  ASSUME PayoutsInv, NEW a \in Account
  PROVE  Earned(a) = Sum([i \in DOMAIN rounds |-> AmountOf(i, a)], DOMAIN rounds) + Carried(a)
<1>0. Shape
  BY DEF PayoutsInv
<1>1. PICK f : f = [i \in DOMAIN rounds |-> AmountOf(i, a)]
  OBVIOUS
<1>2. PICK c : c = [i \in DOMAIN rounds |-> Carry(rounds[i], a)]
  OBVIOUS
<1>3. PICK h : h = [i \in DOMAIN rounds |->
                      In(rounds[i], a, "gross") - In(rounds[i], a, "fee")]
  OBVIOUS
<1>4. ASSUME NEW i \in DOMAIN rounds
      PROVE  f[i] \in Int /\ c[i] \in Int /\ h[i] = f[i] + c[i]
  <2>0. PICK r : r = rounds[i] /\ r \in RoundRec /\ Sound(r)
    BY <1>0, HeldIs, RoundsIndexed DEF PayoutsInv, HeldSound
  <2>1. f[i] = In(r, a, "amount") /\ c[i] = Carry(r, a)
        /\ h[i] = In(r, a, "gross") - In(r, a, "fee")
    BY <1>1, <1>2, <1>3, <2>0 DEF AmountOf
  <2>2. CASE a \in DOMAIN r.entries
    <3>1. PICK e : e = r.entries[a] /\ e \in EntryRec /\ Balanced(e)
      BY <2>0, <2>2, EntryField DEF Sound, AllBalanced
    <3>2. /\ f[i] = e.amount /\ c[i] = e.carriedOut - e.carriedIn /\ h[i] = e.gross - e.fee
      BY <2>1, <2>2, <3>1 DEF In, Carry
    <3>3. /\ e.gross \in Nat /\ e.fee \in Nat /\ e.amount \in Nat
          /\ e.carriedIn \in Int /\ e.carriedOut \in Int
      BY <3>1 DEF EntryRec
    <3>4. e.amount + e.carriedOut = e.gross - e.fee + e.carriedIn
      BY <3>1 DEF Balanced
    <3> QED
      BY ONLY <3>2, <3>3, <3>4
  <2>3. CASE a \notin DOMAIN r.entries
    <3>1. f[i] = 0 /\ c[i] = 0 /\ h[i] = 0 - 0
      BY <2>1, <2>3 DEF In, Carry
    <3> QED
      BY ONLY <3>1
  <2> QED
    BY <2>2, <2>3
<1>5. Adds(f, c, h, DOMAIN rounds)
  <2>1. \A i \in DOMAIN rounds : h[i] = f[i] + c[i]
    BY <1>4
  <2>2. \A i \in DOMAIN rounds : f[i] \in Int /\ c[i] \in Int
    BY <1>4
  <2> QED
    BY <2>1, <2>2 DEF Adds
<1>6. IsFiniteSet(DOMAIN rounds)
  BY <1>0, RoundsIndexed
<1>7. Sum(h, DOMAIN rounds) = Sum(f, DOMAIN rounds) + Sum(c, DOMAIN rounds)
  BY <1>5, <1>6, SumPlus
<1> QED
  BY <1>1, <1>2, <1>3, <1>7, CarriedIs DEF Earned

\* Whatever becomes of the rounds (sent early or late, failed, paid by hand, never
\* paid), and however many payout commands plan and record at once, what an
\* account has received and what the books still carry for it are together at most
\* its parts of all rounds less their fees (payouts.ts:74-94, 177-186, 205-237,
\* dispatch.ts:20-24, 70-83).
THEOREM ReceivedStaysAccounted == TreasurySpec => []ReceivedIsAccounted
<1>1. TreasuryInit => BookedInv
  BY InitPayoutsInv, InitMoneyInv DEF TreasuryInit, BookedInv
<1>2. BookedInv /\ [TreasuryNext]_treasuryVars => BookedInv'
  BY NextBookedInv
<1>3. BookedInv => ReceivedIsAccounted
  <2> SUFFICES ASSUME BookedInv, NEW a \in Account
               PROVE  received[a] + Carried(a) <= Earned(a)
    BY DEF ReceivedIsAccounted
  <2>0. Shape /\ PayoutsInv /\ IsFiniteSet(DOMAIN rounds)
    BY RoundsIndexed DEF BookedInv, PayoutsInv
  <2>1. PICK f : f = [i \in DOMAIN rounds |-> AmountOf(i, a)]
    OBVIOUS
  <2>2. PICK g : g = [i \in DOMAIN rounds |-> Reached(i, a)]
    OBVIOUS
  <2>3. \A i \in DOMAIN rounds : g[i] \in Int /\ f[i] \in Int /\ g[i] <= f[i]
    <3> SUFFICES ASSUME NEW i \in DOMAIN rounds
                 PROVE  g[i] \in Int /\ f[i] \in Int /\ g[i] <= f[i]
      OBVIOUS
    <3>1. AmountOf(i, a) \in Nat
      BY <2>0, AmountType
    <3> QED
      BY <2>1, <2>2, <3>1 DEF Reached
  <2>4. Sum(g, DOMAIN rounds) <= Sum(f, DOMAIN rounds)
    BY <2>0, <2>3, SumAtMost
  <2>5. Sum(g, DOMAIN rounds) \in Int /\ Sum(f, DOMAIN rounds) \in Int
    <3>1. (\A i \in DOMAIN rounds : g[i] \in Int) /\ (\A i \in DOMAIN rounds : f[i] \in Int)
      BY <2>3
    <3> QED
      BY <2>0, <3>1, SumType
  <2>6. received[a] = Sum(g, DOMAIN rounds)
    BY <2>2 DEF BookedInv, MoneyInv, ReceivedInv
  <2>7. Earned(a) = Sum(f, DOMAIN rounds) + Carried(a)
    BY <2>0, <2>1, EarnedIs
  <2>8. Carried(a) \in Int
    BY <2>0, CarriedType
  <2> QED
    BY ONLY <2>4, <2>5, <2>6, <2>7, <2>8
<1> QED
  BY <1>1, <1>2, <1>3, PTL DEF TreasurySpec

-----------------------------------------------------------------------------
(* The rates a plan charges (Fees, resolveFees() of cli/payout.ts), for    *)
(* every ladder, any wallets and accounts, and any transfers and bindings  *)
(* meanwhile.                                                              *)


LEMMA RatesFinite == IsFiniteSet(Payee) /\ Payee \subseteq Nat
BY FeesAssumption

\* Of two tiers one is before the other, and no tier is before itself.
LEMMA BeforeIsOrder ==
  ASSUME NEW t \in Seq(Nat \X Nat)
  PROVE  /\ \A i \in DOMAIN t : ~Before(t, i, i)
         /\ \A i, j \in DOMAIN t :
              i # j => Before(t, i, j) \/ Before(t, j, i)
         /\ \A i, j, k \in DOMAIN t :
              Before(t, i, j) /\ Before(t, j, k) => Before(t, i, k)
<1>1. \A i \in DOMAIN t : i \in Nat /\ t[i][1] \in Nat
  OBVIOUS
<1>2. \A i, j \in DOMAIN t : Before(t, i, j) <=>
        t[i][1] > t[j][1] \/ (t[i][1] = t[j][1] /\ i < j)
  BY DEF Before
<1>3. ASSUME NEW i \in DOMAIN t, NEW j \in DOMAIN t, NEW k \in DOMAIN t
      PROVE  /\ ~Before(t, i, i)
             /\ i # j => Before(t, i, j) \/ Before(t, j, i)
             /\ Before(t, i, j) /\ Before(t, j, k) => Before(t, i, k)
  <2> DEFINE x == t[i][1]
             y == t[j][1]
             z == t[k][1]
  <2>1. i \in Nat /\ j \in Nat /\ k \in Nat /\ x \in Nat /\ y \in Nat /\ z \in Nat
    BY <1>1
  <2>2. /\ Before(t, i, j) <=> x > y \/ (x = y /\ i < j)
        /\ Before(t, j, i) <=> y > x \/ (y = x /\ j < i)
        /\ Before(t, j, k) <=> y > z \/ (y = z /\ j < k)
        /\ Before(t, i, k) <=> x > z \/ (x = z /\ i < k)
        /\ Before(t, i, i) <=> x > x \/ (x = x /\ i < i)
    BY <1>2
  <2> HIDE DEF x, y, z
  <2> QED BY ONLY <2>1, <2>2
<1> QED BY <1>3

\* The tiers ahead of one, and one more, are among those ahead of a later one.
LEMMA PlaceGrows ==
  ASSUME NEW t \in Seq(Nat \X Nat)
  PROVE  /\ \A i \in DOMAIN t : Place(t, i) \in DOMAIN t
         /\ \A i, j \in DOMAIN t :
              Before(t, i, j) => Place(t, i) < Place(t, j)
<1> DEFINE D == DOMAIN t
           Earlier(i) == {j \in D : Before(t, j, i)}
<1>1. D = 1..Len(t) /\ Len(t) \in Nat
  OBVIOUS
<1>2. IsFiniteSet(D) /\ Cardinality(D) = Len(t)
  <2> DEFINE n == Len(t)
  <2>1. D = 1..n /\ n \in Nat
    BY <1>1
  <2> HIDE DEF D, n
  <2>2. IsFiniteSet(1..n) /\ Cardinality(1..n) = n
    <3>1. IsFiniteSet(1..n) /\ Cardinality(1..n) = IF 1 > n THEN 0 ELSE n - 1 + 1
      BY <2>1, FS_Interval
    <3> QED
      BY ONLY <2>1, <3>1
  <2>3. IsFiniteSet(D) /\ Cardinality(D) = n
    BY ONLY <2>1, <2>2
  <2> QED
    BY <2>3 DEF n
<1>3. \A i \in D : Place(t, i) = Cardinality(Earlier(i)) + 1
  BY DEF Place
<1>4. \A i \in D : IsFiniteSet(Earlier(i)) /\ Cardinality(Earlier(i)) \in Nat
  <2> SUFFICES ASSUME NEW i \in D
               PROVE  IsFiniteSet(Earlier(i)) /\ Cardinality(Earlier(i)) \in Nat
    OBVIOUS
  <2>1. Earlier(i) \in SUBSET D
    OBVIOUS
  <2> HIDE DEF Earlier
  <2> QED BY <1>2, <2>1, FS_Subset, FS_CardinalityType
<1>5. \A i \in D : Cardinality(Earlier(i)) + 1 <= Len(t)
  <2> SUFFICES ASSUME NEW i \in D
               PROVE  Cardinality(Earlier(i)) + 1 <= Len(t)
    OBVIOUS
  <2>1. Earlier(i) \in SUBSET (D \ {i})
    BY BeforeIsOrder
  <2> HIDE DEF Earlier
  <2>2. IsFiniteSet(D \ {i}) /\ Cardinality(D \ {i}) = Len(t) - 1
    BY <1>2, FS_RemoveElement
  <2>3. Cardinality(Earlier(i)) <= Cardinality(D \ {i})
    BY <2>1, <2>2, FS_Subset
  <2> QED BY <1>1, <1>4, <2>2, <2>3
<1>6. ASSUME NEW i \in D, NEW j \in D, Before(t, i, j)
      PROVE  Cardinality(Earlier(i)) < Cardinality(Earlier(j))
  <2>1. Earlier(i) \cup {i} \in SUBSET Earlier(j) /\ i \notin Earlier(i)
    BY <1>6, BeforeIsOrder
  <2>2. IsFiniteSet(Earlier(i)) /\ IsFiniteSet(Earlier(j))
    BY <1>4
  <2>3. Cardinality(Earlier(i)) \in Nat /\ Cardinality(Earlier(j)) \in Nat
    BY <1>4
  <2> HIDE DEF Earlier
  <2>4. Cardinality(Earlier(i) \cup {i}) = Cardinality(Earlier(i)) + 1
    BY <2>1, <2>2, FS_AddElement
  <2>5. Cardinality(Earlier(i) \cup {i}) <= Cardinality(Earlier(j))
    BY <2>1, <2>2, FS_Subset
  <2> QED BY <2>3, <2>4, <2>5
<1> HIDE DEF Earlier
<1>7. ASSUME NEW i \in D
      PROVE  Place(t, i) \in D
  <2> DEFINE n == Cardinality(Earlier(i))
  <2>1. n \in Nat /\ n + 1 <= Len(t) /\ Place(t, i) = n + 1
    BY <1>3, <1>4, <1>5
  <2> HIDE DEF n
  <2> QED BY <1>1, <2>1
<1>8. ASSUME NEW i \in D, NEW j \in D, Before(t, i, j)
      PROVE  Place(t, i) < Place(t, j)
  <2>1. Cardinality(Earlier(i)) < Cardinality(Earlier(j))
    BY <1>6, <1>8
  <2>2. Cardinality(Earlier(i)) \in Nat /\ Cardinality(Earlier(j)) \in Nat
    BY <1>4
  <2> QED BY <1>3, <2>1, <2>2
<1> QED BY <1>7, <1>8

\* Every place is that of one tier.
LEMMA PlaceIsTaken ==
  ASSUME NEW t \in Seq(Nat \X Nat), NEW k \in DOMAIN t
  PROVE  \E i \in DOMAIN t : Place(t, i) = k
<1> DEFINE D == DOMAIN t
           f == [i \in D |-> Place(t, i)]
<1>1. SUFFICES ASSUME \A i \in D : Place(t, i) # k
               PROVE  FALSE
  OBVIOUS
<1>2. IsFiniteSet(D) /\ Cardinality(D) \in Nat
  <2> DEFINE n == Len(t)
  <2>1. D = 1..n /\ n \in Nat
    BY LenProperties
  <2> HIDE DEF D, n
  <2>2. IsFiniteSet(D)
    BY <2>1, FS_Interval
  <2> QED BY <2>2, FS_CardinalityType
<1>3. IsFiniteSet(D \ {k}) /\ Cardinality(D \ {k}) = Cardinality(D) - 1
  BY <1>2, FS_RemoveElement
<1>4. f \in [D -> D \ {k}]
  BY <1>1, PlaceGrows
<1>5. \E i, j \in D : i # j /\ f[i] = f[j]
  <2>1. Cardinality(D \ {k}) < Cardinality(D)
    BY <1>2, <1>3
  <2> HIDE DEF f, D
  <2> QED BY <1>2, <1>3, <1>4, <2>1, FS_PigeonHole
<1>6. PICK i \in D, j \in D : i # j /\ Place(t, i) = Place(t, j)
  BY <1>5
<1>7. Place(t, i) < Place(t, j) \/ Place(t, j) < Place(t, i)
  BY <1>6, BeforeIsOrder, PlaceGrows
<1>8. Place(t, i) \in Nat /\ Place(t, j) \in Nat
  <2> DEFINE n == Len(t)
  <2>1. D = 1..n /\ n \in Nat
    BY LenProperties
  <2>2. Place(t, i) \in D /\ Place(t, j) \in D
    BY <1>6, PlaceGrows
  <2> HIDE DEF D, n
  <2> QED BY ONLY <2>1, <2>2
<1> QED BY <1>6, <1>7, <1>8

\* The tier at a place of the sorted ladder is the one whose place it is.
LEMMA SortedAt ==
  ASSUME NEW t \in Seq(Nat \X Nat)
  PROVE  /\ DOMAIN Sorted(t) = DOMAIN t
         /\ \A k \in DOMAIN t : \E i \in DOMAIN t :
              Place(t, i) = k /\ Sorted(t)[k] = t[i]
         /\ \A i \in DOMAIN t : Sorted(t)[Place(t, i)] = t[i]
<1>1. ASSUME NEW k \in DOMAIN t
      PROVE  \E i \in DOMAIN t : Place(t, i) = k /\ Sorted(t)[k] = t[i]
  <2>1. PICK i \in DOMAIN t : Place(t, i) = k
    BY PlaceIsTaken
  <2>2. PICK j : j = CHOOSE m \in DOMAIN t : Place(t, m) = k
    OBVIOUS
  <2>3. j \in DOMAIN t /\ Place(t, j) = k
    BY <2>1, <2>2
  <2> QED BY <2>2, <2>3 DEF Sorted
<1>2. ASSUME NEW i \in DOMAIN t
      PROVE  Sorted(t)[Place(t, i)] = t[i]
  <2>1. Place(t, i) \in DOMAIN t
    BY PlaceGrows
  <2>2. PICK j \in DOMAIN t : /\ Place(t, j) = Place(t, i)
                              /\ Sorted(t)[Place(t, i)] = t[j]
    BY <1>1, <2>1
  <2>3. ~Before(t, i, j) /\ ~Before(t, j, i)
    <3>1. Place(t, j) \in Nat
      BY PlaceGrows
    <3> QED BY <2>2, <3>1, PlaceGrows
  <2>4. i = j
    BY <2>3, BeforeIsOrder
  <2> QED BY <2>2, <2>4
<1>3. DOMAIN Sorted(t) = DOMAIN t
  BY DEF Sorted
<1> QED BY <1>1, <1>2, <1>3

LEMMA RatesMin ==
  ASSUME NEW S \in SUBSET Nat, S # {}
  PROVE  Min(S) \in S /\ \A n \in S : Min(S) <= n
<1>1. PICK m \in S : \A n \in S : <<n, m>> \notin OpToRel(<, Nat)
  BY WFMin, NatLessThanWellFounded
<1>2. ASSUME NEW n \in S
      PROVE  m <= n
  <2>1. n < m => <<n, m>> \in OpToRel(<, Nat)
    BY DEF OpToRel
  <2>2. ~(n < m)
    BY <1>1, <2>1
  <2> QED BY <2>2
<1> QED BY <1>2 DEF Min

\* The rung a balance gets by sorting is the one said without sorting.
LEMMA RateIsRung ==
  ASSUME text \in Seq(Nat \X Nat), Parses(text), NEW b \in Nat
  PROVE  FeeBpsForBalance(b) = Rung(text, b)
<1> DEFINE D == DOMAIN text
           S == {i \in D : text[i][1] <= b}
           P == {Place(text, i) : i \in S}
           tiers == Sorted(text)
           reached == {k \in DOMAIN tiers : b >= tiers[k][1]}
           Best(i) == /\ text[i][1] <= b
                      /\ \A j \in D : text[j][1] <= b =>
                           text[j][1] < text[i][1] \/ (text[j][1] = text[i][1] /\ i <= j)
<1>1. \A i \in D : i \in Nat /\ text[i][1] \in Nat
  OBVIOUS
<1>2. S # {}
  BY <1>1 DEF Parses
<1>3. P \in SUBSET Nat /\ P # {}
  <2>1. D \subseteq Nat
    BY <1>1
  <2> QED BY <1>2, <2>1, PlaceGrows
<1>4. reached = P
  <2>1. ASSUME NEW k \in reached
        PROVE  k \in P
    <3>1. PICK i \in D : Place(text, i) = k /\ tiers[k] = text[i]
      BY SortedAt
    <3>2. i \in S
      BY <1>1, <2>1, <3>1
    <3> QED BY <3>1, <3>2
  <2>2. ASSUME NEW i \in S
        PROVE  Place(text, i) \in reached
    <3>1. Place(text, i) \in DOMAIN tiers /\ tiers[Place(text, i)] = text[i]
      BY SortedAt, PlaceGrows
    <3> QED BY <1>1, <2>2, <3>1
  <2> QED BY <2>1, <2>2
<1>5. PICK m \in S : Min(P) = Place(text, m)
  <2>1. Min(P) \in P
    <3> HIDE DEF P
    <3> QED BY <1>3, RatesMin
  <2> QED BY <2>1
<1>6. ASSUME NEW j \in S
      PROVE  Place(text, m) <= Place(text, j)
  <2>1. Place(text, j) \in P
    OBVIOUS
  <2>2. Min(P) <= Place(text, j)
    <3> HIDE DEF P
    <3> QED BY <1>3, <2>1, RatesMin
  <2> QED BY <1>5, <2>2
<1>7. Best(m)
  <2>1. ASSUME NEW j \in D, text[j][1] <= b
        PROVE  text[j][1] < text[m][1] \/ (text[j][1] = text[m][1] /\ m <= j)
    <3>1. Place(text, m) <= Place(text, j)
      BY <1>6, <2>1
    <3>2. Place(text, m) \in Nat /\ Place(text, j) \in Nat
      <4>1. D \subseteq Nat
        BY <1>1
      <4> QED BY <4>1, PlaceGrows
    <3>3. ~Before(text, j, m)
      BY <3>1, <3>2, PlaceGrows
    <3> QED BY <1>1, <3>3 DEF Before
  <2> QED BY <1>5, <2>1
<1>8. ASSUME NEW i \in D, Best(i)
      PROVE  i = m
  <2>1. text[i][1] \in Nat /\ text[m][1] \in Nat /\ i \in Nat /\ m \in Nat
    BY <1>1
  <2>2. text[i][1] <= b /\ text[m][1] <= b
    BY <1>8
  <2>3. text[m][1] < text[i][1] \/ (text[m][1] = text[i][1] /\ i <= m)
    BY <1>8, <2>2
  <2>4. text[i][1] < text[m][1] \/ (text[i][1] = text[m][1] /\ m <= i)
    BY <1>7, <2>2
  <2> QED BY <2>1, <2>3, <2>4
<1>9. Rung(text, b) = text[m][2]
  <2>1. Rung(text, b) = text[CHOOSE i \in D : Best(i)][2]
    BY DEF Rung
  <2>2. (CHOOSE i \in D : Best(i)) = m
    <3> HIDE DEF Best
    <3> QED BY <1>7, <1>8
  <2> QED BY <2>1, <2>2
<1>10. FeeBpsForBalance(b) = text[m][2]
  <2>1. reached # {}
    BY <1>3, <1>4
  <2>2. FeeBpsForBalance(b) = tiers[Min(reached)][2]
    BY <2>1 DEF FeeBpsForBalance
  <2>3. tiers[Place(text, m)] = text[m]
    BY SortedAt
  <2> QED BY <1>4, <1>5, <2>2, <2>3
<1> QED BY <1>9, <1>10

LEMMA RateInRange ==
  ASSUME text \in Seq(Nat \X Nat), Parses(text), NEW b \in Nat
  PROVE  FeeBpsForBalance(b) \in 0..MaxBps
<1> DEFINE tiers == Sorted(text)
           reached == {k \in DOMAIN tiers : b >= tiers[k][1]}
<1>1. \E k \in DOMAIN tiers : FeeBpsForBalance(b) = tiers[k][2]
  <2>1. CASE reached = {}
    <3>1. Len(tiers) \in DOMAIN tiers
      <4>1. text # <<>> /\ tiers = [k \in DOMAIN text |-> tiers[k]]
        BY DEF Parses, Sorted
      <4>2. DOMAIN text = 1..Len(text) /\ Len(text) \in Nat /\ Len(text) # 0
        BY <4>1
      <4>3. Len(tiers) = Len(text)
        BY <4>2, SortedAt
      <4> QED BY <4>2, <4>3, SortedAt
    <3> QED BY <2>1, <3>1 DEF FeeBpsForBalance
  <2>2. CASE reached # {}
    <3>1. reached \in SUBSET Nat
      <4>1. DOMAIN text \subseteq Nat
        OBVIOUS
      <4>2. DOMAIN tiers = DOMAIN text
        BY SortedAt
      <4> QED BY <4>1, <4>2
    <3>2. Min(reached) \in reached
      <4> HIDE DEF reached
      <4> QED BY <2>2, <3>1, RatesMin
    <3> QED BY <2>2, <3>2 DEF FeeBpsForBalance
  <2> QED BY <2>1, <2>2
<1>2. \A k \in DOMAIN tiers : \E i \in DOMAIN text : tiers[k] = text[i]
  BY SortedAt
<1>3. \A i \in DOMAIN text : text[i][2] \in Nat /\ text[i][2] <= MaxBps
  BY DEF Parses, InRange
<1> QED BY <1>1, <1>2, <1>3

\* Every balance read is what the listed wallet held at some moment of the
\* command, or part of it and marked so, or 0 and marked as not read.
Readable(a, m) == IF a \in skipped THEN 0..m[listed[a]] ELSE {m[listed[a]]}

BalanceSeen(a) ==
  IF a \in failed THEN balance[a] = 0
  ELSE \E m \in moments : balance[a] \in Readable(a, m)

FeesInv ==
  /\ text \in Text /\ held \in [Wallet -> Nat]
  /\ bound \in [Payee -> Wallet \cup {Null}]
  /\ moments \subseteq [Wallet -> Nat]
  /\ unread \subseteq Payee /\ failed \cup skipped \subseteq DOMAIN balance
  /\ DOMAIN balance \subseteq Payee /\ unread \cap DOMAIN balance = {}
  /\ listed = Null => unread = {} /\ DOMAIN balance = {}
  /\ listed # Null => /\ listed \in [Payee -> Wallet \cup {Null}]
                      /\ Parses(text) /\ held \in moments
  /\ \A a \in unread \cup DOMAIN balance : listed[a] \in Wallet
  /\ \A a \in DOMAIN balance : balance[a] \in Nat /\ BalanceSeen(a)
  /\ Quoted => unread = {}
  /\ RateIsVerified

\* What the command charges, whether it read any balance or not.
LEMMA QuoteVerified ==
  ASSUME FeesInv, Parses(text),
         fee' = [a \in Payee |->
                   FeeBpsForBalance(IF a \in DOMAIN balance THEN balance[a] ELSE 0)],
         UNCHANGED <<text, listed, balance, failed, skipped, moments>>
  PROVE  RateIsVerified'
<1>1. text \in Seq(Nat \X Nat)
  BY FeesAssumption DEF FeesInv
<1> SUFFICES ASSUME NEW a \in Payee
             PROVE  /\ fee'[a] \in 0..MaxBps
                    /\ IF a \in DOMAIN balance \ failed
                       THEN \E m \in moments : \E b \in Readable(a, m) : fee'[a] = Rung(text, b)
                       ELSE fee'[a] = Rung(text, 0)
  BY DEF RateIsVerified, Readable
<1> DEFINE b == IF a \in DOMAIN balance THEN balance[a] ELSE 0
<1>2. b \in Nat
  BY DEF FeesInv
<1>3. fee'[a] = FeeBpsForBalance(b)
  OBVIOUS
<1>4. fee'[a] = Rung(text, b) /\ fee'[a] \in 0..MaxBps
  <2> HIDE DEF b
  <2> QED BY <1>1, <1>2, <1>3, RateIsRung, RateInRange
<1>5. CASE a \in DOMAIN balance \ failed
  <2>1. PICK m \in moments : balance[a] \in Readable(a, m)
    BY <1>5 DEF FeesInv, BalanceSeen
  <2> QED BY <1>4, <1>5, <2>1
<1>6. CASE a \notin DOMAIN balance \ failed
  <2>1. b = 0
    BY <1>6 DEF FeesInv, BalanceSeen
  <2> QED BY <1>4, <1>6, <2>1
<1> QED BY <1>5, <1>6

\* One account read: its balance is what its wallet holds now, or part of that,
\* or it failed.
LEMMA ReadSeen ==
  ASSUME FeesInv, unread # {}, NEW b \in Nat, Read(b),
         UNCHANGED <<text, held, bound, listed, fee, moments>>,
         \/ b = held[listed[Min(unread)]] /\ failed' = failed /\ skipped' = skipped
         \/ /\ b \in 0..held[listed[Min(unread)]]
            /\ failed' = failed /\ skipped' = skipped \cup {Min(unread)}
         \/ b = 0 /\ failed' = failed \cup {Min(unread)} /\ skipped' = skipped
  PROVE  FeesInv'
<1> DEFINE a == Min(unread)
<1>1. a \in unread /\ a \in Payee /\ a \notin DOMAIN balance
  <2>1. unread \in SUBSET Nat
    BY RatesFinite DEF FeesInv
  <2> QED BY <2>1, RatesMin DEF FeesInv
<1>2. listed # Null /\ listed[a] \in Wallet
  BY <1>1 DEF FeesInv
<1>3. /\ balance' = [c \in DOMAIN balance \cup {a} |-> IF c = a THEN b ELSE balance[c]]
      /\ unread' = unread \ {a}
  BY DEF Read
<1> HIDE DEF a
<1>4. ~Quoted /\ ~Quoted'
  BY DEF FeesInv, Quoted
<1>5. /\ failed' \cup skipped' \subseteq DOMAIN balance' /\ DOMAIN balance' = DOMAIN balance \cup {a}
      /\ unread' \subseteq Payee /\ DOMAIN balance' \subseteq Payee
      /\ unread' \cap DOMAIN balance' = {}
  BY <1>1, <1>3 DEF FeesInv, a
<1>6. \A c \in unread' \cup DOMAIN balance' : listed'[c] \in Wallet
  BY <1>1, <1>3, <1>5 DEF FeesInv
<1>7. ASSUME NEW c \in DOMAIN balance'
      PROVE  balance'[c] \in Nat /\ BalanceSeen(c)'
  <2>1. CASE c = a
    <3>1. balance'[c] = b
      BY <1>3, <1>5, <2>1
    <3>2. held \in moments /\ c \notin failed /\ c \notin skipped
      BY <1>1, <1>2, <2>1 DEF FeesInv
    <3>3. CASE b = held[listed[a]] /\ failed' = failed /\ skipped' = skipped
      BY <2>1, <3>1, <3>2, <3>3 DEF BalanceSeen, Readable
    <3>4. CASE b \in 0..held[listed[a]] /\ failed' = failed /\ skipped' = skipped \cup {a}
      BY <2>1, <3>1, <3>2, <3>4 DEF BalanceSeen, Readable
    <3>5. CASE b = 0 /\ failed' = failed \cup {a}
      BY <2>1, <3>1, <3>5 DEF BalanceSeen
    <3> QED BY <3>3, <3>4, <3>5 DEF a
  <2>2. CASE c # a
    <3>1. c \in DOMAIN balance /\ balance'[c] = balance[c]
      BY <1>3, <1>5, <2>2
    <3>2. (c \in failed' <=> c \in failed) /\ (c \in skipped' <=> c \in skipped)
      BY <2>2 DEF a
    <3> QED BY <3>1, <3>2 DEF FeesInv, BalanceSeen, Readable
  <2> QED BY <2>1, <2>2
<1>8. RateIsVerified'
  BY <1>4 DEF RateIsVerified
<1>9. UNCHANGED Parses(text)
  BY DEF Parses, InRange
<1> QED BY <1>2, <1>4, <1>5, <1>6, <1>7, <1>8, <1>9 DEF FeesInv

LEMMA InitFeesInv ==
  ASSUME FeesInit
  PROVE  FeesInv
<1>1. text \in Text /\ bound \in [Payee -> Wallet \cup {Null}]
  BY DEF FeesInit
<1>2. held \in [Wallet -> Nat]
  <2>1. held \in [Wallet -> 0..Supply]
    BY DEF FeesInit
  <2>2. 0..Supply \subseteq Nat
    OBVIOUS
  <2> QED BY <2>1, <2>2
<1>3. /\ listed = Null /\ unread = {} /\ balance = <<>> /\ failed = {} /\ skipped = {}
      /\ fee = Null /\ moments = {}
  BY DEF FeesInit
<1>4. DOMAIN balance = {}
  BY <1>3
<1>5. ~Quoted
  BY <1>3 DEF Quoted
<1> QED BY <1>1, <1>2, <1>3, <1>4, <1>5 DEF FeesInv, RateIsVerified

\* While there are no rates yet, only what was read matters.
LEMMA FeesUnquoted ==
  ASSUME FeesInv, ~Quoted', UNCHANGED <<text, unread, balance, failed, skipped, listed>>,
         held' \in [Wallet -> Nat], bound' \in [Payee -> Wallet \cup {Null}],
         moments \subseteq moments', moments' \subseteq [Wallet -> Nat],
         listed # Null => held' \in moments'
  PROVE  FeesInv'
<1>1. UNCHANGED Parses(text)
  BY DEF Parses, InRange
<1>2. ASSUME NEW a \in DOMAIN balance
      PROVE  BalanceSeen(a)'
  BY DEF FeesInv, BalanceSeen, Readable
<1>3. RateIsVerified'
  BY DEF RateIsVerified
<1> QED BY <1>1, <1>2, <1>3 DEF FeesInv

LEMMA FeesStep ==
  ASSUME FeesInv, [FeesNext]_feesVars
  PROVE  FeesInv'
<1>1. CASE Begin
  <2>1. /\ listed = Null /\ unread = {} /\ DOMAIN balance = {} /\ failed = {}
        /\ skipped = {} /\ ~Quoted
    BY <1>1 DEF Begin, FeesInv, Quoted
  <2>2. /\ moments' = {held} /\ held' = held /\ text' = text /\ bound' = bound
        /\ balance' = balance /\ failed' = failed /\ skipped' = skipped
    BY <1>1 DEF Begin
  <2>3. UNCHANGED Parses(text)
    BY <2>2 DEF Parses, InRange
  <2>4. ~Quoted'
    BY <1>1, <2>1 DEF Begin, Quoted
  <2>5. RateIsVerified'
    BY <2>4 DEF RateIsVerified
  <2>6. CASE Parses(text)
    <3>1. listed' = bound /\ unread' = {a \in Payee : bound[a] # Null}
      BY <1>1, <2>6 DEF Begin
    <3>2. listed' # Null /\ listed' \in [Payee -> Wallet \cup {Null}]
      BY FeesAssumption, <3>1 DEF FeesInv
    <3>3. \A a \in unread' : a \in Payee /\ listed'[a] \in Wallet
      BY <3>1 DEF FeesInv
    <3> QED BY <2>1, <2>2, <2>3, <2>4, <2>5, <2>6, <3>2, <3>3 DEF FeesInv
  <2>7. CASE ~Parses(text)
    <3>1. listed' = listed /\ unread' = unread
      BY <1>1, <2>7 DEF Begin
    <3> QED BY <2>1, <2>2, <2>4, <2>5, <3>1 DEF FeesInv
  <2> QED BY <2>6, <2>7
<1>2. CASE Flat
  <2>1. /\ Parses(text) /\ listed = Null /\ unread = {} /\ DOMAIN balance = {}
        /\ UNCHANGED <<text, held, bound, listed, unread, balance, failed, skipped, moments>>
        /\ fee' = [a \in Payee |-> FeeBpsForBalance(0)]
    BY <1>2 DEF Flat, FeesInv
  <2>2. fee' = [a \in Payee |->
                  FeeBpsForBalance(IF a \in DOMAIN balance THEN balance[a] ELSE 0)]
    BY <2>1
  <2>3. RateIsVerified'
    BY <2>1, <2>2, QuoteVerified
  <2>4. \A a \in DOMAIN balance : BalanceSeen(a)'
    BY <2>1
  <2> QED BY <2>1, <2>3, <2>4 DEF FeesInv
<1>3. CASE ReadBalance
  <2>1. unread # {} /\ Read(held[listed[Min(unread)]])
    BY <1>3 DEF ReadBalance
  <2>2. held[listed[Min(unread)]] \in Nat
    <3>1. unread \in SUBSET Nat
      BY RatesFinite DEF FeesInv
    <3>2. listed[Min(unread)] \in Wallet
      BY <2>1, <3>1, RatesMin DEF FeesInv
    <3> QED BY <3>2 DEF FeesInv
  <2> QED BY <1>3, <2>1, <2>2, ReadSeen DEF ReadBalance
<1>4. CASE ReadPart
  <2>1. PICK b \in 0..held[listed[Min(unread)]] : Read(b)
    BY <1>4 DEF ReadPart
  <2> QED BY <1>4, <2>1, ReadSeen DEF ReadPart
<1>5. CASE ReadFails
  BY <1>5, ReadSeen DEF ReadFails
<1>6. CASE Quote
  <2>1. /\ Parses(text) /\ listed # Null /\ unread = {}
        /\ UNCHANGED <<text, held, bound, listed, unread, balance, failed, skipped, moments>>
        /\ fee' = [a \in Payee |->
                     FeeBpsForBalance(IF a \in DOMAIN balance THEN balance[a] ELSE 0)]
    BY <1>6 DEF Quote, FeesInv
  <2>2. RateIsVerified'
    BY <2>1, QuoteVerified
  <2>3. UNCHANGED Parses(text)
    BY <2>1 DEF Parses, InRange
  <2>4. \A a \in DOMAIN balance : BalanceSeen(a) => BalanceSeen(a)'
    BY <2>1 DEF BalanceSeen, Readable
  <2> QED BY <2>1, <2>2, <2>3, <2>4 DEF FeesInv
<1>7. CASE Transfer
  <2>1. PICK v \in Wallet, w \in Wallet :
          \E n \in 1..held[v] :
            v # w /\ held' = [held EXCEPT ![v] = @ - n, ![w] = @ + n]
    BY <1>7 DEF Transfer
  <2>2. PICK n \in 1..held[v] :
          v # w /\ held' = [held EXCEPT ![v] = @ - n, ![w] = @ + n]
    BY <2>1
  <2>3. held \in [Wallet -> Nat] /\ held[v] \in Nat /\ held[w] \in Nat
    BY DEF FeesInv
  <2>4. held[v] - n \in Nat /\ held[w] + n \in Nat
    BY <2>3
  <2>5. held' \in [Wallet -> Nat]
    BY <2>2, <2>3, <2>4
  <2>6. /\ moments' = moments \cup {held'} /\ ~Quoted'
        /\ UNCHANGED <<text, bound, listed, unread, balance, failed, skipped>>
    BY <1>7 DEF Transfer, Quoted
  <2>7. moments \subseteq moments' /\ moments' \subseteq [Wallet -> Nat] /\ held' \in moments'
    BY <2>5, <2>6 DEF FeesInv
  <2>8. bound' \in [Payee -> Wallet \cup {Null}]
    BY <2>6 DEF FeesInv
  <2> QED BY <2>5, <2>6, <2>7, <2>8, FeesUnquoted
<1>8. CASE BindSolanaAddress
  <2>1. PICK a \in Payee, w \in Wallet : bound' = [bound EXCEPT ![a] = w]
    BY <1>8 DEF BindSolanaAddress
  <2>2. /\ UNCHANGED <<text, held, listed, unread, balance, failed, skipped, moments>>
        /\ ~Quoted'
    BY <1>8 DEF BindSolanaAddress, Quoted
  <2>3. bound' \in [Payee -> Wallet \cup {Null}]
    BY <2>1 DEF FeesInv
  <2>4. /\ held' \in [Wallet -> Nat] /\ moments \subseteq moments'
        /\ moments' \subseteq [Wallet -> Nat]
        /\ listed # Null => held' \in moments'
    BY <2>2 DEF FeesInv
  <2> QED BY <2>2, <2>3, <2>4, FeesUnquoted
<1>9. CASE UNCHANGED feesVars
  <2>1. UNCHANGED <<text, held, bound, listed, unread, balance, failed, skipped, fee, moments>>
    BY <1>9 DEF feesVars
  <2>2. UNCHANGED Parses(text)
    BY <2>1 DEF Parses, InRange
  <2>3. \A a \in DOMAIN balance : BalanceSeen(a) => BalanceSeen(a)'
    BY <2>1 DEF BalanceSeen, Readable
  <2>4. RateIsVerified' /\ (Quoted' <=> Quoted)
    BY <2>1 DEF FeesInv, RateIsVerified, Quoted
  <2> QED BY <2>1, <2>2, <2>3, <2>4 DEF FeesInv
<1> QED BY <1>1, <1>2, <1>3, <1>4, <1>5, <1>6, <1>7, <1>8, <1>9 DEF FeesNext

\* Every account is charged the rung of something its wallet held while the
\* command ran, of no more than that, or the bottom one: no discount that nobody verified
\* (payout.ts:157-160, 173-192), however the ladder was written (tiers.ts).
THEOREM SpecRateIsVerified == FeesSpec => []RateIsVerified
<1>1. FeesInit => FeesInv
  BY InitFeesInv
<1>2. FeesInv /\ [FeesNext]_feesVars => FeesInv'
  BY FeesStep
<1>3. FeesInv => RateIsVerified
  BY DEF FeesInv
<1> QED BY <1>1, <1>2, <1>3, PTL DEF FeesSpec
=============================================================================
