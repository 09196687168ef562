----------------------------- MODULE SumProofs ------------------------------
(***************************************************************************)
(* What sums over finite sets obey.  The installed provers cannot use the  *)
(* library's induction theorems, whose hypotheses are operators: induction *)
(* goes here through the well-founded order on subsets, with the set of    *)
(* the subsets that have the property in place of the property.            *)
(***************************************************************************)
EXTENDS Sums, FiniteSetTheorems, TLAPS

\* Induction over the subsets of a finite set; W holds those with a property.
LEMMA StrongSubsetInduction ==
  ASSUME NEW S, IsFiniteSet(S), NEW W,
         \A T \in SUBSET S : (\A U \in SUBSET T : U # T => U \in W) => T \in W
  PROVE  \A T \in SUBSET S : T \in W
<1> DEFINE Bad == (SUBSET S) \ W
<1>1. SUFFICES ASSUME Bad # {}
               PROVE  FALSE
  OBVIOUS
<1>2. FiniteSubsetsOf(S) = SUBSET S
  BY FS_FiniteSubsetsOfFinite
<1>3. IsWellFoundedOn(StrictSubsetOrdering(S), SUBSET S)
  BY <1>2, FS_StrictSubsetOrderingWellFounded
<1>4. PICK T \in Bad : \A U \in Bad : <<U, T>> \notin StrictSubsetOrdering(S)
  <2> HIDE DEF Bad
  <2>1. Bad \subseteq SUBSET S
    BY DEF Bad
  <2> QED
    BY <1>1, <1>3, <2>1, WFMin
<1>5. ASSUME NEW U \in SUBSET T, U # T
      PROVE  U \in W
  <2>1. <<U, T>> \in StrictSubsetOrdering(S)
    BY <1>5 DEF StrictSubsetOrdering
  <2> QED
    BY <1>4, <2>1
<1> QED
  BY <1>5

LEMMA SubsetInduction ==
  ASSUME NEW S, IsFiniteSet(S), NEW W, {} \in W,
         \A T \in SUBSET S, x \in S : T \in W /\ x \notin T => T \cup {x} \in W
  PROVE  S \in W
<1>1. ASSUME NEW T \in SUBSET S, \A U \in SUBSET T : U # T => U \in W
      PROVE  T \in W
  <2>1. CASE T # {}
    <3>1. PICK x \in T : x \in S
      BY <2>1
    <3>2. T \ {x} \in W /\ (T \ {x}) \cup {x} = T
      BY <1>1, <3>1
    <3> QED
      BY <3>1, <3>2
  <2> QED
    BY <2>1
<1>2. \A T \in SUBSET S : T \in W
  BY <1>1, StrongSubsetInduction
<1> QED
  BY <1>2

\* The recursion by which a sum is defined.
SumStep(f, g, s) == IF s = {} THEN 0
                    ELSE LET x == CHOOSE x \in s : TRUE IN f[x] + g[s \ {x}]

Solves(f, g, S) == g = [s \in SUBSET S |-> SumStep(f, g, s)]

LEMMA NatSetInduction ==
  ASSUME NEW W, 0 \in W, \A n \in Nat : n \in W => n + 1 \in W
  PROVE  Nat \subseteq W
<1> DEFINE Bad == Nat \ W
<1>1. SUFFICES ASSUME Bad # {}
               PROVE  FALSE
  OBVIOUS
<1>2. PICK n \in Bad : \A k \in Bad : <<k, n>> \notin OpToRel(<, Nat)
  <2> HIDE DEF Bad
  <2>1. Bad \subseteq Nat
    BY DEF Bad
  <2> QED
    BY <1>1, <2>1, WFMin, NatLessThanWellFounded
<1>3. n - 1 \in Nat /\ n - 1 \in W
  <2>1. n # 0
    OBVIOUS
  <2>2. n - 1 \in Nat /\ <<n - 1, n>> \in OpToRel(<, Nat)
    BY <2>1 DEF OpToRel
  <2> QED
    BY <1>2, <2>2
<1> QED
  BY <1>3

LEMMA SumRecursion ==
  ASSUME NEW S, IsFiniteSet(S), NEW f
  PROVE  \E g : Solves(f, g, S) /\ Sum(f, S) = g[S]
<1>1. SUFFICES \E g : Solves(f, g, S)
  <2>1. Sum(f, S) = (CHOOSE g : g = [s \in SUBSET S |-> SumStep(f, g, s)])[S]
    BY DEF Sum, MapThenSumSet, MapThenFoldSet, SumStep
  <2> QED
    BY <1>1, <2>1 DEF Solves
<1> DEFINE Upto(g, n) == \A s \in SUBSET S : Cardinality(s) <= n => g[s] = SumStep(f, g, s)
<1>2. \A n \in Nat : \E g : Upto(g, n)
  <2> DEFINE W == {n \in Nat : \E g : Upto(g, n)}
  <2>1. 0 \in W
    <3>1. Upto([s \in SUBSET S |-> 0], 0)
      <4>1. ASSUME NEW s \in SUBSET S, Cardinality(s) <= 0
            PROVE  s = {}
        BY <4>1, FS_EmptySet, FS_Subset, FS_CardinalityType
      <4> QED
        BY <4>1 DEF SumStep
    <3> QED
      BY <3>1
  <2>2. ASSUME NEW n \in Nat, n \in W
        PROVE  n + 1 \in W
    <3>1. PICK g : Upto(g, n)
      BY <2>2
    <3> DEFINE h == [s \in SUBSET S |-> IF Cardinality(s) <= n THEN g[s] ELSE SumStep(f, g, s)]
    <3>2. ASSUME NEW s \in SUBSET S, Cardinality(s) <= n + 1
          PROVE  h[s] = SumStep(f, h, s)
      <4>1. CASE s = {}
        BY <3>1, <4>1, FS_EmptySet DEF SumStep
      <4>2. CASE s # {}
        <5>1. PICK x \in s : x = CHOOSE y \in s : TRUE
          BY <4>2
        <5>2. IsFiniteSet(s) /\ Cardinality(s) \in Nat
          BY FS_Subset, FS_CardinalityType
        <5>3. Cardinality(s \ {x}) = Cardinality(s) - 1
          BY <5>2, FS_RemoveElement
        <5>4. h[s \ {x}] = g[s \ {x}]
          BY <3>2, <5>2, <5>3
        <5>5. SumStep(f, h, s) = SumStep(f, g, s)
          BY <4>2, <5>1, <5>4 DEF SumStep
        <5> QED
          BY <3>1, <5>5
      <4> QED
        BY <4>1, <4>2
    <3> HIDE DEF h
    <3> QED
      BY <3>2
  <2> HIDE DEF W
  <2>3. Nat \subseteq W
    BY <2>1, <2>2, NatSetInduction
  <2> QED
    BY <2>3 DEF W
<1>3. PICK g : Upto(g, Cardinality(S))
  BY <1>2, FS_CardinalityType
<1>4. \A s \in SUBSET S : g[s] = SumStep(f, g, s)
  BY <1>3, FS_Subset, FS_CardinalityType
<1> DEFINE h == [s \in SUBSET S |-> g[s]]
<1>5. ASSUME NEW s \in SUBSET S
      PROVE  SumStep(f, h, s) = SumStep(f, g, s)
  BY DEF SumStep
<1>6. h = [s \in SUBSET S |-> SumStep(f, h, s)]
  <2>1. \A s \in SUBSET S : h[s] = SumStep(f, h, s)
    BY <1>4, <1>5
  <2>2. h = [s \in SUBSET S |-> h[s]]
    OBVIOUS
  <2> HIDE DEF h
  <2> QED
    BY <2>1, <2>2
<1> HIDE DEF h
<1> QED
  BY <1>6 DEF Solves

\* Two solutions of the recursion agree where both are defined.
LEMMA SumUnique ==
  ASSUME NEW S, IsFiniteSet(S), NEW U \in SUBSET S, NEW f, NEW g, NEW h,
         Solves(f, g, S), Solves(f, h, U)
  PROVE  g[U] = h[U]
<1> DEFINE W == {T \in SUBSET U : g[T] = h[T]}
<1>1. ASSUME NEW T \in SUBSET U, \A V \in SUBSET T : V # T => V \in W
      PROVE  T \in W
  <2>1. g[T] = SumStep(f, g, T) /\ h[T] = SumStep(f, h, T)
    <3>1. T \in SUBSET S /\ T \in SUBSET U
      OBVIOUS
    <3> QED
      BY <3>1 DEF Solves
  <2>2. CASE T = {}
    BY <2>1, <2>2 DEF SumStep
  <2>3. CASE T # {}
    <3>1. PICK x \in T : x = CHOOSE y \in T : TRUE
      BY <2>3
    <3>2. g[T \ {x}] = h[T \ {x}]
      BY <1>1, <3>1
    <3>3. SumStep(f, g, T) = SumStep(f, h, T)
      BY <2>3, <3>1, <3>2 DEF SumStep
    <3> QED
      BY <2>1, <3>3
  <2> QED
    BY <2>2, <2>3
<1> HIDE DEF W
<1>2. \A T \in SUBSET U : T \in W
  BY <1>1, FS_Subset, StrongSubsetInduction
<1> QED
  BY <1>2 DEF W

LEMMA SumEmpty == \A f : Sum(f, {}) = 0
<1> TAKE f
<1>1. PICK g : Solves(f, g, {}) /\ Sum(f, {}) = g[{}]
  BY SumRecursion, FS_EmptySet
<1>2. g[{}] = SumStep(f, g, {})
  BY <1>1 DEF Solves
<1> QED
  BY <1>1, <1>2 DEF SumStep

LEMMA SumChosen ==
  ASSUME NEW S, IsFiniteSet(S), S # {}, NEW f
  PROVE  \E x \in S : Sum(f, S) = f[x] + Sum(f, S \ {x})
<1>1. PICK g : Solves(f, g, S) /\ Sum(f, S) = g[S]
  BY SumRecursion
<1>2. PICK x \in S : x = CHOOSE y \in S : TRUE
  OBVIOUS
<1>3. PICK U \in SUBSET S : U = S \ {x}
  OBVIOUS
<1>4. IsFiniteSet(U)
  BY FS_Subset
<1>5. PICK h : Solves(f, h, U) /\ Sum(f, U) = h[U]
  BY <1>4, SumRecursion
<1>6. g[U] = h[U]
  BY <1>1, <1>5, SumUnique
<1>7. g[S] = SumStep(f, g, S)
  <2>1. S \in SUBSET S
    OBVIOUS
  <2> QED
    BY <1>1, <2>1 DEF Solves
<1>8. SumStep(f, g, S) = f[x] + g[U]
  BY <1>2, <1>3 DEF SumStep
<1>9. Sum(f, S) = g[S] /\ Sum(f, U) = h[U]
  BY <1>1, <1>5
<1>10. Sum(f, S) = f[x] + Sum(f, S \ {x})
  BY ONLY <1>3, <1>6, <1>7, <1>8, <1>9
<1> QED
  BY <1>10

LEMMA SumType ==
  ASSUME NEW S, IsFiniteSet(S), NEW f, \A x \in S : f[x] \in Int
  PROVE  Sum(f, S) \in Int
<1> DEFINE W == {T \in SUBSET S : Sum(f, T) \in Int}
<1>1. ASSUME NEW T \in SUBSET S, \A U \in SUBSET T : U # T => U \in W
      PROVE  T \in W
  <2>1. CASE T = {}
    BY <2>1, SumEmpty
  <2>2. CASE T # {}
    <3>1. PICK x \in T : Sum(f, T) = f[x] + Sum(f, T \ {x})
      BY <2>2, SumChosen, FS_Subset
    <3>2. Sum(f, T \ {x}) \in Int /\ f[x] \in Int
      BY <1>1, <3>1
    <3> QED
      BY <3>1, <3>2
  <2> QED
    BY <2>1, <2>2
<1> HIDE DEF W
<1>2. S \in W
  BY <1>1, StrongSubsetInduction
<1> QED
  BY <1>2 DEF W

\* A sum may be begun with any of its elements.
LEMMA SumRemove ==
  ASSUME NEW S, IsFiniteSet(S), NEW f, \A x \in S : f[x] \in Int, NEW x \in S
  PROVE  Sum(f, S) = f[x] + Sum(f, S \ {x})
<1> DEFINE W == {T \in SUBSET S : \A y \in T : Sum(f, T) = f[y] + Sum(f, T \ {y})}
<1>0. ASSUME NEW U \in SUBSET S
      PROVE  IsFiniteSet(U) /\ Sum(f, U) \in Int
  BY FS_Subset, SumType
<1>1. ASSUME NEW T \in SUBSET S, \A U \in SUBSET T : U # T => U \in W
      PROVE  T \in W
  <2>1. SUFFICES ASSUME NEW y \in T
                 PROVE  Sum(f, T) = f[y] + Sum(f, T \ {y})
    OBVIOUS
  <2>2. PICK c \in T : Sum(f, T) = f[c] + Sum(f, T \ {c})
    BY <1>0, SumChosen
  <2>3. CASE c # y
    <3>1. PICK U \in SUBSET S, V \in SUBSET S, Z \in SUBSET S :
            U = T \ {c} /\ V = T \ {y} /\ Z = T \ {c, y}
      OBVIOUS
    <3>2. U \in W /\ V \in W /\ y \in U /\ c \in V /\ U \ {y} = Z /\ V \ {c} = Z
      BY <1>1, <2>3, <3>1
    <3>3. Sum(f, U) = f[y] + Sum(f, Z) /\ Sum(f, V) = f[c] + Sum(f, Z)
      BY <3>2
    <3>4. Sum(f, Z) \in Int /\ f[y] \in Int /\ f[c] \in Int
      BY <1>0
    <3>5. Sum(f, T) = f[c] + Sum(f, U)
      BY <2>2, <3>1
    <3>6. Sum(f, T) = f[y] + Sum(f, V)
      BY ONLY <3>3, <3>4, <3>5
    <3> QED
      BY <3>1, <3>6
  <2> QED
    BY <2>2, <2>3
<1> HIDE DEF W
<1>2. S \in W
  BY <1>1, StrongSubsetInduction
<1> QED
  BY <1>2 DEF W

LEMMA SumAddElement ==
  ASSUME NEW S, IsFiniteSet(S), NEW x, x \notin S, NEW f,
         \A y \in S \cup {x} : f[y] \in Int
  PROVE  Sum(f, S \cup {x}) = Sum(f, S) + f[x]
<1>1. IsFiniteSet(S \cup {x})
  BY FS_AddElement
<1>2. PICK T : T = S \cup {x}
  OBVIOUS
<1>3. Sum(f, T) = f[x] + Sum(f, T \ {x})
  BY <1>1, <1>2, SumRemove
<1>4. T \ {x} = S
  BY <1>2
<1>5. Sum(f, S) \in Int /\ f[x] \in Int
  BY SumType
<1>6. Sum(f, T) = f[x] + Sum(f, S)
  BY <1>3, <1>4
<1>7. Sum(f, T) = Sum(f, S) + f[x]
  BY ONLY <1>5, <1>6
<1> QED
  BY <1>2, <1>7

\* The sum of two functions, and the multiple of one.
Adds(f, g, h, S) == \A x \in S : f[x] \in Int /\ g[x] \in Int /\ h[x] = f[x] + g[x]

LEMMA SumPlus ==
  ASSUME NEW S, IsFiniteSet(S), NEW f, NEW g, NEW h, Adds(f, g, h, S)
  PROVE  Sum(h, S) = Sum(f, S) + Sum(g, S)
<1> DEFINE W == {T \in SUBSET S : Sum(h, T) = Sum(f, T) + Sum(g, T)}
<1>1. {} \in W
  BY SumEmpty
<1>2. ASSUME NEW T \in SUBSET S, NEW x \in S, T \in W, x \notin T
      PROVE  T \cup {x} \in W
  <2>1. IsFiniteSet(T) /\ \A y \in T \cup {x} : f[y] \in Int /\ g[y] \in Int /\ h[y] \in Int
    BY FS_Subset DEF Adds
  <2>2. /\ Sum(f, T \cup {x}) = Sum(f, T) + f[x]
        /\ Sum(g, T \cup {x}) = Sum(g, T) + g[x]
        /\ Sum(h, T \cup {x}) = Sum(h, T) + h[x]
    BY <1>2, <2>1, SumAddElement
  <2>3. Sum(f, T) \in Int /\ Sum(g, T) \in Int /\ f[x] \in Int /\ g[x] \in Int
    BY <2>1, SumType
  <2>4. h[x] = f[x] + g[x] /\ Sum(h, T) = Sum(f, T) + Sum(g, T)
    BY <1>2 DEF Adds
  <2>5. Sum(h, T \cup {x}) = Sum(f, T \cup {x}) + Sum(g, T \cup {x})
    BY ONLY <2>2, <2>3, <2>4
  <2> QED
    BY <2>5
<1> HIDE DEF W
<1>3. S \in W
  BY <1>1, <1>2, SubsetInduction
<1> QED
  BY <1>3 DEF W

LEMMA SumTimes ==
  ASSUME NEW S, IsFiniteSet(S), NEW f, NEW k \in Int, NEW h,
         \A x \in S : f[x] \in Int /\ h[x] = k * f[x]
  PROVE  Sum(h, S) = k * Sum(f, S)
<1> DEFINE W == {T \in SUBSET S : Sum(h, T) = k * Sum(f, T)}
<1>1. {} \in W
  BY SumEmpty
<1>2. ASSUME NEW T \in SUBSET S, NEW x \in S, T \in W, x \notin T
      PROVE  T \cup {x} \in W
  <2>1. IsFiniteSet(T) /\ \A y \in T \cup {x} : f[y] \in Int /\ h[y] \in Int
    BY FS_Subset
  <2>2. /\ Sum(f, T \cup {x}) = Sum(f, T) + f[x]
        /\ Sum(h, T \cup {x}) = Sum(h, T) + h[x]
    BY <1>2, <2>1, SumAddElement
  <2>3. Sum(f, T) \in Int /\ f[x] \in Int
    BY <2>1, SumType
  <2>4. h[x] = k * f[x] /\ Sum(h, T) = k * Sum(f, T)
    BY <1>2
  <2>5. \A a, b \in Int : k * (a + b) = k * a + k * b
    OBVIOUS
  <2>6. Sum(h, T \cup {x}) = k * Sum(f, T \cup {x})
    BY ONLY <2>2, <2>3, <2>4, <2>5
  <2> QED
    BY <2>6
<1> HIDE DEF W
<1>3. S \in W
  BY <1>1, <1>2, SubsetInduction
<1> QED
  BY <1>3 DEF W

LEMMA SumAtMost ==
  ASSUME NEW S, IsFiniteSet(S), NEW f, NEW g,
         \A x \in S : f[x] \in Int /\ g[x] \in Int /\ f[x] <= g[x]
  PROVE  Sum(f, S) <= Sum(g, S)
<1> DEFINE W == {T \in SUBSET S : Sum(f, T) <= Sum(g, T)}
<1>1. {} \in W
  BY SumEmpty
<1>2. ASSUME NEW T \in SUBSET S, NEW x \in S, T \in W, x \notin T
      PROVE  T \cup {x} \in W
  <2>1. IsFiniteSet(T) /\ \A y \in T \cup {x} : f[y] \in Int /\ g[y] \in Int
    BY FS_Subset
  <2>2. /\ Sum(f, T \cup {x}) = Sum(f, T) + f[x]
        /\ Sum(g, T \cup {x}) = Sum(g, T) + g[x]
    BY <1>2, <2>1, SumAddElement
  <2>3. Sum(f, T) \in Int /\ Sum(g, T) \in Int /\ f[x] \in Int /\ g[x] \in Int
    BY <2>1, SumType
  <2>4. f[x] <= g[x] /\ Sum(f, T) <= Sum(g, T)
    BY <1>2
  <2>5. Sum(f, T \cup {x}) <= Sum(g, T \cup {x})
    BY ONLY <2>2, <2>3, <2>4
  <2> QED
    BY <2>5
<1> HIDE DEF W
<1>3. S \in W
  BY <1>1, <1>2, SubsetInduction
<1> QED
  BY <1>3 DEF W

LEMMA SumSame ==
  ASSUME NEW S, IsFiniteSet(S), NEW f, NEW g, \A x \in S : f[x] \in Int /\ g[x] = f[x]
  PROVE  Sum(g, S) = Sum(f, S)
<1>1. Sum(f, S) <= Sum(g, S) /\ Sum(g, S) <= Sum(f, S)
  BY SumAtMost
<1>2. Sum(f, S) \in Int /\ Sum(g, S) \in Int
  BY SumType
<1> QED
  BY <1>1, <1>2

LEMMA SumZero ==
  ASSUME NEW S, IsFiniteSet(S), NEW f, \A x \in S : f[x] = 0
  PROVE  Sum(f, S) = 0
<1>1. \A x \in S : f[x] \in Int /\ f[x] = 2 * f[x]
  OBVIOUS
<1>2. Sum(f, S) = 2 * Sum(f, S) /\ Sum(f, S) \in Int
  BY <1>1, SumTimes, SumType
<1> QED
  BY <1>2

LEMMA SumNat ==
  ASSUME NEW S, IsFiniteSet(S), NEW f, \A x \in S : f[x] \in Nat
  PROVE  Sum(f, S) \in Nat
<1> DEFINE zero == [x \in S |-> 0]
<1>1. Sum(zero, S) = 0
  BY SumZero
<1>2. Sum(zero, S) <= Sum(f, S)
  BY SumAtMost
<1>3. Sum(f, S) \in Int
  BY SumType
<1> HIDE DEF zero
<1> QED
  BY <1>1, <1>2, <1>3

\* No element of a sum of naturals is above the sum.
LEMMA SumElement ==
  ASSUME NEW S, IsFiniteSet(S), NEW f, \A x \in S : f[x] \in Nat, NEW x \in S
  PROVE  f[x] <= Sum(f, S)
<1>1. IsFiniteSet(S \ {x})
  BY FS_RemoveElement
<1>2. Sum(f, S \ {x}) \in Nat
  BY <1>1, SumNat
<1>3. Sum(f, S) = f[x] + Sum(f, S \ {x})
  BY SumRemove
<1>4. f[x] \in Nat
  OBVIOUS
<1> QED
  BY ONLY <1>2, <1>3, <1>4

\* One element grows by d.
LEMMA SumUpdate ==
  ASSUME NEW S, IsFiniteSet(S), NEW f, NEW g, \A y \in S : f[y] \in Int,
         NEW x \in S, NEW d \in Int, g[x] = f[x] + d, \A y \in S : y # x => g[y] = f[y]
  PROVE  Sum(g, S) = Sum(f, S) + d
<1>1. PICK T \in SUBSET S : T = S \ {x}
  OBVIOUS
<1>2. IsFiniteSet(T)
  BY FS_Subset
<1>3. \A y \in S : g[y] \in Int
  OBVIOUS
<1>4. Sum(f, S) = f[x] + Sum(f, T) /\ Sum(g, S) = g[x] + Sum(g, T)
  BY <1>1, <1>3, SumRemove
<1>5. Sum(g, T) = Sum(f, T)
  BY <1>1, <1>2, SumSame
<1>6. Sum(f, T) \in Int /\ f[x] \in Int
  BY <1>2, SumType
<1> QED
  BY ONLY <1>4, <1>5, <1>6, g[x] = f[x] + d, d \in Int

LEMMA SumDisjoint ==
  ASSUME NEW S, IsFiniteSet(S), NEW R, IsFiniteSet(R), R \cap S = {}, NEW f,
         \A x \in R \cup S : f[x] \in Int
  PROVE  Sum(f, R \cup S) = Sum(f, R) + Sum(f, S)
<1> DEFINE W == {T \in SUBSET S : Sum(f, R \cup T) = Sum(f, R) + Sum(f, T)}
<1>0. Sum(f, R) \in Int
  BY SumType
<1>1. {} \in W
  <2>1. R \cup {} = R
    OBVIOUS
  <2>2. Sum(f, R \cup {}) = Sum(f, R)
    BY <2>1
  <2> QED
    BY <1>0, <2>2, SumEmpty
<1>2. ASSUME NEW T \in SUBSET S, NEW x \in S, T \in W, x \notin T
      PROVE  T \cup {x} \in W
  <2>1. IsFiniteSet(T) /\ IsFiniteSet(R \cup T)
    BY FS_Subset, FS_Union
  <2>2. Sum(f, T \cup {x}) = Sum(f, T) + f[x]
    BY <1>2, <2>1, SumAddElement
  <2>3. PICK U : U = R \cup T
    OBVIOUS
  <2>4. x \notin U /\ IsFiniteSet(U) /\ \A y \in U \cup {x} : f[y] \in Int
    BY <1>2, <2>1, <2>3
  <2>5. Sum(f, U \cup {x}) = Sum(f, U) + f[x]
    BY <2>4, SumAddElement
  <2>6. U \cup {x} = R \cup (T \cup {x})
    BY <2>3
  <2>7. Sum(f, U) = Sum(f, R) + Sum(f, T)
    BY <1>2, <2>3
  <2>8. Sum(f, T) \in Int /\ f[x] \in Int
    BY <2>1, SumType
  <2>9. Sum(f, U \cup {x}) = Sum(f, R) + Sum(f, T \cup {x})
    BY ONLY <1>0, <2>2, <2>5, <2>7, <2>8
  <2>10. Sum(f, R \cup (T \cup {x})) = Sum(f, R) + Sum(f, T \cup {x})
    BY <2>6, <2>9
  <2> QED
    BY <2>10
<1> HIDE DEF W
<1>3. S \in W
  BY <1>1, <1>2, SubsetInduction
<1> QED
  BY <1>3 DEF W

LEMMA SumConstant ==
  ASSUME NEW S, IsFiniteSet(S), NEW k \in Int, NEW f, \A x \in S : f[x] = k
  PROVE  Sum(f, S) = k * Cardinality(S)
<1> DEFINE W == {T \in SUBSET S : Sum(f, T) = k * Cardinality(T)}
<1>1. {} \in W
  BY SumEmpty, FS_EmptySet
<1>2. ASSUME NEW T \in SUBSET S, NEW x \in S, T \in W, x \notin T
      PROVE  T \cup {x} \in W
  <2>1. IsFiniteSet(T) /\ Cardinality(T) \in Nat /\ \A y \in T \cup {x} : f[y] \in Int
    BY FS_Subset, FS_CardinalityType
  <2>2. Sum(f, T \cup {x}) = Sum(f, T) + f[x]
    BY <1>2, <2>1, SumAddElement
  <2>3. Cardinality(T \cup {x}) = Cardinality(T) + 1
    BY <1>2, <2>1, FS_AddElement
  <2>4. Sum(f, T) = k * Cardinality(T) /\ f[x] = k
    BY <1>2
  <2>5. \A n \in Nat : k * (n + 1) = k * n + k
    OBVIOUS
  <2>6. Sum(f, T \cup {x}) = k * Cardinality(T \cup {x})
    BY ONLY <2>1, <2>2, <2>3, <2>4, <2>5
  <2> QED
    BY <2>6
<1> HIDE DEF W
<1>3. S \in W
  BY <1>1, <1>2, SubsetInduction
<1> QED
  BY <1>3 DEF W

\* Ones on a part of S, and zeros elsewhere.
LEMMA SumOnes ==
  ASSUME NEW S, IsFiniteSet(S), NEW R \in SUBSET S, NEW f,
         \A x \in R : f[x] = 1, \A x \in S \ R : f[x] = 0
  PROVE  Sum(f, S) = Cardinality(R)
<1>1. PICK Z \in SUBSET S : Z = S \ R
  OBVIOUS
<1>2. IsFiniteSet(R) /\ IsFiniteSet(Z) /\ Cardinality(R) \in Nat
  BY FS_Subset, FS_CardinalityType
<1>3. Z \cup R = S /\ Z \cap R = {} /\ \A x \in S : f[x] \in Int
  BY <1>1
<1>4. Sum(f, Z \cup R) = Sum(f, Z) + Sum(f, R)
  BY <1>2, <1>3, SumDisjoint
<1>5. Sum(f, Z) = 0
  BY <1>1, <1>2, SumZero
<1>6. Sum(f, R) = 1 * Cardinality(R)
  BY <1>2, SumConstant
<1>7. Sum(f, Z \cup R) = Cardinality(R)
  BY ONLY <1>2, <1>4, <1>5, <1>6
<1> QED
  BY <1>3, <1>7
=============================================================================
