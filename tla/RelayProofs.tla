---------------------------- MODULE RelayProofs -----------------------------
(* Proofs about Relay, for any limits, ids, and numbers of losses.         *)
EXTENDS Relay, SumProofs, SequenceTheorems

-----------------------------------------------------------------------------
(* Sequences.                                                              *)

LEMMA Appending ==
  ASSUME NEW S, NEW s \in Seq(S), NEW e \in S
  PROVE  /\ Append(s, e) \in Seq(S)
         /\ Len(s) \in Nat /\ DOMAIN s = 1..Len(s)
         /\ Len(Append(s, e)) = Len(s) + 1
         /\ DOMAIN Append(s, e) = 1..(Len(s) + 1)
         /\ \A i \in 1..Len(s) : Append(s, e)[i] = s[i]
         /\ Append(s, e)[Len(s) + 1] = e
BY AppendProperties, LenProperties

\* One entry is taken out and the others keep their order.
LEMMA RemovedAt ==
  ASSUME NEW S, NEW s \in Seq(S), NEW j \in 1..Len(s)
  PROVE  /\ RemoveAt(s, j) \in Seq(S)
         /\ Len(RemoveAt(s, j)) = Len(s) - 1
         /\ \A i \in 1..(Len(s) - 1) : RemoveAt(s, j)[i] = IF i < j THEN s[i] ELSE s[i + 1]
<1> DEFINE front == SubSeq(s, 1, j - 1)  back == SubSeq(s, j + 1, Len(s))
<1>1. Len(s) \in Nat /\ \A i \in 1..Len(s) : s[i] \in S
  BY LenProperties, ElementOfSeq
<1>2. /\ front \in Seq(S) /\ Len(front) = j - 1
      /\ \A i \in 1..(j - 1) : front[i] = s[i]
  <2>1. \A i \in 1..(j - 1) : s[i] \in S
    BY <1>1
  <2>2. /\ front \in Seq(S) /\ Len(front) = IF 1 <= j - 1 THEN j - 1 - 1 + 1 ELSE 0
        /\ \A i \in 1..(j - 1 - 1 + 1) : front[i] = s[1 + i - 1]
    BY <1>1, <2>1, SubSeqProperties
  <2> HIDE DEF front
  <2> QED
    BY <1>1, <2>2
<1>3. /\ back \in Seq(S) /\ Len(back) = Len(s) - j
      /\ \A i \in 1..(Len(s) - j) : back[i] = s[j + i]
  <2>1. \A i \in (j + 1)..Len(s) : s[i] \in S
    BY <1>1
  <2>2. /\ back \in Seq(S) /\ Len(back) = IF j + 1 <= Len(s) THEN Len(s) - (j + 1) + 1 ELSE 0
        /\ \A i \in 1..(Len(s) - (j + 1) + 1) : back[i] = s[j + 1 + i - 1]
    BY <1>1, <2>1, SubSeqProperties
  <2> HIDE DEF back
  <2> QED
    BY <1>1, <2>2
<1>4. RemoveAt(s, j) = front \o back
  BY DEF RemoveAt
<1> HIDE DEF front, back
<1>5. /\ front \o back \in Seq(S) /\ Len(front \o back) = Len(front) + Len(back)
      /\ \A i \in 1..(Len(front) + Len(back)) :
           (front \o back)[i] = IF i <= Len(front) THEN front[i] ELSE back[i - Len(front)]
  BY <1>2, <1>3, ConcatProperties
<1>6. \A i \in 1..(Len(s) - 1) : (front \o back)[i] = IF i < j THEN s[i] ELSE s[i + 1]
  <2> TAKE i \in 1..(Len(s) - 1)
  <2>1. CASE i < j
    BY <1>1, <1>2, <1>3, <1>5, <2>1
  <2>2. CASE ~(i < j)
    <3>1. (front \o back)[i] = back[i - (j - 1)]
      BY <1>1, <1>2, <1>3, <1>5, <2>2
    <3>2. i - (j - 1) \in 1..(Len(s) - j) /\ j + (i - (j - 1)) = i + 1
      BY <1>1, <2>2
    <3> QED
      BY <1>3, <2>2, <3>1, <3>2
  <2> QED
    BY <2>1, <2>2
<1> QED
  BY <1>1, <1>2, <1>3, <1>4, <1>5, <1>6

-----------------------------------------------------------------------------
(* drain(): a fold over the open submits, from the first to the last.      *)

LEMMA MaxOfNat ==
  ASSUME NEW S, S \subseteq Nat, IsFiniteSet(S), S # {}
  PROVE  Max(S) \in S /\ \A y \in S : Max(S) >= y
<1> DEFINE W == {T \in SUBSET S : T # {} => \E x \in T : \A y \in T : x >= y}
<1>1. {} \in W
  OBVIOUS
<1>2. ASSUME NEW T \in SUBSET S, NEW x \in S, T \in W, x \notin T
      PROVE  T \cup {x} \in W
  <2>1. CASE T = {}
    <3>1. x >= x
      OBVIOUS
    <3> QED
      BY <2>1, <3>1
  <2>2. CASE T # {}
    <3>1. PICK m \in T : \A y \in T : m >= y
      BY <1>2, <2>2
    <3>2. CASE m >= x
      BY <3>1, <3>2
    <3>3. CASE ~(m >= x)
      <4>1. \A y \in T : x >= y
        BY <3>1, <3>3
      <4>2. x >= x
        OBVIOUS
      <4> QED
        BY <4>1, <4>2
    <3> QED
      BY <3>2, <3>3
  <2> QED
    BY <2>1, <2>2
<1> HIDE DEF W
<1>3. S \in W
  BY <1>1, <1>2, SubsetInduction
<1>4. \E x \in S : \A y \in S : x >= y
  BY <1>3 DEF W
<1> QED
  BY <1>4 DEF Max

LEMMA MaxOfUpto ==
  ASSUME NEW k \in Nat
  PROVE  Max(1..(k + 1)) = k + 1
<1>1. 1..(k + 1) \subseteq Nat /\ k + 1 \in 1..(k + 1) /\ IsFiniteSet(1..(k + 1))
  BY FS_Interval
<1>2. Max(1..(k + 1)) \in 1..(k + 1) /\ Max(1..(k + 1)) >= k + 1
  BY <1>1, MaxOfNat
<1> QED
  BY <1>2

Begun(t) == [tap |-> t, recs |-> <<>>]

DrainStep(acc, n) == [tap |-> Resolved(acc.tap, n, "unanswered"),
                      recs |-> acc.recs \o Records(acc.tap, n, "unanswered")]

LEMMA DrainStepFields ==
  \A acc, n : /\ DrainStep(acc, n).tap = Resolved(acc.tap, n, "unanswered")
              /\ DrainStep(acc, n).recs = acc.recs \o Records(acc.tap, n, "unanswered")
BY DEF DrainStep

\* The recursion by which the fold is defined.
DrainOf(t, g, s) == IF s = {} THEN Begun(t)
                    ELSE LET x == Max(s) IN DrainStep(g[s \ {x}], t.pending[x])

LEMMA DrainRecursion ==
  ASSUME NEW t, IsFiniteSet(DOMAIN t.pending), DOMAIN t.pending \subseteq Nat
  PROVE  \E g : /\ g = [s \in SUBSET DOMAIN t.pending |-> DrainOf(t, g, s)]
                /\ Drained(t) = g[DOMAIN t.pending]
<1> DEFINE D == DOMAIN t.pending
<1>1. SUFFICES \E g : g = [s \in SUBSET D |-> DrainOf(t, g, s)]
  <2>1. Drained(t) = (CHOOSE g : g = [s \in SUBSET D |-> DrainOf(t, g, s)])[D]
    BY DEF Drained, FoldLeft, MapThenFoldSet, DrainOf, DrainStep, Begun
  <2> HIDE DEF D
  <2>2. PICK g : g = CHOOSE h : h = [s \in SUBSET D |-> DrainOf(t, h, s)]
    OBVIOUS
  <2>3. g = [s \in SUBSET D |-> DrainOf(t, g, s)]
    BY <1>1, <2>2
  <2>4. Drained(t) = g[D]
    BY <2>1, <2>2
  <2> QED
    BY <2>3, <2>4 DEF D
<1> HIDE DEF D
<1>0. IsFiniteSet(D) /\ D \subseteq Nat
  BY DEF D
<1> DEFINE Upto(g, n) == \A s \in SUBSET D : Cardinality(s) <= n => g[s] = DrainOf(t, g, s)
<1>2. \A n \in Nat : \E g : Upto(g, n)
  <2> DEFINE W == {n \in Nat : \E g : Upto(g, n)}
  <2>1. 0 \in W
    <3>1. Upto([s \in SUBSET D |-> Begun(t)], 0)
      <4>1. ASSUME NEW s \in SUBSET D, Cardinality(s) <= 0
            PROVE  s = {}
        <5>1. IsFiniteSet(s)
          BY <1>0, FS_Subset
        <5>2. Cardinality(s) = 0
          BY <4>1, <5>1, FS_CardinalityType
        <5> QED
          BY <5>1, <5>2, FS_EmptySet
      <4> QED
        BY <4>1 DEF DrainOf
    <3> QED
      BY <3>1
  <2>2. ASSUME NEW n \in Nat, n \in W
        PROVE  n + 1 \in W
    <3>1. PICK g : Upto(g, n)
      BY <2>2
    <3> DEFINE h == [s \in SUBSET D |-> IF Cardinality(s) <= n THEN g[s] ELSE DrainOf(t, g, s)]
    <3>2. ASSUME NEW s \in SUBSET D, Cardinality(s) <= n + 1
          PROVE  h[s] = DrainOf(t, h, s)
      <4>1. CASE s = {}
        BY <3>1, <4>1, FS_EmptySet DEF DrainOf
      <4>2. CASE s # {}
        <5>1. IsFiniteSet(s) /\ Cardinality(s) \in Nat
          BY <1>0, FS_Subset, FS_CardinalityType
        <5>2. PICK x \in s : x = Max(s)
          BY <1>0, <4>2, <5>1, MaxOfNat
        <5>3. Cardinality(s \ {x}) = Cardinality(s) - 1
          BY <5>1, FS_RemoveElement
        <5>4. h[s \ {x}] = g[s \ {x}]
          BY <3>2, <5>1, <5>3
        <5>5. DrainOf(t, h, s) = DrainOf(t, g, s)
          BY <4>2, <5>2, <5>4 DEF DrainOf
        <5> QED
          BY <3>1, <5>5
      <4> QED
        BY <4>1, <4>2
    <3> HIDE DEF h
    <3> QED
      BY <3>2
  <2> HIDE DEF W
  <2>3. Nat \subseteq W
    BY <2>1, <2>2, NatSetInduction
  <2> QED
    BY <2>3 DEF W
<1>3. PICK g : Upto(g, Cardinality(D))
  BY <1>0, <1>2, FS_CardinalityType
<1>4. \A s \in SUBSET D : g[s] = DrainOf(t, g, s)
  BY <1>0, <1>3, FS_Subset, FS_CardinalityType
<1> DEFINE h == [s \in SUBSET D |-> g[s]]
<1>5. ASSUME NEW s \in SUBSET D
      PROVE  DrainOf(t, h, s) = DrainOf(t, g, s)
  BY DEF DrainOf
<1>6. h = [s \in SUBSET D |-> DrainOf(t, h, s)]
  <2>1. \A s \in SUBSET D : h[s] = DrainOf(t, h, s)
    BY <1>4, <1>5
  <2>2. h = [s \in SUBSET D |-> h[s]]
    OBVIOUS
  <2> HIDE DEF h
  <2> QED
    BY <2>1, <2>2
<1> HIDE DEF h
<1> QED
  BY <1>6

\* The states of the loop: before it, and after each submit.
LEMMA DrainLoop ==
  ASSUME NEW t, NEW S, t.pending \in Seq(S)
  PROVE  \E acc : /\ acc[0] = Begun(t)
                  /\ \A k \in 0..(Len(t.pending) - 1) :
                       acc[k + 1] = DrainStep(acc[k], t.pending[k + 1])
                  /\ Drained(t) = acc[Len(t.pending)]
<1>1. Len(t.pending) \in Nat /\ DOMAIN t.pending = 1..Len(t.pending)
  BY LenProperties
<1>2. IsFiniteSet(DOMAIN t.pending) /\ DOMAIN t.pending \subseteq Nat
  BY <1>1, FS_Interval
<1>3. PICK g : /\ g = [s \in SUBSET DOMAIN t.pending |-> DrainOf(t, g, s)]
               /\ Drained(t) = g[DOMAIN t.pending]
  BY <1>2, DrainRecursion
<1> DEFINE acc == [k \in 0..Len(t.pending) |-> g[1..k]]
<1>4. acc[0] = Begun(t)
  <2>1. 1..0 = {} /\ {} \in SUBSET DOMAIN t.pending /\ 0 \in 0..Len(t.pending)
    BY <1>1
  <2> QED
    BY <1>3, <2>1 DEF DrainOf
<1>5. ASSUME NEW k \in 0..(Len(t.pending) - 1)
      PROVE  acc[k + 1] = DrainStep(acc[k], t.pending[k + 1])
  <2>1. /\ k \in Nat /\ k \in 0..Len(t.pending) /\ k + 1 \in 0..Len(t.pending)
        /\ 1..(k + 1) \in SUBSET DOMAIN t.pending /\ 1..(k + 1) # {}
        /\ (1..(k + 1)) \ {k + 1} = 1..k
    <3>1. \A l \in Nat : k \in 0..(l - 1) => /\ k \in Nat /\ k \in 0..l /\ k + 1 \in 0..l
                                            /\ 1..(k + 1) \subseteq 1..l
      OBVIOUS
    <3>2. k \in Nat /\ k \in 0..Len(t.pending) /\ k + 1 \in 0..Len(t.pending)
      BY <1>1, <3>1
    <3>3. 1..(k + 1) \in SUBSET DOMAIN t.pending
      BY <1>1, <3>1
    <3>4. k + 1 \in 1..(k + 1)
      BY <3>2
    <3>5. \A m \in Nat : \A y : y \in (1..(m + 1)) \ {m + 1} <=> y \in 1..m
      OBVIOUS
    <3>6. (1..(k + 1)) \ {k + 1} = 1..k
      BY <3>2, <3>5
    <3> QED
      BY <3>2, <3>3, <3>4, <3>6
  <2>2. Max(1..(k + 1)) = k + 1
    BY <2>1, MaxOfUpto
  <2>3. g[1..(k + 1)] = DrainStep(g[1..k], t.pending[k + 1])
    BY <1>3, <2>1, <2>2 DEF DrainOf
  <2> QED
    BY <2>1, <2>3
<1>6. Drained(t) = acc[Len(t.pending)]
  BY <1>1, <1>3
<1> HIDE DEF acc
<1> QED
  BY <1>4, <1>5, <1>6

-----------------------------------------------------------------------------
(* What a handler appends.                                                 *)

AnyId == Nat \cup Id
Rec == [kind : {"job"}, job : Nat]
         \cup [kind : {"share"}, share : Nat, terms : Nat, outcome : Outcomes]
FileLine == [rec : Rec, end : Ends]
Share == [session : Nat, id : AnyId, job : Nat, terms : Nat, read : BOOLEAN,
          weight : Nat \cup {None}, booked : Verdicts \cup {None}, answered : BOOLEAN]
Msg == [kind : {"answer"}, id : AnyId, ok : BOOLEAN] \cup [kind : {"job", "terms"}, push : Nat]
TapRec == [terms : Nat, pending : Seq(Nat), jobs : Seq(Nat), written : Seq(Nat)]

IsShare(r, n) == r.kind = "share" /\ r.share = n

LEMMA RecFields ==
  ASSUME NEW r \in Rec
  PROVE  /\ r.kind \in {"job", "share"}
         /\ r.kind = "share" => r.share \in Nat /\ r.terms \in Nat /\ r.outcome \in Outcomes
BY DEF Rec

LEMMA JobRecordFields ==
  ASSUME NEW j \in Nat
  PROVE  JobRecord(j) \in Rec /\ JobRecord(j).kind = "job"
BY DEF JobRecord, Rec

LEMMA ShareFields ==
  ASSUME shares \in Seq(Share), NEW n \in DOMAIN shares
  PROVE  /\ n \in Nat /\ shares[n] \in Share
         /\ shares[n].job \in Nat /\ shares[n].terms \in Nat /\ shares[n].id \in AnyId
         /\ shares[n].weight \in Nat \cup {None} /\ shares[n].booked \in Verdicts \cup {None}
<1>1. n \in Nat /\ shares[n] \in Share
  BY LenProperties, ElementOfSeq
<1> QED
  BY <1>1 DEF Share

LEMMA ShareRecordFields ==
  ASSUME shares \in Seq(Share), NEW n \in DOMAIN shares, NEW o \in Outcomes
  PROVE  /\ ShareRecord(n, o) \in Rec /\ IsShare(ShareRecord(n, o), n)
         /\ ShareRecord(n, o).outcome = o
BY ShareFields DEF ShareRecord, Rec, IsShare

LEMMA SingleSeq ==
  ASSUME NEW S, NEW e \in S
  PROVE  <<e>> \in Seq(S) /\ Len(<<e>>) = 1 /\ <<e>>[1] = e
OBVIOUS

LEMMA RecordsShape ==
  ASSUME shares \in Seq(Share), NEW n \in DOMAIN shares, NEW o \in Outcomes, NEW t
  PROVE  /\ Records(t, n, o) \in Seq(Rec)
         /\ JobDue(t, n, o) => /\ Len(Records(t, n, o)) = 2
                               /\ Records(t, n, o)[1] = JobRecord(shares[n].job)
                               /\ Records(t, n, o)[2] = ShareRecord(n, o)
         /\ ~JobDue(t, n, o) => /\ Len(Records(t, n, o)) = 1
                                /\ Records(t, n, o)[1] = ShareRecord(n, o)
<1>1. PICK a \in Rec : a = JobRecord(shares[n].job)
  BY ShareFields, JobRecordFields
<1>2. PICK b \in Rec : b = ShareRecord(n, o)
  BY ShareRecordFields
<1>3. CASE JobDue(t, n, o)
  <2>1. Records(t, n, o) = <<a>> \o <<b>>
    BY <1>1, <1>2, <1>3 DEF Records
  <2> QED
    BY <1>1, <1>2, <1>3, <2>1
<1>4. CASE ~JobDue(t, n, o)
  <2>1. Records(t, n, o) = <<>> \o <<b>>
    BY <1>2, <1>4 DEF Records
  <2> QED
    BY <1>2, <1>4, <2>1
<1> QED
  BY <1>3, <1>4

\* The records of one submit more.
Added(new, recs, t, n, o) ==
  /\ new \in Seq(Rec) /\ Len(recs) \in Nat /\ Len(new) \in Nat
  /\ DOMAIN recs = 1..Len(recs) /\ DOMAIN new = 1..Len(new)
  /\ Len(new) = Len(recs) + (IF JobDue(t, n, o) THEN 2 ELSE 1)
  /\ \A i \in 1..Len(recs) : new[i] = recs[i]
  /\ new[Len(new)] = ShareRecord(n, o)
  /\ JobDue(t, n, o) => new[Len(recs) + 1] = JobRecord(shares[n].job)

LEMMA RecordsAdded ==
  ASSUME shares \in Seq(Share), NEW n \in DOMAIN shares, NEW o \in Outcomes, NEW t,
         NEW recs \in Seq(Rec)
  PROVE  Added(recs \o Records(t, n, o), recs, t, n, o)
<1>1. PICK add \in Seq(Rec) : add = Records(t, n, o)
  BY RecordsShape
<1>6. PICK new : new = recs \o Records(t, n, o)
  OBVIOUS
<1>2. /\ new \in Seq(Rec) /\ Len(new) = Len(recs) + Len(add)
      /\ \A i \in 1..(Len(recs) + Len(add)) :
           new[i] = IF i <= Len(recs) THEN recs[i] ELSE add[i - Len(recs)]
  BY <1>1, <1>6, ConcatProperties
<1>3. /\ Len(recs) \in Nat /\ Len(new) \in Nat
      /\ DOMAIN recs = 1..Len(recs) /\ DOMAIN new = 1..Len(new)
  BY <1>2, LenProperties
<1>4. CASE JobDue(t, n, o)
  <2>1. Len(add) = 2 /\ add[1] = JobRecord(shares[n].job) /\ add[2] = ShareRecord(n, o)
    BY <1>1, <1>4, RecordsShape
  <2>2. new[Len(recs) + 1] = add[1] /\ new[Len(recs) + 2] = add[2]
    BY <1>2, <1>3, <1>6, <2>1
  <2> QED
    BY <1>2, <1>3, <1>6, <1>4, <2>1, <2>2 DEF Added
<1>5. CASE ~JobDue(t, n, o)
  <2>1. Len(add) = 1 /\ add[1] = ShareRecord(n, o)
    BY <1>1, <1>5, RecordsShape
  <2>2. new[Len(recs) + 1] = add[1]
    BY <1>2, <1>3, <1>6, <2>1
  <2> QED
    BY <1>2, <1>3, <1>6, <1>5, <2>1, <2>2 DEF Added
<1> QED
  BY <1>4, <1>5, <1>6

LEMMA NewestKept ==
  ASSUME NEW s \in Seq(Nat), NEW e \in Nat, NEW most \in Nat \ {0}
  PROVE  /\ Newest(Append(s, e), most) \in Seq(Nat)
         /\ \A j \in Range(Newest(Append(s, e), most)) : j \in Range(s) \cup {e}
<1>1. PICK u \in Seq(Nat) : u = Append(s, e)
  BY Appending
<1>2. /\ Len(s) \in Nat /\ DOMAIN s = 1..Len(s) /\ Len(u) = Len(s) + 1
      /\ DOMAIN u = 1..(Len(s) + 1)
      /\ \A i \in 1..Len(s) : u[i] = s[i]
      /\ u[Len(s) + 1] = e
  BY <1>1, Appending
<1>3. \A i \in DOMAIN u : u[i] \in Range(s) \cup {e}
  BY <1>2 DEF Range
<1>4. CASE Len(u) > most
  <2>1. u # <<>>
    BY <1>2
  <2>2. /\ Tail(u) \in Seq(Nat) /\ Len(Tail(u)) = Len(u) - 1
        /\ \A i \in 1..Len(Tail(u)) : Tail(u)[i] = u[i + 1]
    BY <2>1, HeadTailProperties
  <2>3. DOMAIN Tail(u) = 1..Len(s)
    BY <1>2, <2>2, LenProperties
  <2>4. \A i \in DOMAIN Tail(u) : Tail(u)[i] \in Range(s) \cup {e}
    BY <1>2, <1>3, <2>2, <2>3
  <2>5. Newest(Append(s, e), most) = Tail(u)
    BY <1>1, <1>4 DEF Newest
  <2> QED
    BY <2>2, <2>4, <2>5 DEF Range
<1>5. CASE ~(Len(u) > most)
  <2>1. Newest(Append(s, e), most) = u
    BY <1>1, <1>5 DEF Newest
  <2> QED
    BY <1>3, <2>1 DEF Range
<1> QED
  BY <1>4, <1>5

\* Records of submits in S with outcome o: each once, its job in the file or
\* before it if the tap holds the job.
Plain(recs, S, o) ==
  \A i \in DOMAIN recs : recs[i].kind = "share" =>
    /\ recs[i].share \in S /\ recs[i].outcome = o
    /\ \A k \in DOMAIN recs : IsShare(recs[k], recs[i].share) => k = i

Beside(recs, t) ==
  \A i \in DOMAIN recs : recs[i].kind = "share" =>
    LET j == shares[recs[i].share].job IN
    j \in Range(t.jobs) => \/ j \in Range(t.written)
                           \/ \E k \in 1..(i - 1) : recs[k] = JobRecord(j)

Complete(recs, S) == \A n \in S : \E i \in DOMAIN recs : IsShare(recs[i], n)

Covered(recs, t, u) ==
  \A j \in Range(u.written) : \/ j \in Range(t.written)
                              \/ \E i \in DOMAIN recs : recs[i] = JobRecord(j)

\* What is appended for the submits in S takes the tap from t to u.
Sofar(recs, t, u, S, o) ==
  /\ recs \in Seq(Rec) /\ u \in TapRec /\ u.jobs = t.jobs
  /\ Plain(recs, S, o) /\ Beside(recs, t) /\ Complete(recs, S) /\ Covered(recs, t, u)

LEMMA SofarNothing ==
  ASSUME NEW t \in TapRec, NEW o
  PROVE  Sofar(<<>>, t, t, {}, o)
<1>1. DOMAIN <<>> = {} /\ <<>> \in Seq(Rec)
  OBVIOUS
<1> QED
  BY <1>1 DEF Sofar, Plain, Beside, Complete, Covered

LEMMA ResolvedFields ==
  ASSUME shares \in Seq(Share), NEW n \in DOMAIN shares, NEW o, NEW t \in TapRec
  PROVE  /\ Resolved(t, n, o) \in TapRec
         /\ Resolved(t, n, o).jobs = t.jobs /\ Resolved(t, n, o).pending = t.pending
         /\ Resolved(t, n, o).terms = t.terms
         /\ \A j \in Range(Resolved(t, n, o).written) :
              \/ j \in Range(t.written)
              \/ JobDue(t, n, o) /\ j = shares[n].job
<1>1. shares[n].job \in Nat /\ WrittenHeld \in Nat \ {0} /\ t.written \in Seq(Nat)
  BY ShareFields, RelayAssumption DEF TapRec
<1>2. PICK w \in Seq(Nat) :
        /\ w = IF JobDue(t, n, o) THEN Newest(Append(t.written, shares[n].job), WrittenHeld)
               ELSE t.written
        /\ \A j \in Range(w) : j \in Range(t.written) \/ (JobDue(t, n, o) /\ j = shares[n].job)
  <2>1. CASE JobDue(t, n, o)
    <3>1. /\ Newest(Append(t.written, shares[n].job), WrittenHeld) \in Seq(Nat)
          /\ \A j \in Range(Newest(Append(t.written, shares[n].job), WrittenHeld)) :
               j \in Range(t.written) \cup {shares[n].job}
      BY <1>1, NewestKept
    <3> QED
      BY <2>1, <3>1
  <2>2. CASE ~JobDue(t, n, o)
    BY <1>1, <2>2
  <2> QED
    BY <2>1, <2>2
<1>3. Resolved(t, n, o) = [t EXCEPT !.written = w]
  BY <1>2 DEF Resolved
<1> QED
  BY <1>2, <1>3 DEF TapRec

LEMMA SofarOneMore ==
  ASSUME shares \in Seq(Share), NEW n \in DOMAIN shares, NEW o \in Outcomes,
         NEW t, NEW u, NEW recs, NEW S, n \notin S, Sofar(recs, t, u, S, o)
  PROVE  Sofar(recs \o Records(u, n, o), t, Resolved(u, n, o), S \cup {n}, o)
<1>0. recs \in Seq(Rec) /\ u \in TapRec /\ u.jobs = t.jobs
  BY DEF Sofar
<1> DEFINE j == shares[n].job
<1>1. PICK new : new = recs \o Records(u, n, o)
  OBVIOUS
<1>2. /\ new \in Seq(Rec) /\ Len(recs) \in Nat /\ Len(new) \in Nat
      /\ DOMAIN recs = 1..Len(recs) /\ DOMAIN new = 1..Len(new)
      /\ Len(new) = Len(recs) + (IF JobDue(u, n, o) THEN 2 ELSE 1)
      /\ \A i \in 1..Len(recs) : new[i] = recs[i]
      /\ new[Len(new)] = ShareRecord(n, o)
      /\ JobDue(u, n, o) => new[Len(recs) + 1] = JobRecord(j)
  <2>1. Added(new, recs, u, n, o)
    BY <1>0, <1>1, RecordsAdded
  <2> QED
    BY <2>1 DEF Added
<1>3. \A i \in DOMAIN new : \/ i \in DOMAIN recs /\ new[i] = recs[i]
                            \/ i = Len(new) /\ i \notin DOMAIN recs /\ new[i] = ShareRecord(n, o)
                            \/ /\ JobDue(u, n, o) /\ i \notin DOMAIN recs
                               /\ i # Len(new) /\ new[i] = JobRecord(j)
  <2> TAKE i \in DOMAIN new
  <2>1. CASE i \in DOMAIN recs
    BY <1>2, <2>1
  <2>2. CASE i \notin DOMAIN recs
    <3>1. i \in 1..Len(new) /\ i \notin 1..Len(recs)
      BY <1>2, <2>2
    <3>2. i = Len(new) \/ (JobDue(u, n, o) /\ i = Len(recs) + 1 /\ i # Len(new))
      BY <1>2, <3>1
    <3> QED
      BY <1>2, <2>2, <3>2
  <2> QED
    BY <2>1, <2>2
<1>4. JobRecord(j).kind = "job" /\ IsShare(ShareRecord(n, o), n) /\ ShareRecord(n, o).outcome = o
  BY ShareFields, JobRecordFields, ShareRecordFields
<1>5. Plain(recs, S, o) /\ Beside(recs, t) /\ Complete(recs, S) /\ Covered(recs, t, u)
  BY DEF Sofar
<1>6. Plain(new, S \cup {n}, o)
  <2>1. ASSUME NEW i \in DOMAIN new, new[i].kind = "share"
        PROVE  /\ new[i].share \in S \cup {n} /\ new[i].outcome = o
               /\ \A k \in DOMAIN new : IsShare(new[k], new[i].share) => k = i
    <3>1. CASE i \in DOMAIN recs /\ new[i] = recs[i]
      <4>1. /\ new[i].share \in S /\ new[i].outcome = o
            /\ \A k \in DOMAIN recs : IsShare(recs[k], new[i].share) => k = i
        BY <1>5, <2>1, <3>1 DEF Plain
      <4>2. new[i].share # n
        BY <4>1
      <4>3. ASSUME NEW k \in DOMAIN new, IsShare(new[k], new[i].share)
            PROVE  k = i
        BY <1>3, <1>4, <4>1, <4>2, <4>3 DEF IsShare
      <4> QED
        BY <4>1, <4>3
    <3>2. CASE i = Len(new) /\ i \notin DOMAIN recs /\ new[i] = ShareRecord(n, o)
      <4>1. new[i].share = n /\ new[i].outcome = o
        BY <1>4, <3>2 DEF IsShare
      <4>2. ASSUME NEW k \in DOMAIN recs, IsShare(recs[k], n)
            PROVE  FALSE
        BY <1>5, <4>2 DEF Plain, IsShare
      <4>3. ASSUME NEW k \in DOMAIN new, IsShare(new[k], n)
            PROVE  k = i
        BY <1>3, <1>4, <3>2, <4>2, <4>3 DEF IsShare
      <4> QED
        BY <4>1, <4>3
    <3> QED
      BY <1>3, <1>4, <2>1, <3>1, <3>2
  <2> QED
    BY <2>1 DEF Plain
<1>7. Beside(new, t)
  <2>1. ASSUME NEW i \in DOMAIN new, new[i].kind = "share",
               shares[new[i].share].job \in Range(t.jobs),
               shares[new[i].share].job \notin Range(t.written)
        PROVE  \E k \in 1..(i - 1) : new[k] = JobRecord(shares[new[i].share].job)
    <3>1. CASE i \in DOMAIN recs /\ new[i] = recs[i]
      <4>1. PICK k \in 1..(i - 1) : recs[k] = JobRecord(shares[recs[i].share].job)
        BY <1>5, <2>1, <3>1 DEF Beside
      <4>2. k \in 1..Len(recs)
        BY <1>2, <3>1
      <4> QED
        BY <1>2, <3>1, <4>1, <4>2
    <3>2. CASE i = Len(new) /\ i \notin DOMAIN recs /\ new[i] = ShareRecord(n, o)
      <4>1. new[i].share = n
        BY <1>4, <3>2 DEF IsShare
      <4>2. CASE JobDue(u, n, o)
        <5>1. new[Len(recs) + 1] = JobRecord(j) /\ Len(recs) + 1 \in 1..(i - 1)
          BY <1>2, <3>2, <4>2
        <5> QED
          BY <4>1, <5>1
      <4>3. CASE ~JobDue(u, n, o)
        <5>1. j \in Range(u.jobs)
          BY <1>0, <2>1, <4>1
        <5>2. u.jobs \in Seq(Nat) /\ u.written \in Seq(Nat)
          BY <1>0 DEF TapRec
        <5>3. Contains(u.jobs, j)
          BY <5>1, <5>2, LenProperties DEF Contains, Range
        <5>4. Contains(u.written, j)
          BY <4>3, <5>3 DEF JobDue
        <5>5. j \in Range(u.written)
          BY <5>2, <5>4, LenProperties DEF Contains, Range
        <5>6. PICK k \in DOMAIN recs : recs[k] = JobRecord(j)
          BY <1>5, <2>1, <4>1, <5>5 DEF Covered
        <5>7. k \in 1..(i - 1) /\ new[k] = recs[k]
          BY <1>2, <3>2
        <5> QED
          BY <4>1, <5>6, <5>7
      <4> QED
        BY <4>2, <4>3
    <3> QED
      BY <1>3, <1>4, <2>1, <3>1, <3>2
  <2> QED
    BY <2>1 DEF Beside
<1>8. Complete(new, S \cup {n})
  <2>1. ASSUME NEW m \in S \cup {n}
        PROVE  \E i \in DOMAIN new : IsShare(new[i], m)
    <3>1. CASE m \in S
      <4>1. PICK i \in DOMAIN recs : IsShare(recs[i], m)
        BY <1>5, <3>1 DEF Complete
      <4>2. i \in DOMAIN new /\ new[i] = recs[i]
        BY <1>2
      <4> QED
        BY <4>1, <4>2
    <3>2. CASE m = n
      <4>1. Len(new) \in DOMAIN new
        BY <1>2
      <4> QED
        BY <1>2, <1>4, <3>2, <4>1
    <3> QED
      BY <3>1, <3>2
  <2> QED
    BY <2>1 DEF Complete
<1>9. Resolved(u, n, o) \in TapRec /\ Resolved(u, n, o).jobs = t.jobs
  BY <1>0, ResolvedFields
<1>10. Covered(new, t, Resolved(u, n, o))
  <2>1. ASSUME NEW x \in Range(Resolved(u, n, o).written), x \notin Range(t.written)
        PROVE  \E i \in DOMAIN new : new[i] = JobRecord(x)
    <3>1. CASE x \in Range(u.written)
      <4>1. PICK i \in DOMAIN recs : recs[i] = JobRecord(x)
        BY <1>5, <2>1, <3>1 DEF Covered
      <4>2. i \in DOMAIN new /\ new[i] = recs[i]
        BY <1>2
      <4> QED
        BY <4>1, <4>2
    <3>2. CASE JobDue(u, n, o) /\ x = j
      <4>1. Len(recs) + 1 \in DOMAIN new
        BY <1>2, <3>2
      <4> QED
        BY <1>2, <3>2, <4>1
    <3> QED
      BY <1>0, <2>1, <3>1, <3>2, ResolvedFields
  <2> QED
    BY <2>1 DEF Covered
<1> QED
  BY <1>1, <1>2, <1>6, <1>7, <1>8, <1>9, <1>10 DEF Sofar

LEMMA DrainedSofar ==
  ASSUME shares \in Seq(Share), NEW t \in TapRec,
         \A i \in DOMAIN t.pending : t.pending[i] \in DOMAIN shares,
         \A i, k \in DOMAIN t.pending : t.pending[i] = t.pending[k] => i = k
  PROVE  Sofar(Drained(t).recs, t, Drained(t).tap, Range(t.pending), "unanswered")
<1>1. t.pending \in Seq(Nat)
  BY DEF TapRec
<1>2. PICK N \in Nat : N = Len(t.pending) /\ DOMAIN t.pending = 1..N
  BY <1>1, LenProperties
<1>3. PICK acc : /\ acc[0] = Begun(t)
                 /\ \A k \in 0..(Len(t.pending) - 1) :
                      acc[k + 1] = DrainStep(acc[k], t.pending[k + 1])
                 /\ Drained(t) = acc[Len(t.pending)]
  BY <1>1, DrainLoop
<1> DEFINE Done(k) == {t.pending[i] : i \in 1..k}
           W == {k \in Nat : k <= N => Sofar(acc[k].recs, t, acc[k].tap, Done(k), "unanswered")}
<1>4. 0 \in W
  <2>1. acc[0].recs = <<>> /\ acc[0].tap = t
    BY <1>3 DEF Begun
  <2>2. Done(0) = {}
    OBVIOUS
  <2>3. Sofar(<<>>, t, t, {}, "unanswered")
    BY SofarNothing
  <2> HIDE DEF Done
  <2> QED
    BY <2>1, <2>2, <2>3
<1>5. ASSUME NEW k \in Nat, k \in W
      PROVE  k + 1 \in W
  <2>1. SUFFICES ASSUME k + 1 <= N
                 PROVE  Sofar(acc[k + 1].recs, t, acc[k + 1].tap, Done(k + 1), "unanswered")
    OBVIOUS
  <2>2. k \in 0..(N - 1) /\ k <= N /\ k + 1 \in 1..N
    BY <1>2, <2>1
  <2>3. PICK n \in DOMAIN shares : n = t.pending[k + 1]
    BY <1>2, <2>2
  <2>4. /\ acc[k + 1].recs = acc[k].recs \o Records(acc[k].tap, n, "unanswered")
        /\ acc[k + 1].tap = Resolved(acc[k].tap, n, "unanswered")
    <3>1. acc[k + 1] = DrainStep(acc[k], n)
      BY <1>2, <1>3, <2>2, <2>3
    <3> QED
      BY ONLY <3>1, DrainStepFields
  <2>5. n \notin Done(k)
    <3>1. ASSUME NEW i \in 1..k, t.pending[i] = n
          PROVE  FALSE
      <4>1. i \in 1..N /\ i # k + 1
        BY <1>2, <2>2
      <4> QED
        BY <1>2, <2>2, <2>3, <3>1, <4>1
    <3> QED
      BY <3>1
  <2>6. Done(k + 1) = Done(k) \cup {n}
    <3>1. \A i : i \in 1..(k + 1) <=> i \in 1..k \/ i = k + 1
      OBVIOUS
    <3> QED
      BY <2>3, <3>1
  <2>7. Sofar(acc[k].recs, t, acc[k].tap, Done(k), "unanswered")
    BY <1>5, <2>2
  <2>8. "unanswered" \in Outcomes
    BY DEF Outcomes
  <2> HIDE DEF Done
  <2>9. \A S, u, recs : Sofar(recs, t, u, S, "unanswered") /\ n \notin S
          => Sofar(recs \o Records(u, n, "unanswered"), t, Resolved(u, n, "unanswered"),
                   S \cup {n}, "unanswered")
    BY <2>8, SofarOneMore
  <2> QED
    BY <2>4, <2>5, <2>6, <2>7, <2>9
<1>6. Nat \subseteq W
  <2> HIDE DEF W
  <2> QED
    BY <1>4, <1>5, NatSetInduction
<1>7. Sofar(acc[N].recs, t, acc[N].tap, Done(N), "unanswered")
  <2> HIDE DEF Done
  <2>1. N \in W
    BY <1>2, <1>6
  <2> QED
    BY <1>2, <2>1
<1>8. Done(N) = Range(t.pending)
  BY <1>2 DEF Range
<1> HIDE DEF Done
<1> QED
  BY <1>2, <1>3, <1>7, <1>8

LEMMA AnswerSofar ==
  ASSUME shares \in Seq(Share), NEW t \in TapRec, NEW n \in DOMAIN shares, NEW o \in Outcomes
  PROVE  Sofar(Records(t, n, o), t, Resolved(t, n, o), {n}, o)
<1>1. Sofar(<<>>, t, t, {}, o)
  BY SofarNothing
<1>2. Sofar(<<>> \o Records(t, n, o), t, Resolved(t, n, o), {} \cup {n}, o)
  BY <1>1, SofarOneMore
<1>3. <<>> \o Records(t, n, o) = Records(t, n, o)
  BY RecordsShape, ConcatEmptySeq
<1>4. {} \cup {n} = {n}
  OBVIOUS
<1> QED
  BY <1>2, <1>3, <1>4

-----------------------------------------------------------------------------
(* What a write does to the file.                                          *)

LEMMA LineFields ==
  ASSUME NEW l \in FileLine
  PROVE  l.rec \in Rec /\ l.end \in Ends
BY DEF FileLine

\* f is the file followed by recs.
Grown(f, recs) ==
  /\ f \in Seq(FileLine) /\ Len(f) = Len(file) + Len(recs)
  /\ \A i \in 1..Len(file) : f[i] = file[i]
  /\ \A i \in 1..Len(recs) :
       f[Len(file) + i].rec = recs[i] /\ f[Len(file) + i].end = "newline"

LEMMA LinesFields ==
  ASSUME NEW recs \in Seq(Rec)
  PROVE  /\ Lines(recs) \in Seq(FileLine) /\ Len(Lines(recs)) = Len(recs)
         /\ \A i \in 1..Len(recs) : Lines(recs)[i].rec = recs[i] /\ Lines(recs)[i].end = "newline"
<1>1. Len(recs) \in Nat /\ DOMAIN recs = 1..Len(recs) /\ \A i \in 1..Len(recs) : recs[i] \in Rec
  BY LenProperties, ElementOfSeq
<1>2. Lines(recs) = [i \in 1..Len(recs) |-> [rec |-> recs[i], end |-> "newline"]]
  BY <1>1 DEF Lines
<1>3. Lines(recs) \in [1..Len(recs) -> FileLine]
  BY <1>1, <1>2 DEF FileLine, Ends
<1>4. Lines(recs) \in Seq(FileLine) /\ Len(Lines(recs)) = Len(recs)
  BY <1>1, <1>3
<1> QED
  BY <1>2, <1>4

LEMMA LinesGrown ==
  ASSUME file \in Seq(FileLine), NEW recs \in Seq(Rec)
  PROVE  Grown(file \o Lines(recs), recs)
<1>1. Len(file) \in Nat /\ Len(recs) \in Nat
  BY LenProperties
<1>2. PICK b \in Seq(FileLine) : b = Lines(recs) /\ Len(b) = Len(recs)
  BY LinesFields
<1>0. PICK f : f = file \o b
  OBVIOUS
<1>3. /\ f \in Seq(FileLine) /\ Len(f) = Len(file) + Len(b)
      /\ \A i \in 1..(Len(file) + Len(b)) : f[i] = IF i <= Len(file) THEN file[i] ELSE b[i - Len(file)]
  BY <1>0, ConcatProperties
<1>8. PICK M, N : M = Len(file) /\ N = Len(recs) /\ M \in Nat /\ N \in Nat /\ Len(b) = N
  BY <1>1, <1>2
<1>9. \A i \in 1..(M + N) : f[i] = IF i <= M THEN file[i] ELSE b[i - M]
  BY <1>3, <1>8
<1>10. \A i \in 1..M : i \in 1..(M + N) /\ i <= M
  BY <1>8
<1>4. \A i \in 1..Len(file) : f[i] = file[i]
  BY <1>8, <1>9, <1>10
<1>5. \A i \in 1..Len(recs) : f[Len(file) + i] = b[i]
  <2>1. ASSUME NEW i \in 1..N
        PROVE  f[M + i] = b[i]
    <3>1. M + i \in 1..(M + N) /\ ~(M + i <= M) /\ (M + i) - M = i
      BY <1>8
    <3> QED
      BY <1>9, <3>1
  <2> QED
    BY <1>8, <2>1
<1>6. \A i \in 1..Len(recs) : b[i].rec = recs[i] /\ b[i].end = "newline"
  BY <1>2, LinesFields
<1>7. \A i \in 1..Len(recs) : f[Len(file) + i].rec = recs[i] /\ f[Len(file) + i].end = "newline"
  BY <1>5, <1>6
<1> QED
  BY <1>0, <1>2, <1>3, <1>4, <1>7 DEF Grown

\* g is left of f: as long or shorter, down to what the disk holds, and of the
\* last line perhaps less.
Remains(g, f) ==
  /\ g \in Seq(FileLine) /\ Len(g) <= Len(f)
  /\ \A i \in 1..Len(g) :
       g[i].rec = f[i].rec /\ (i # Len(g) => g[i].end = f[i].end)

LEMMA LeftRemains ==
  ASSUME NEW f \in Seq(FileLine), durable \in 0..Len(f), NEW g \in Left(f)
  PROVE  Remains(g, f)
<1>1. Len(f) \in Nat /\ DOMAIN f = 1..Len(f) /\ \A i \in 1..Len(f) : f[i] \in FileLine
  BY LenProperties, ElementOfSeq
<1>2. ASSUME NEW k \in 0..Len(f)
      PROVE  /\ SubSeq(f, 1, k) \in Seq(FileLine) /\ Len(SubSeq(f, 1, k)) = k
             /\ \A i \in 1..k : SubSeq(f, 1, k)[i] = f[i]
  <2>1. k \in Nat /\ \A i \in 1..k : f[i] \in FileLine
    BY <1>1
  <2>2. PICK s : s = SubSeq(f, 1, k)
    OBVIOUS
  <2>3. /\ s \in Seq(FileLine) /\ Len(s) = IF 1 <= k THEN k - 1 + 1 ELSE 0
        /\ \A i \in 1..(k - 1 + 1) : s[i] = f[1 + i - 1]
    BY <2>1, <2>2, SubSeqProperties
  <2> QED
    BY <2>1, <2>2, <2>3
<1>3. CASE g = SubSeq(f, 1, durable)
  <2>1. g \in Seq(FileLine) /\ Len(g) = durable /\ \A i \in 1..Len(g) : g[i] = f[i]
    BY <1>2, <1>3
  <2> QED
    BY <1>1, <2>1 DEF Remains
<1>4. ASSUME NEW k \in (durable + 1)..Len(f), NEW end \in Ends,
             g = [SubSeq(f, 1, k) EXCEPT ![k].end = end]
      PROVE  Remains(g, f)
  <2>1. k \in 1..k /\ k \in 0..Len(f) /\ k \in Nat
    BY <1>1
  <2>2. PICK s \in Seq(FileLine) : s = SubSeq(f, 1, k) /\ Len(s) = k /\ \A i \in 1..k : s[i] = f[i]
    BY <1>2, <2>1
  <2>3. s[k] \in FileLine /\ DOMAIN s = 1..k
    BY <2>1, <2>2, LenProperties, ElementOfSeq
  <2>4. PICK e : e = [s[k] EXCEPT !.end = end]
    OBVIOUS
  <2>7. e \in FileLine /\ e.rec = s[k].rec
    BY <1>4, <2>3, <2>4 DEF FileLine
  <2>5. g = [s EXCEPT ![k] = e]
    BY <1>4, <2>2, <2>4
  <2>6. /\ g \in Seq(FileLine) /\ Len(g) = k
        /\ \A i \in 1..k : g[i] = IF i = k THEN e ELSE s[i]
    <3>1. k \in 1..Len(s)
      BY <2>1, <2>2
    <3>2. PICK r : r = [s EXCEPT ![k] = e]
      OBVIOUS
    <3>3. /\ r \in Seq(FileLine) /\ Len(r) = Len(s)
          /\ \A i \in 1..Len(s) : r[i] = IF i = k THEN e ELSE s[i]
      BY <2>7, <3>1, <3>2, ExceptSeq
    <3> QED
      BY <2>2, <2>5, <3>2, <3>3
  <2>8. Len(g) <= Len(f) /\ \A i \in 1..k : i # k => g[i] = f[i]
    BY <1>1, <2>1, <2>2, <2>6
  <2>9. g[k].rec = f[k].rec
    BY <2>1, <2>2, <2>6, <2>7
  <2> QED
    BY <2>6, <2>8, <2>9 DEF Remains
<1> QED
  BY <1>3, <1>4 DEF Left

-----------------------------------------------------------------------------
(* The submits that wait, and the types.                                   *)

\* The submits of D that wait, each once.
Queue(q, D) ==
  /\ q \in Seq(Nat)
  /\ \A i \in DOMAIN q : q[i] \in D
  /\ \A i, k \in DOMAIN q : q[i] = q[k] => i = k

TypeInv ==
  /\ session \in Nat /\ up \in BOOLEAN /\ durable \in 0..Len(file)
  /\ tap \in TapRec /\ heard \in Seq(Nat) /\ file \in Seq(FileLine)
  /\ shares \in Seq(Share)
  /\ force \in Nat /\ toProxy \in Seq(Nat) /\ toRelay \in Seq(Msg)
  /\ pushes \in Nat /\ losses \in Nat
  /\ Queue(tap.pending, DOMAIN shares)
  /\ \A i \in DOMAIN toProxy : toProxy[i] \in DOMAIN shares

LEMMA WaitingFound ==
  ASSUME TypeInv, NEW id
  PROVE  \/ Waiting(id) = None /\ \A n \in Range(tap.pending) : shares[n].id # id
         \/ /\ Waiting(id) # None /\ Waiting(id) \in Range(tap.pending)
            /\ Waiting(id) \in DOMAIN shares /\ shares[Waiting(id)].id = id
<1>1. PICK under : under = {n \in Range(tap.pending) : shares[n].id = id}
  OBVIOUS
<1>2. CASE under = {}
  BY <1>1, <1>2 DEF Waiting
<1>3. CASE under # {}
  <2>1. Waiting(id) \in under
    BY <1>1, <1>3 DEF Waiting
  <2>2. \A n \in under : n \in DOMAIN shares /\ n \in Nat
    BY <1>1, ShareFields DEF Range, TypeInv, Queue
  <2> QED
    BY <1>1, <2>1, <2>2, RelayAssumption
<1> QED
  BY <1>2, <1>3

LEMMA HeldQueue ==
  ASSUME TypeInv, NEW id, NEW n \in Nat, n \notin DOMAIN shares, NEW D,
         DOMAIN shares \subseteq D, n \in D
  PROVE  Queue(Held(n, id), D)
<1> DEFINE q == tap.pending
<1>1. PICK l \in Nat : /\ q \in Seq(Nat) /\ Len(q) = l /\ DOMAIN q = 1..l
                       /\ \A i \in DOMAIN q : q[i] \in DOMAIN shares /\ q[i] \in Nat
                       /\ \A i, k \in DOMAIN q : q[i] = q[k] => i = k
  BY LenProperties, ElementOfSeq DEF TypeInv, Queue
<1>2. PICK w : w = Waiting(id)
  OBVIOUS
<1>3. CASE w = None
  <2>1. Held(n, id) = Append(q, n)
    BY <1>2, <1>3 DEF Held
  <2>2. PICK a \in Seq(Nat) : a = Append(q, n)
    BY <1>1, Appending
  <2>3. DOMAIN a = 1..(l + 1) /\ a[l + 1] = n /\ \A i \in 1..l : a[i] = q[i]
    BY <1>1, <2>2, Appending
  <2>4. \A i \in 1..(l + 1) : i \in 1..l \/ i = l + 1
    OBVIOUS
  <2>5. \A i \in DOMAIN a : a[i] \in D
    BY <1>1, <2>3, <2>4
  <2>6. \A i, k \in DOMAIN a : a[i] = a[k] => i = k
    BY <1>1, <2>3, <2>4
  <2> QED
    BY <2>1, <2>2, <2>5, <2>6 DEF Queue
<1>4. CASE w # None
  <2>1. PICK a : a = [i \in 1..l |-> IF q[i] = w THEN n ELSE q[i]]
    OBVIOUS
  <2>2. Held(n, id) = a
    BY <1>1, <1>2, <1>4, <2>1 DEF Held
  <2>3. \A i \in 1..l : a[i] = (IF q[i] = w THEN n ELSE q[i]) /\ a[i] \in D /\ a[i] \in Nat
    BY <1>1, <2>1
  <2>4. a \in [1..l -> Nat]
    BY <2>1, <2>3
  <2>5. a \in Seq(Nat) /\ DOMAIN a = 1..l
    BY <1>1, <2>4
  <2>6. \A i, k \in 1..l : a[i] = a[k] => i = k
    BY <1>1, <2>3
  <2> QED
    BY <2>2, <2>3, <2>5, <2>6 DEF Queue
<1> QED
  BY <1>3, <1>4

LEMMA RemovedQueue ==
  ASSUME NEW q, NEW D, Queue(q, D), NEW n \in Range(q)
  PROVE  LET r == RemoveAt(q, CHOOSE i \in DOMAIN q : q[i] = n) IN
         Queue(r, D) /\ Range(r) = Range(q) \ {n}
<1>1. PICK l \in Nat : /\ q \in Seq(Nat) /\ Len(q) = l /\ DOMAIN q = 1..l
                       /\ \A i \in 1..l : q[i] \in D
                       /\ \A i, k \in 1..l : q[i] = q[k] => i = k
  BY LenProperties DEF Queue
<1>2. PICK j \in 1..l : j = (CHOOSE i \in DOMAIN q : q[i] = n) /\ q[j] = n
  BY <1>1 DEF Range
<1>3. PICK r : r = RemoveAt(q, j)
  OBVIOUS
<1>4. /\ r \in Seq(Nat) /\ Len(r) = l - 1
      /\ \A i \in 1..(l - 1) : r[i] = IF i < j THEN q[i] ELSE q[i + 1]
  <2>1. /\ RemoveAt(q, j) \in Seq(Nat) /\ Len(RemoveAt(q, j)) = Len(q) - 1
        /\ \A i \in 1..(Len(q) - 1) : RemoveAt(q, j)[i] = IF i < j THEN q[i] ELSE q[i + 1]
    BY <1>1, RemovedAt
  <2> QED
    BY <1>1, <1>3, <2>1
<1>5. DOMAIN r = 1..(l - 1)
  BY <1>4, LenProperties
<1> DEFINE At(i) == IF i < j THEN i ELSE i + 1
<1>6. \A i \in 1..(l - 1) : At(i) \in 1..l /\ At(i) # j /\ r[i] = q[At(i)]
  BY <1>4
<1>7. \A i, k \in 1..(l - 1) : At(i) = At(k) => i = k
  OBVIOUS
<1>8. \A k \in 1..l : k # j => \E i \in 1..(l - 1) : At(i) = k
  <2> TAKE k \in 1..l
  <2> HAVE k # j
  <2>1. CASE k < j
    <3>1. k \in 1..(l - 1) /\ At(k) = k
      BY <2>1
    <3> QED
      BY <3>1
  <2>2. CASE k > j
    <3>1. k - 1 \in 1..(l - 1) /\ At(k - 1) = k
      BY <2>2
    <3> QED
      BY <3>1
  <2> QED
    BY <2>1, <2>2
<1> HIDE DEF At
<1>9. Queue(r, D)
  <2>1. \A i \in DOMAIN r : r[i] \in D
    BY <1>1, <1>5, <1>6
  <2>2. \A i, k \in DOMAIN r : r[i] = r[k] => i = k
    BY <1>1, <1>5, <1>6, <1>7
  <2> QED
    BY <1>4, <2>1, <2>2 DEF Queue
<1>10. Range(r) = Range(q) \ {n}
  <2>1. ASSUME NEW i \in DOMAIN r
        PROVE  r[i] \in Range(q) /\ r[i] # n
    BY <1>1, <1>2, <1>5, <1>6 DEF Range
  <2>2. ASSUME NEW k \in DOMAIN q, q[k] # n
        PROVE  \E i \in DOMAIN r : r[i] = q[k]
    <3>1. k # j
      BY <1>2, <2>2
    <3>2. PICK i \in 1..(l - 1) : At(i) = k
      BY <1>1, <1>8, <3>1
    <3> QED
      BY <1>5, <1>6, <3>2
  <2> QED
    BY <2>1, <2>2 DEF Range
<1> QED
  BY <1>2, <1>3, <1>9, <1>10

\* An answer that settles a submit.
Settles(m, n) ==
  /\ n \in DOMAIN shares /\ n \in Range(tap.pending) /\ shares[n].id = m.id
  /\ AnswerRecords(m) = Records(tap, n, Outcome(m))
  /\ Settled(m) \in TapRec /\ Settled(m).jobs = tap.jobs
  /\ Settled(m).written = Resolved(tap, n, Outcome(m)).written
  /\ Queue(Settled(m).pending, DOMAIN shares)
  /\ Range(Settled(m).pending) = Range(tap.pending) \ {n}

LEMMA AnswerSettles ==
  ASSUME TypeInv, NEW m \in Msg, m.kind = "answer"
  PROVE  \/ AnswerRecords(m) = <<>> /\ Settled(m) = tap
         \/ \E n : Settles(m, n)
<1>1. CASE Waiting(m.id) = None
  BY <1>1 DEF AnswerRecords, Settled
<1>2. CASE Waiting(m.id) # None
  <2>1. PICK n \in DOMAIN shares : n = Waiting(m.id) /\ n \in Range(tap.pending) /\ shares[n].id = m.id
    BY <1>2, WaitingFound
  <2>2. AnswerRecords(m) = Records(tap, n, Outcome(m))
    BY <1>2, <2>1 DEF AnswerRecords
  <2>3. PICK r : r = RemoveAt(tap.pending, CHOOSE i \in DOMAIN tap.pending : tap.pending[i] = n)
    OBVIOUS
  <2>4. Queue(r, DOMAIN shares) /\ Range(r) = Range(tap.pending) \ {n}
    BY <2>1, <2>3, RemovedQueue DEF TypeInv
  <2>5. tap \in TapRec /\ shares \in Seq(Share)
    BY DEF TypeInv
  <2>6. PICK u \in TapRec : u = Resolved(tap, n, Outcome(m)) /\ u.jobs = tap.jobs /\ u.pending = tap.pending
    BY <2>5, ResolvedFields
  <2>7. Settled(m) = [u EXCEPT !.pending = r]
    BY <1>2, <2>1, <2>3, <2>6 DEF Settled
  <2>8. r \in Seq(Nat)
    BY <2>4 DEF Queue
  <2>9. [u EXCEPT !.pending = r] \in TapRec
    BY <2>8 DEF TapRec
  <2>10. /\ Settled(m).jobs = u.jobs /\ Settled(m).written = u.written
         /\ Settled(m).pending = r
    BY <2>7 DEF TapRec
  <2> QED
    BY <2>1, <2>2, <2>4, <2>6, <2>7, <2>9, <2>10 DEF Settles
<1> QED
  BY <1>1, <1>2

-----------------------------------------------------------------------------
(* The type invariant.                                                     *)

LEMMA MsgFields ==
  ASSUME NEW m \in Msg
  PROVE  /\ m.kind \in {"answer", "job", "terms"}
         /\ m.kind = "answer" => m.id \in AnyId /\ m.ok \in BOOLEAN /\ Outcome(m) \in Outcomes
         /\ m.kind # "answer" => m.push \in Nat
BY DEF Msg, Outcome, Outcomes

LEMMA NewTapType == NewTap \in TapRec /\ Queue(NewTap.pending, {}) /\ NewTap.pending = <<>>
<1>1. <<>> \in Seq(Nat) /\ DOMAIN <<>> = {}
  OBVIOUS
<1> QED
  BY <1>1 DEF NewTap, TapRec, Queue

LEMMA QueueIn ==
  ASSUME NEW q, NEW C, NEW D, Queue(q, C), C \subseteq D
  PROVE  Queue(q, D)
BY DEF Queue

\* How a step changes the file: not at all, or by records of submits that wait.
Batch(recs) ==
  \E S \in SUBSET (Range(tap.pending) \cap DOMAIN shares), o \in Outcomes : \E u :
    Sofar(recs, tap, u, S, o)

LEMMA DrainedBatch ==
  ASSUME TypeInv
  PROVE  /\ Sofar(Drained(tap).recs, tap, Drained(tap).tap, Range(tap.pending), "unanswered")
         /\ Batch(Drained(tap).recs) /\ Drained(tap).recs \in Seq(Rec)
<1>1. shares \in Seq(Share) /\ tap \in TapRec /\ Queue(tap.pending, DOMAIN shares)
  BY DEF TypeInv
<1>2. Range(tap.pending) \subseteq DOMAIN shares
  BY <1>1 DEF Queue, Range
<1>3. Sofar(Drained(tap).recs, tap, Drained(tap).tap, Range(tap.pending), "unanswered")
  BY <1>1, DrainedSofar DEF Queue
<1>4. "unanswered" \in Outcomes
  BY DEF Outcomes
<1>5. Batch(Drained(tap).recs)
  BY <1>2, <1>3, <1>4 DEF Batch
<1> QED
  BY <1>3, <1>5 DEF Sofar

LEMMA AnswerBatch ==
  ASSUME TypeInv, NEW m \in Msg
  PROVE  Batch(AnswerRecords(m)) /\ AnswerRecords(m) \in Seq(Rec)
<1>1. shares \in Seq(Share) /\ tap \in TapRec
  BY DEF TypeInv
<1>2. CASE AnswerRecords(m) = <<>>
  <2>1. Sofar(<<>>, tap, tap, {}, "accepted") /\ "accepted" \in Outcomes
    BY <1>1, SofarNothing DEF Outcomes
  <2>2. Batch(<<>>)
    BY <2>1 DEF Batch
  <2> QED
    BY <1>2, <2>1, <2>2 DEF Sofar
<1>3. CASE AnswerRecords(m) # <<>>
  <2>1. m.kind = "answer"
    BY <1>3 DEF AnswerRecords
  <2>2. PICK n : Settles(m, n)
    BY <1>3, <2>1, AnswerSettles
  <2>3. PICK o \in Outcomes : o = Outcome(m)
    BY <2>1, MsgFields
  <2>4. n \in Range(tap.pending) /\ n \in DOMAIN shares /\ AnswerRecords(m) = Records(tap, n, o)
    BY <2>2, <2>3 DEF Settles
  <2>5. Sofar(Records(tap, n, o), tap, Resolved(tap, n, o), {n}, o)
    BY <1>1, <2>4, AnswerSofar
  <2>6. Batch(AnswerRecords(m))
    BY <2>4, <2>5 DEF Batch
  <2> QED
    BY <2>4, <2>5, <2>6 DEF Sofar
<1> QED
  BY <1>2, <1>3

\* Records that a step may leave in the file, all or the first of them.
Kept(recs) ==
  /\ recs \in Seq(Rec)
  /\ \E S \in SUBSET (Range(tap.pending) \cap DOMAIN shares), o \in Outcomes :
       Plain(recs, S, o) /\ Beside(recs, tap)

FileStep ==
  \/ UNCHANGED <<file, durable, losses>>
  \/ /\ UNCHANGED <<durable, losses>>
     /\ \E recs \in Seq(Rec) : Kept(recs) /\ Grown(file', recs)
  \/ /\ losses' = losses + 1 /\ durable' = Len(file')
     /\ \E recs \in Seq(Rec) : \E f : Kept(recs) /\ Grown(f, recs) /\ Remains(file', f)

LEMMA AppendedGrown ==
  ASSUME TypeInv, NEW recs \in Seq(Rec), Appended(recs)
  PROVE  Grown(file', recs)
BY LinesGrown DEF Appended, TypeInv

LEMMA NothingAppended ==
  ASSUME TypeInv, Appended(<<>>)
  PROVE  file' = file
<1>1. Lines(<<>>) = <<>>
  BY DEF Lines
<1>2. file \in Seq(FileLine)
  BY DEF TypeInv
<1> QED
  BY <1>1, <1>2 DEF Appended

LEMMA AppendedStep ==
  ASSUME TypeInv, NEW recs \in Seq(Rec), Batch(recs), Appended(recs), losses' = losses
  PROVE  FileStep
<1>1. Grown(file', recs)
  BY AppendedGrown
<1>2. Kept(recs)
  BY DEF Kept, Batch, Sofar
<1> QED
  BY <1>1, <1>2 DEF FileStep, Appended

\* Whatever handler the power failed in.
LEMMA UnderWayBatch ==
  ASSUME TypeInv, NEW recs \in UnderWay
  PROVE  Batch(recs) /\ recs \in Seq(Rec)
<1>1. CASE recs = Drained(tap).recs
  BY <1>1, DrainedBatch
<1>2. CASE toRelay # <<>> /\ recs = AnswerRecords(Head(toRelay))
  <2>1. Head(toRelay) \in Msg
    BY <1>2, HeadTailProperties DEF TypeInv
  <2> QED
    BY <1>2, <2>1, AnswerBatch
<1> QED
  BY <1>1, <1>2 DEF UnderWay

LEMMA LossRemains ==
  ASSUME TypeInv, PowerLoss
  PROVE  \E recs \in UnderWay : \E f :
           Batch(recs) /\ recs \in Seq(Rec) /\ Grown(f, recs) /\ Remains(file', f)
<1>1. PICK recs \in UnderWay : file' \in Left(file \o Lines(recs))
  BY DEF PowerLoss
<1>2. Batch(recs) /\ recs \in Seq(Rec)
  BY <1>1, UnderWayBatch
<1>3. PICK f : f = file \o Lines(recs)
  OBVIOUS
<1>4. Grown(f, recs)
  BY <1>2, <1>3, LinesGrown DEF TypeInv
<1>5. f \in Seq(FileLine) /\ durable \in 0..Len(f)
  BY <1>2, <1>4, LenProperties DEF Grown, TypeInv
<1>6. Remains(file', f)
  BY <1>1, <1>3, <1>5, LeftRemains
<1> QED
  BY <1>2, <1>4, <1>6

LEMMA NextFileStep ==
  ASSUME TypeInv, [Next]_vars
  PROVE  FileStep
<1>1. CASE Receive
  <2>1. toRelay # <<>> /\ toRelay \in Seq(Msg)
    BY <1>1 DEF Receive, TypeInv
  <2>2. PICK m \in Msg : m = Head(toRelay)
    BY <2>1, HeadTailProperties
  <2>3. losses' = losses /\ (UNCHANGED <<file, durable>> \/ Appended(AnswerRecords(m)))
    BY <1>1, <2>2 DEF Receive
  <2>4. CASE UNCHANGED <<file, durable>>
    BY <2>3, <2>4 DEF FileStep
  <2>5. CASE Appended(AnswerRecords(m))
    BY <2>3, <2>5, AnswerBatch, AppendedStep
  <2> QED
    BY <2>3, <2>4, <2>5
<1>2. CASE Finish
  BY <1>2, DrainedBatch, AppendedStep DEF Finish
<1>3. CASE PowerLoss
  <2>0. PICK recs \in Seq(Rec) : \E f : Batch(recs) /\ Grown(f, recs) /\ Remains(file', f)
    BY <1>3, LossRemains
  <2>1. PICK f : Batch(recs) /\ Grown(f, recs) /\ Remains(file', f)
    BY <2>0
  <2>2. Kept(recs)
    BY <2>1 DEF Kept, Batch, Sofar
  <2>3. losses' = losses + 1 /\ durable' = Len(file')
    BY <1>3 DEF PowerLoss
  <2> QED
    BY <2>1, <2>2, <2>3 DEF FileStep
<1>4. CASE ~(Receive \/ Finish \/ PowerLoss)
  <2>1. UNCHANGED <<file, durable>> /\ losses' = losses
    BY <1>4 DEF Next, vars, proxy, Connect, Submit, GoBlind, ProxyTakes, ProxyAnswers, ProxyPushes
  <2> QED
    BY <2>1 DEF FileStep
<1> QED
  BY <1>1, <1>2, <1>3, <1>4

-----------------------------------------------------------------------------
(* The bound on what a loss of power costs.                                *)

\* The lines without a newline: one for each loss of power at most, and all of
\* them on the disk.
Cut == {i \in DOMAIN file : file[i].end # "newline"}

LossInv == Cut \subseteq 1..durable /\ Cardinality(Cut) <= losses

LEMMA AddAtMostOne ==
  ASSUME NEW S, IsFiniteSet(S), NEW x
  PROVE  IsFiniteSet(S \cup {x}) /\ Cardinality(S \cup {x}) <= Cardinality(S) + 1
<1>1. Cardinality(S) \in Nat
  BY FS_CardinalityType
<1>2. CASE x \in S
  <2>1. S \cup {x} = S
    BY <1>2
  <2>2. IsFiniteSet(S \cup {x}) /\ Cardinality(S \cup {x}) = Cardinality(S)
    BY <2>1, Zenon
  <2> QED
    BY <1>1, <2>2
<1>3. CASE x \notin S
  <2>1. IsFiniteSet(S \cup {x}) /\ Cardinality(S \cup {x}) = Cardinality(S) + 1
    BY <1>3, FS_AddElement
  <2> QED
    BY <1>1, <2>1
<1> QED
  BY <1>2, <1>3

\* How the lines change: a line that is there before and after ends as it did,
\* and only the last after a loss of power may lack a newline besides.
LEMMA CutLines ==
  ASSUME TypeInv, NEW recs \in Seq(Rec), NEW f, Grown(f, recs)
  PROVE  /\ f \in Seq(FileLine) /\ Len(file) \in Nat /\ Len(f) \in Nat /\ Len(file) <= Len(f)
         /\ DOMAIN file = 1..Len(file) /\ DOMAIN f = 1..Len(f)
         /\ \A i \in DOMAIN f : f[i].end # "newline" => i \in Cut
<1>1. /\ Len(file) \in Nat /\ DOMAIN file = 1..Len(file) /\ Len(recs) \in Nat
      /\ f \in Seq(FileLine) /\ Len(f) = Len(file) + Len(recs)
  BY LenProperties DEF TypeInv, Grown
<1>2. DOMAIN f = 1..Len(f)
  BY <1>1, LenProperties
<1>3. ASSUME NEW i \in DOMAIN f, f[i].end # "newline"
      PROVE  i \in Cut
  <2>1. CASE i <= Len(file)
    <3>1. i \in DOMAIN file /\ f[i] = file[i]
      BY <1>1, <1>2, <2>1 DEF Grown
    <3> QED
      BY <1>3, <3>1 DEF Cut
  <2>2. CASE ~(i <= Len(file))
    <3>1. PICK x : x = i - Len(file)
      OBVIOUS
    <3>2. x \in 1..Len(recs) /\ i = Len(file) + x
      BY <1>1, <1>2, <2>2, <3>1
    <3>3. f[Len(file) + x].end = "newline"
      BY <3>2 DEF Grown
    <3> QED
      BY <1>3, <3>2, <3>3
  <2> QED
    BY <2>1, <2>2
<1> QED
  BY <1>1, <1>2, <1>3

LEMMA CutFinite ==
  ASSUME TypeInv
  PROVE  IsFiniteSet(Cut) /\ Cardinality(Cut) \in Nat
<1>1. DOMAIN file = 1..Len(file) /\ Len(file) \in Nat
  BY LenProperties DEF TypeInv
<1>2. IsFiniteSet(DOMAIN file)
  BY <1>1, FS_Interval
<1> QED
  BY <1>2, FS_Subset, FS_CardinalityType DEF Cut

LEMMA LossInvInit ==
  ASSUME Init
  PROVE  LossInv
<1>1. Cut = {} /\ losses = 0 /\ durable = 0
  BY DEF Init, Cut
<1>2. Cardinality({}) = 0
  BY FS_EmptySet
<1> QED
  BY <1>1, <1>2 DEF LossInv

LEMMA LossStep ==
  ASSUME TypeInv, LossInv, FileStep
  PROVE  LossInv'
<1>0. /\ IsFiniteSet(Cut) /\ Cardinality(Cut) \in Nat /\ Cut \subseteq 1..durable
      /\ Cardinality(Cut) <= losses /\ losses \in Nat
  BY CutFinite DEF LossInv, TypeInv
<1>1. CASE UNCHANGED <<file, durable, losses>>
  BY <1>1 DEF LossInv, Cut
<1>2. ASSUME NEW recs \in Seq(Rec), Grown(file', recs), UNCHANGED <<durable, losses>>
      PROVE  LossInv'
  <2>1. \A i \in DOMAIN file' : file'[i].end # "newline" => i \in Cut
    BY <1>2, CutLines
  <2>2. Cut' \subseteq Cut
    BY <2>1 DEF Cut
  <2>3. Cardinality(Cut') <= Cardinality(Cut) /\ Cardinality(Cut') \in Nat
    BY <1>0, <2>2, FS_Subset, FS_CardinalityType
  <2>4. Cardinality(Cut') <= losses'
    BY ONLY <1>0, <1>2, <2>3
  <2>5. Cut' \subseteq 1..durable'
    BY <1>0, <1>2, <2>2
  <2> QED
    BY <2>4, <2>5 DEF LossInv
<1>3. ASSUME NEW recs \in Seq(Rec), NEW f, Grown(f, recs), Remains(file', f),
             losses' = losses + 1, durable' = Len(file')
      PROVE  LossInv'
  <2>1. /\ f \in Seq(FileLine) /\ Len(f) \in Nat /\ DOMAIN f = 1..Len(f)
        /\ \A i \in DOMAIN f : f[i].end # "newline" => i \in Cut
    BY <1>3, CutLines
  <2>2. /\ file' \in Seq(FileLine) /\ Len(file') \in Nat /\ DOMAIN file' = 1..Len(file')
        /\ Len(file') <= Len(f)
    BY <1>3, LenProperties DEF Remains
  <2>3. Cut' \subseteq Cut \cup {Len(file')}
    <3>1. ASSUME NEW i \in DOMAIN file', file'[i].end # "newline", i # Len(file')
          PROVE  i \in Cut
      <4>1. i \in DOMAIN f /\ file'[i].end = f[i].end
        BY <1>3, <2>1, <2>2, <3>1 DEF Remains
      <4> QED
        BY <2>1, <3>1, <4>1
    <3> QED
      BY <3>1 DEF Cut
  <2>4. /\ IsFiniteSet(Cut \cup {Len(file')})
        /\ Cardinality(Cut \cup {Len(file')}) <= Cardinality(Cut) + 1
    BY <1>0, AddAtMostOne
  <2>5. Cardinality(Cut') <= Cardinality(Cut \cup {Len(file')}) /\ Cardinality(Cut') \in Nat
    BY <2>3, <2>4, FS_Subset, FS_CardinalityType
  <2>6. Cardinality(Cut \cup {Len(file')}) \in Nat
    BY <2>4, FS_CardinalityType
  <2>7. Cardinality(Cut') <= losses'
    BY ONLY <1>0, <1>3, <2>4, <2>5, <2>6
  <2>8. Cut' \subseteq 1..durable'
    BY <1>3, <2>2 DEF Cut
  <2> QED
    BY <2>7, <2>8 DEF LossInv
<1> QED
  BY <1>1, <1>2, <1>3 DEF FileStep

\* A record that is whole and does not parse has no newline or follows one that
\* has none.
LEMMA SpoiledByCut ==
  ASSUME TypeInv, LossInv
  PROVE  LossSpoilsTwo
<1> DEFINE After == {i + 1 : i \in Cut}
<1>1. /\ IsFiniteSet(Cut) /\ Cardinality(Cut) \in Nat /\ Cardinality(Cut) <= losses
      /\ losses \in Nat /\ DOMAIN file = 1..Len(file) /\ Len(file) \in Nat
  BY CutFinite, LenProperties DEF LossInv, TypeInv
<1>2. IsFiniteSet(After) /\ Cardinality(After) <= Cardinality(Cut)
  <2> DEFINE g == [i \in Cut |-> i + 1]
  <2>1. g \in Surjection(Cut, After)
    BY DEF Surjection
  <2> QED
    BY <1>1, <2>1, FS_Surjection
<1> HIDE DEF After
<1>3. /\ IsFiniteSet(Cut \cup After) /\ Cardinality(After) \in Nat
      /\ Cardinality(Cut \cup After) = Cardinality(Cut) + Cardinality(After) - Cardinality(Cut \cap After)
      /\ Cardinality(Cut \cap After) \in Nat
  BY <1>1, <1>2, FS_Union, FS_CardinalityType, FS_Intersection
<1>4. Whole \ Counted \subseteq Cut \cup After
  <2>1. ASSUME NEW i \in DOMAIN file, file[i].end # "torn", ~Parses(i), i \notin Cut
        PROVE  i \in After
    <3>1. file[i].end = "newline"
      BY <2>1 DEF Cut
    <3>2. i > 1 /\ file[i - 1].end # "newline"
      BY <2>1, <3>1 DEF Parses
    <3>3. i - 1 \in DOMAIN file /\ i = (i - 1) + 1
      BY <1>1, <3>2
    <3>4. i - 1 \in Cut
      BY <3>2, <3>3 DEF Cut
    <3> QED
      BY <3>3, <3>4 DEF After
  <2> QED
    BY <2>1 DEF Whole, Counted
<1>5. /\ Cardinality(Whole \ Counted) \in Nat
      /\ Cardinality(Whole \ Counted) <= Cardinality(Cut \cup After)
  BY <1>3, <1>4, FS_Subset, FS_CardinalityType
<1>6. Cardinality(Whole \ Counted) <= 2 * losses
  BY ONLY <1>1, <1>2, <1>3, <1>5
<1> QED
  BY <1>6 DEF LossSpoilsTwo

LEMMA TypeInvInit ==
  ASSUME Init
  PROVE  TypeInv
<1>1. \A S : <<>> \in Seq(S)
  OBVIOUS
<1>2. DOMAIN <<>> = {} /\ 0 \in 0..Len(<<>>)
  OBVIOUS
<1> QED
  BY <1>1, <1>2, NewTapType DEF Init, TypeInv, Queue

\* The shares after a step that changes some of their books.
LEMMA BooksType ==
  ASSUME TypeInv, NEW s, s \in [DOMAIN shares -> Share]
  PROVE  s \in Seq(Share) /\ DOMAIN s = DOMAIN shares
<1>1. DOMAIN shares = 1..Len(shares) /\ Len(shares) \in Nat
  BY LenProperties DEF TypeInv
<1> QED
  BY <1>1

LEMMA TailType ==
  ASSUME NEW S, NEW q \in Seq(S), q # <<>>
  PROVE  /\ Tail(q) \in Seq(S) /\ Head(q) \in S
         /\ DOMAIN Tail(q) \subseteq DOMAIN q /\ 1 \in DOMAIN q /\ Head(q) = q[1]
         /\ \A i \in DOMAIN Tail(q) : i + 1 \in DOMAIN q /\ Tail(q)[i] = q[i + 1]
<1>1. Len(q) \in Nat \ {0} /\ DOMAIN q = 1..Len(q)
  BY LenProperties, EmptySeq
<1>2. /\ Tail(q) \in Seq(S) /\ Head(q) \in S /\ Len(Tail(q)) = Len(q) - 1
      /\ \A i \in 1..Len(Tail(q)) : Tail(q)[i] = q[i + 1]
  BY HeadTailProperties
<1>3. DOMAIN Tail(q) = 1..(Len(q) - 1)
  BY <1>2, LenProperties
<1>4. Head(q) = q[1]
  OBVIOUS
<1> QED
  BY <1>1, <1>2, <1>3, <1>4

LEMMA FileStepType ==
  ASSUME TypeInv, FileStep
  PROVE  file' \in Seq(FileLine) /\ durable' \in 0..Len(file)' /\ losses' \in Nat
<1>1. /\ file \in Seq(FileLine) /\ durable \in 0..Len(file) /\ losses \in Nat
      /\ Len(file) \in Nat
  BY LenProperties DEF TypeInv
<1>2. ASSUME NEW recs \in Seq(Rec), Grown(file', recs), UNCHANGED durable
      PROVE  file' \in Seq(FileLine) /\ durable' \in 0..Len(file)'
  <2>1. file' \in Seq(FileLine) /\ Len(file') = Len(file) + Len(recs) /\ Len(recs) \in Nat
    BY <1>2, LenProperties DEF Grown
  <2> QED
    BY <1>1, <1>2, <2>1
<1>3. ASSUME NEW f, Remains(file', f), durable' = Len(file')
      PROVE  file' \in Seq(FileLine) /\ durable' \in 0..Len(file)'
  <2>1. file' \in Seq(FileLine) /\ Len(file') \in Nat
    BY <1>3, LenProperties DEF Remains
  <2> QED
    BY <1>3, <2>1
<1>4. losses' \in {losses, losses + 1}
  BY DEF FileStep
<1>5. losses' \in Nat
  BY <1>1, <1>4
<1> QED
  BY <1>1, <1>2, <1>3, <1>5 DEF FileStep

LEMMA TypeConnect ==
  ASSUME TypeInv, Connect, FileStep
  PROVE  TypeInv'
<1>1. \A S : <<>> \in Seq(S)
  OBVIOUS
<1>2. DOMAIN <<>> = {} /\ {} \subseteq DOMAIN shares
  OBVIOUS
<1>3. Queue(NewTap.pending, DOMAIN shares)
  BY <1>2, NewTapType, QueueIn
<1> QED
  BY <1>1, <1>2, <1>3, FileStepType, NewTapType DEF Connect, TypeInv

LEMMA TypeSubmit ==
  ASSUME TypeInv, FileStep, NEW id \in Ids, NEW j \in Range(heard), Submit(id, j)
  PROVE  TypeInv'
<1>1. PICK n \in Nat : /\ n = Len(shares) + 1 /\ n \notin DOMAIN shares
                       /\ DOMAIN shares \subseteq 1..n /\ n \in 1..n
  <2>1. Len(shares) \in Nat /\ DOMAIN shares = 1..Len(shares)
    BY LenProperties DEF TypeInv
  <2> QED
    BY <2>1
<1>2. PICK e \in Share : shares' = Append(shares, e)
  <2>1. id \in AnyId
    BY <1>1 DEF Ids, AnyId
  <2>2. j \in Nat
    BY ElementOfSeq, LenProperties DEF TypeInv, Range
  <2>3. tap.terms \in Nat /\ session \in Nat
    BY DEF TypeInv, TapRec
  <2>4. [session |-> session, id |-> id, job |-> j, terms |-> tap.terms,
         read |-> "miner" \notin blind, weight |-> None, booked |-> None,
         answered |-> FALSE] \in Share
    BY <2>1, <2>2, <2>3 DEF Share
  <2> QED
    BY <2>4 DEF Submit
<1>3. shares' \in Seq(Share) /\ DOMAIN shares' = 1..n
  <2>1. shares \in Seq(Share)
    BY DEF TypeInv
  <2> QED
    BY <1>1, <1>2, <2>1, Appending
<1>4. toProxy' \in Seq(Nat) /\ \A i \in DOMAIN toProxy' : toProxy'[i] \in DOMAIN shares'
  <2>1. toProxy' = Append(toProxy, n) /\ toProxy \in Seq(Nat)
    BY <1>1 DEF Submit, TypeInv
  <2>2. /\ Append(toProxy, n) \in Seq(Nat) /\ Len(toProxy) \in Nat
        /\ DOMAIN toProxy = 1..Len(toProxy)
        /\ DOMAIN Append(toProxy, n) = 1..(Len(toProxy) + 1)
        /\ \A i \in 1..Len(toProxy) : Append(toProxy, n)[i] = toProxy[i]
        /\ Append(toProxy, n)[Len(toProxy) + 1] = n
    BY <2>1, Appending
  <2>3. \A i \in DOMAIN toProxy : toProxy[i] \in 1..n
    BY <1>1 DEF TypeInv
  <2>4. \A i \in 1..(Len(toProxy) + 1) : i \in 1..Len(toProxy) \/ i = Len(toProxy) + 1
    BY <2>2
  <2> QED
    BY <1>1, <1>3, <2>1, <2>2, <2>3, <2>4
<1>5. tap' \in TapRec /\ Queue(tap'.pending, DOMAIN shares')
  <2>1. tap \in TapRec /\ Queue(tap.pending, DOMAIN shares)
    BY DEF TypeInv
  <2>2. CASE "miner" \in blind
    <3>1. tap' = tap
      BY <2>2 DEF Submit
    <3> QED
      BY <1>1, <1>3, <2>1, <3>1, QueueIn
  <2>3. CASE "miner" \notin blind
    <3>1. tap' = [tap EXCEPT !.pending = Held(n, id)]
      BY <1>1, <2>3 DEF Submit
    <3>2. Queue(Held(n, id), 1..n)
      BY <1>1, HeldQueue
    <3>3. Held(n, id) \in Seq(Nat)
      BY <3>2 DEF Queue
    <3>4. tap' \in TapRec /\ tap'.pending = Held(n, id)
      BY <2>1, <3>1, <3>3 DEF TapRec
    <3> QED
      BY <1>3, <3>2, <3>4
  <2> QED
    BY <2>2, <2>3
<1> QED
  BY <1>3, <1>4, <1>5, FileStepType DEF Submit, TypeInv

LEMMA TypeReceive ==
  ASSUME TypeInv, FileStep, Receive
  PROVE  TypeInv'
<1>1. /\ toRelay' \in Seq(Msg)
      /\ UNCHANGED <<session, up, blind, shares, force, toProxy, pushes>>
  BY TailType DEF Receive, TypeInv
<1>2. PICK m \in Msg : m = Head(toRelay)
  BY TailType DEF Receive, TypeInv
<1>3. tap \in TapRec /\ Queue(tap.pending, DOMAIN shares) /\ heard \in Seq(Nat)
  BY DEF TypeInv
<1>4. tap' \in TapRec /\ Queue(tap'.pending, DOMAIN shares) /\ heard' \in Seq(Nat)
  <2>1. CASE UNCHANGED <<tap, heard>>
    BY <1>3, <2>1
  <2>2. CASE m.kind = "answer" /\ tap' = Settled(m) /\ UNCHANGED heard
    <3>1. CASE Settled(m) = tap
      BY <1>3, <2>2, <3>1
    <3>2. ASSUME NEW n, Settles(m, n)
          PROVE  Settled(m) \in TapRec /\ Queue(Settled(m).pending, DOMAIN shares)
      BY <3>2 DEF Settles
    <3> QED
      BY <1>3, <2>2, <3>1, <3>2, AnswerSettles
  <2>3. CASE /\ m.kind = "job" /\ heard' = Append(heard, m.push)
             /\ tap' = [tap EXCEPT !.jobs = Newest(Append(@, m.push), JobsHeld)]
    <3>1. m.push \in Nat /\ JobsHeld \in Nat \ {0} /\ tap.jobs \in Seq(Nat)
      BY <1>3, <2>3, MsgFields, RelayAssumption DEF TapRec
    <3>2. Newest(Append(tap.jobs, m.push), JobsHeld) \in Seq(Nat)
      BY <3>1, NewestKept
    <3>3. tap' \in TapRec /\ tap'.pending = tap.pending
      BY <1>3, <2>3, <3>2 DEF TapRec
    <3>4. heard' \in Seq(Nat)
      BY <1>3, <2>3, <3>1, Appending
    <3> QED
      BY <1>3, <3>3, <3>4
  <2>4. CASE m.kind = "terms" /\ tap' = [tap EXCEPT !.terms = m.push] /\ UNCHANGED heard
    <3>1. m.push \in Nat
      BY <2>4, MsgFields
    <3>2. tap' \in TapRec /\ tap'.pending = tap.pending
      BY <1>3, <2>4, <3>1 DEF TapRec
    <3> QED
      BY <1>3, <2>4, <3>2
  <2> QED
    BY <1>2, <2>1, <2>2, <2>3, <2>4 DEF Receive
<1> QED
  BY <1>1, <1>4, FileStepType DEF TypeInv

LEMMA TypeEnd ==
  ASSUME TypeInv, FileStep, Finish \/ PowerLoss
  PROVE  TypeInv'
<1>1. \A S : <<>> \in Seq(S)
  OBVIOUS
<1>2. DOMAIN <<>> = {} /\ {} \subseteq DOMAIN shares
  OBVIOUS
<1>3. Queue(NewTap.pending, DOMAIN shares)
  BY <1>2, NewTapType, QueueIn
<1>4. /\ up' = FALSE /\ tap' = NewTap /\ toProxy' = <<>> /\ toRelay' = <<>>
      /\ UNCHANGED <<session, heard, shares, force, pushes>>
  BY DEF Finish, PowerLoss
<1> QED
  BY <1>1, <1>2, <1>3, <1>4, FileStepType, NewTapType DEF TypeInv

LEMMA AnswerMsg ==
  ASSUME NEW id \in AnyId, NEW ok \in BOOLEAN, TypeInv
  PROVE  Append(toRelay, [kind |-> "answer", id |-> id, ok |-> ok]) \in Seq(Msg)
<1>1. [kind |-> "answer", id |-> id, ok |-> ok] \in Msg
  BY DEF Msg
<1> QED
  BY <1>1, Appending DEF TypeInv

\* What the proxy does with the submit n: late times others out.
Takes(n, late, busy) ==
  /\ n \in DOMAIN shares /\ toProxy # <<>> /\ n = toProxy[1] /\ late \subseteq Open
  /\ shares' = [o \in DOMAIN shares |->
               IF o # n THEN IF o \in late THEN [shares[o] EXCEPT !.booked = "unresolved"]
                             ELSE shares[o]
               ELSE [shares[n] EXCEPT !.weight = force, !.answered = busy,
                                      !.booked = IF busy THEN "refused" ELSE None]]
  /\ toRelay' = IF busy THEN Append(toRelay, [kind |-> "answer", ok |-> FALSE,
                                              id |-> shares[n].id])
                ELSE toRelay

LEMMA TakesShape ==
  ASSUME TypeInv, ProxyTakes
  PROVE  \E n, late, busy : busy \in BOOLEAN /\ Takes(n, late, busy)
<1>0. toProxy # <<>> /\ 1 \in DOMAIN toProxy /\ Head(toProxy) = toProxy[1]
  <2>1. toProxy # <<>> /\ toProxy \in Seq(Nat)
    BY DEF ProxyTakes, TypeInv
  <2> QED
    BY <2>1, TailType
<1>1. PICK n \in DOMAIN shares : n = Head(toProxy)
  BY <1>0 DEF TypeInv
<1> DEFINE Busy(late) == \E o \in Open \ late : shares[o].id = shares[n].id
<1>2. PICK late \in {{x \in Open : x < k} : k \in 1..Len(shares)} :
        /\ shares' = [o \in DOMAIN shares |->
               IF o # n THEN IF o \in late THEN [shares[o] EXCEPT !.booked = "unresolved"]
                             ELSE shares[o]
               ELSE [shares[n] EXCEPT !.weight = force, !.answered = Busy(late),
                                      !.booked = IF Busy(late) THEN "refused" ELSE None]]
        /\ toRelay' = IF Busy(late) THEN Append(toRelay, [kind |-> "answer", ok |-> FALSE,
                                                          id |-> shares[n].id])
                      ELSE toRelay
  BY <1>1, Zenon DEF ProxyTakes
<1>3. PICK busy \in BOOLEAN : busy = Busy(late)
  OBVIOUS
<1> HIDE DEF Busy
<1>4. late \subseteq Open
  OBVIOUS
<1>5. Takes(n, late, busy)
  BY <1>0, <1>1, <1>2, <1>3, <1>4 DEF Takes
<1> QED
  BY <1>5

LEMMA TypeProxyTakes ==
  ASSUME TypeInv, FileStep, ProxyTakes
  PROVE  TypeInv'
<1>0. PICK n, late, busy : busy \in BOOLEAN /\ Takes(n, late, busy)
  BY TakesShape
<1>1. n \in DOMAIN shares /\ busy \in BOOLEAN
  BY <1>0 DEF Takes
<1>2. /\ shares' = [o \in DOMAIN shares |->
               IF o # n THEN IF o \in late THEN [shares[o] EXCEPT !.booked = "unresolved"]
                             ELSE shares[o]
               ELSE [shares[n] EXCEPT !.weight = force, !.answered = busy,
                                      !.booked = IF busy THEN "refused" ELSE None]]
      /\ toRelay' = IF busy THEN Append(toRelay, [kind |-> "answer", ok |-> FALSE,
                                                  id |-> shares[n].id])
                    ELSE toRelay
  BY <1>0 DEF Takes
<1>3. shares' \in [DOMAIN shares -> Share]
  <2>1. \A o \in DOMAIN shares : shares[o] \in Share
    BY ShareFields DEF TypeInv
  <2>2. force \in Nat /\ "unresolved" \in Verdicts /\ "refused" \in Verdicts
    BY DEF TypeInv, Verdicts
  <2>3. \A o \in DOMAIN shares : [shares[o] EXCEPT !.booked = "unresolved"] \in Share
    BY <2>1, <2>2 DEF Share
  <2>4. [shares[n] EXCEPT !.weight = force, !.answered = busy,
                          !.booked = IF busy THEN "refused" ELSE None] \in Share
    BY <1>1, <2>1, <2>2 DEF Share
  <2> QED
    BY <1>1, <1>2, <2>1, <2>3, <2>4
<1>4. shares' \in Seq(Share) /\ DOMAIN shares' = DOMAIN shares
  BY <1>3, BooksType
<1>5. toRelay' \in Seq(Msg)
  <2>1. shares[n].id \in AnyId
    BY <1>1, ShareFields DEF TypeInv
  <2>2. Append(toRelay, [kind |-> "answer", id |-> shares[n].id, ok |-> FALSE]) \in Seq(Msg)
    BY <2>1, AnswerMsg
  <2>3. [kind |-> "answer", id |-> shares[n].id, ok |-> FALSE]
          = [kind |-> "answer", ok |-> FALSE, id |-> shares[n].id]
    OBVIOUS
  <2> QED
    BY <1>2, <2>2, <2>3 DEF TypeInv
<1>6. toProxy' \in Seq(Nat) /\ \A i \in DOMAIN toProxy' : toProxy'[i] \in DOMAIN shares
  <2>1. toProxy # <<>> /\ toProxy \in Seq(Nat) /\ toProxy' = Tail(toProxy)
    BY DEF ProxyTakes, TypeInv
  <2>2. toProxy' \in Seq(Nat) /\ \A i \in DOMAIN toProxy' : i + 1 \in DOMAIN toProxy /\ toProxy'[i] = toProxy[i + 1]
    BY <2>1, TailType
  <2> QED
    BY <2>2 DEF TypeInv
<1> QED
  BY <1>4, <1>5, <1>6, FileStepType DEF ProxyTakes, TypeInv

LEMMA TypeProxyAnswers ==
  ASSUME TypeInv, FileStep, NEW n \in DOMAIN shares, NEW ok \in BOOLEAN, ProxyAnswers(n, ok)
  PROVE  TypeInv'
<1>1. shares[n] \in Share /\ shares[n].id \in AnyId /\ shares \in Seq(Share)
  BY ShareFields DEF TypeInv
<1>2. PICK b \in Verdicts \cup {None} :
        b = IF shares[n].booked = None THEN IF ok THEN "accepted" ELSE "rejected"
            ELSE shares[n].booked
  BY <1>1 DEF Share, Verdicts
<1>3. [shares[n] EXCEPT !.answered = TRUE, !.booked = b] \in Share
  BY <1>1 DEF Share
<1>4. shares' = [shares EXCEPT ![n] = [shares[n] EXCEPT !.answered = TRUE, !.booked = b]]
  BY <1>1, <1>2 DEF ProxyAnswers, Share
<1>5. \A o \in DOMAIN shares : shares[o] \in Share
  BY <1>1, ShareFields
<1>6. shares' \in [DOMAIN shares -> Share]
  BY <1>3, <1>4, <1>5
<1>7. shares' \in Seq(Share) /\ DOMAIN shares' = DOMAIN shares
  BY <1>6, BooksType
<1>8. toRelay' \in Seq(Msg)
  BY <1>1, AnswerMsg DEF ProxyAnswers
<1> QED
  BY <1>7, <1>8, FileStepType DEF ProxyAnswers, TypeInv

LEMMA TypeProxyPushes ==
  ASSUME TypeInv, FileStep, NEW kind \in {"job", "terms"}, ProxyPushes(kind)
  PROVE  TypeInv'
<1>1. pushes' \in Nat /\ force' \in Nat
  BY DEF ProxyPushes, TypeInv
<1>2. [kind |-> kind, push |-> pushes'] \in Msg
  BY <1>1 DEF Msg
<1>3. toRelay' \in Seq(Msg)
  BY <1>2, Appending DEF ProxyPushes, TypeInv
<1> QED
  BY <1>1, <1>3, FileStepType DEF ProxyPushes, TypeInv

LEMMA TypeStep ==
  ASSUME TypeInv, [Next]_vars
  PROVE  TypeInv' /\ FileStep
<1>0. FileStep
  BY NextFileStep
<1>1. CASE UNCHANGED vars
  BY <1>0, <1>1 DEF vars, TypeInv
<1>2. ASSUME NEW side, GoBlind(side)
      PROVE  TypeInv'
  BY <1>2 DEF GoBlind, proxy, TypeInv
<1> QED
  BY <1>0, <1>1, <1>2, TypeConnect, TypeSubmit, TypeReceive, TypeEnd, TypeProxyTakes,
     TypeProxyAnswers, TypeProxyPushes DEF Next

-----------------------------------------------------------------------------
(* The jobs beside the shares.                                             *)

\* A closed session holds nothing.
IdleInv == ~up => tap.pending = <<>>

LEMMA IdleStep ==
  ASSUME TypeInv, IdleInv, [Next]_vars
  PROVE  IdleInv'
<1>1. CASE UNCHANGED <<up, tap>>
  BY <1>1 DEF IdleInv
<1>2. CASE up'
  BY <1>2 DEF IdleInv
<1>3. CASE Finish \/ PowerLoss
  BY <1>3, NewTapType DEF IdleInv, Finish, PowerLoss
<1>4. CASE Connect
  BY <1>2, <1>4 DEF Connect
<1>5. ASSUME NEW id, NEW j, Submit(id, j)
      PROVE  IdleInv'
  <2>1. up' = up /\ up
    BY <1>5 DEF Submit
  <2> QED
    BY <1>2, <2>1
<1>6. CASE Receive
  <2>1. up' = up /\ up
    BY <1>6 DEF Receive
  <2> QED
    BY <1>2, <2>1
<1> QED
  BY <1>1, <1>3, <1>4, <1>5, <1>6
     DEF Next, vars, GoBlind, ProxyTakes, ProxyAnswers, ProxyPushes

\* The tap holds the newest jobs heard of.
Holds(q, h, most) ==
  /\ Len(q) = IF Len(h) < most THEN Len(h) ELSE most
  /\ \A i \in DOMAIN q : q[i] = h[Len(h) - Len(q) + i]

HeldInv == up => Holds(tap.jobs, heard, JobsHeld)

\* What the tap calls written is in the file.
WrittenInv == \A j \in Range(tap.written) : \E i \in DOMAIN file : file[i].rec = JobRecord(j)

JobInv == HeldInv /\ WrittenInv /\ IdleInv

\* Every line after a step is one of before, or one of the records appended.
Drawn(recs) ==
  \A i \in DOMAIN file' :
    \/ i \in DOMAIN file /\ file'[i].rec = file[i].rec
    \/ \E x \in DOMAIN recs : i = Len(file) + x /\ i \notin DOMAIN file /\ file'[i].rec = recs[x]

\* The file is longer by recs.
Longer(recs) ==
  /\ \A i \in DOMAIN file : i \in DOMAIN file' /\ file'[i].rec = file[i].rec
  /\ \A x \in DOMAIN recs : Len(file) + x \in DOMAIN file' \ DOMAIN file
                            /\ file'[Len(file) + x].rec = recs[x]
  /\ Drawn(recs)

Wholly == (\A i \in DOMAIN file : file[i].end # "torn")
          => \A i \in DOMAIN file' : file'[i].end # "torn"

LEMMA GrownFile ==
  ASSUME TypeInv, NEW recs \in Seq(Rec), NEW f, Grown(f, recs)
  PROVE  /\ DOMAIN file = 1..Len(file) /\ Len(file) \in Nat
         /\ DOMAIN recs = 1..Len(recs) /\ Len(recs) \in Nat
         /\ DOMAIN f = 1..(Len(file) + Len(recs)) /\ Len(f) = Len(file) + Len(recs)
         /\ \A i \in DOMAIN f : \/ i \in DOMAIN file /\ f[i] = file[i]
                                \/ \E x \in DOMAIN recs : /\ i = Len(file) + x /\ i \notin DOMAIN file
                                                          /\ f[i].rec = recs[x] /\ f[i].end = "newline"
<1>1. /\ DOMAIN file = 1..Len(file) /\ Len(file) \in Nat
      /\ DOMAIN recs = 1..Len(recs) /\ Len(recs) \in Nat
  BY LenProperties DEF TypeInv
<1>2. f \in Seq(FileLine) /\ Len(f) = Len(file) + Len(recs)
  BY DEF Grown
<1>3. DOMAIN f = 1..(Len(file) + Len(recs))
  BY <1>2, LenProperties
<1>4. ASSUME NEW i \in DOMAIN f
      PROVE  \/ i \in DOMAIN file /\ f[i] = file[i]
             \/ \E x \in DOMAIN recs : /\ i = Len(file) + x /\ i \notin DOMAIN file
                                       /\ f[i].rec = recs[x] /\ f[i].end = "newline"
  <2>1. CASE i <= Len(file)
    BY <1>1, <1>3, <2>1 DEF Grown
  <2>2. CASE ~(i <= Len(file))
    <3>1. PICK x : x = i - Len(file)
      OBVIOUS
    <3>2. x \in DOMAIN recs /\ i = Len(file) + x /\ i \notin DOMAIN file
      BY <1>1, <1>3, <2>2, <3>1
    <3>3. f[Len(file) + x].rec = recs[x] /\ f[Len(file) + x].end = "newline"
      BY <1>1, <3>2 DEF Grown
    <3> QED
      BY <3>2, <3>3
  <2> QED
    BY <2>1, <2>2
<1> QED
  BY <1>1, <1>2, <1>3, <1>4

LEMMA AppendedLonger ==
  ASSUME TypeInv, NEW recs \in Seq(Rec), Appended(recs)
  PROVE  Longer(recs) /\ Wholly
<1>1. Grown(file', recs)
  BY AppendedGrown
<1>2. /\ DOMAIN file = 1..Len(file) /\ Len(file) \in Nat
      /\ DOMAIN recs = 1..Len(recs) /\ Len(recs) \in Nat
      /\ DOMAIN file' = 1..(Len(file) + Len(recs))
      /\ \A i \in DOMAIN file' : \/ i \in DOMAIN file /\ file'[i] = file[i]
                                 \/ \E x \in DOMAIN recs :
                                      /\ i = Len(file) + x /\ i \notin DOMAIN file
                                      /\ file'[i].rec = recs[x] /\ file'[i].end = "newline"
  BY <1>1, GrownFile
<1>3. Drawn(recs)
  BY <1>2 DEF Drawn
<1>4. \A i \in DOMAIN file : i \in DOMAIN file' /\ file'[i].rec = file[i].rec
  BY <1>1, <1>2 DEF Grown
<1>5. ASSUME NEW x \in DOMAIN recs
      PROVE  Len(file) + x \in DOMAIN file' \ DOMAIN file /\ file'[Len(file) + x].rec = recs[x]
  <2>1. Len(file) + x \in DOMAIN file' \ DOMAIN file
    BY <1>2
  <2>2. file'[Len(file) + x].rec = recs[x]
    BY <1>1, <1>2 DEF Grown
  <2> QED
    BY <2>1, <2>2
<1>6. Wholly
  BY <1>2 DEF Wholly
<1> QED
  BY <1>3, <1>4, <1>5, <1>6 DEF Longer

LEMMA RemainsDrawn ==
  ASSUME TypeInv, NEW recs \in Seq(Rec), NEW f, Grown(f, recs), Remains(file', f)
  PROVE  Drawn(recs)
<1>1. /\ DOMAIN file = 1..Len(file) /\ Len(file) \in Nat /\ Len(recs) \in Nat
      /\ DOMAIN f = 1..(Len(file) + Len(recs)) /\ Len(f) = Len(file) + Len(recs)
      /\ \A i \in DOMAIN f : \/ i \in DOMAIN file /\ f[i] = file[i]
                             \/ \E x \in DOMAIN recs : /\ i = Len(file) + x /\ i \notin DOMAIN file
                                                       /\ f[i].rec = recs[x]
  BY GrownFile
<1>2. /\ DOMAIN file' = 1..Len(file') /\ Len(file') \in Nat /\ Len(file') <= Len(f)
      /\ \A i \in 1..Len(file') : file'[i].rec = f[i].rec
  BY LenProperties DEF Remains
<1>3. \A i \in DOMAIN file' : i \in DOMAIN f /\ file'[i].rec = f[i].rec
  BY <1>1, <1>2
<1> QED
  BY <1>1, <1>3 DEF Drawn

LEMMA SofarWritten ==
  ASSUME TypeInv, WrittenInv, NEW recs \in Seq(Rec), NEW u, NEW S, NEW o,
         Sofar(recs, tap, u, S, o), Appended(recs), tap'.written = u.written
  PROVE  WrittenInv'
<1>1. SUFFICES ASSUME NEW j \in Range(u.written)
               PROVE  \E i \in DOMAIN file' : file'[i].rec = JobRecord(j)
  BY DEF WrittenInv, JobRecord
<1>0. Longer(recs)
  BY AppendedLonger
<1>2. CASE j \in Range(tap.written)
  <2>1. PICK i \in DOMAIN file : file[i].rec = JobRecord(j)
    BY <1>2 DEF WrittenInv
  <2> QED
    BY <1>0, <2>1 DEF Longer
<1>3. ASSUME NEW k \in DOMAIN recs, recs[k] = JobRecord(j)
      PROVE  \E i \in DOMAIN file' : file'[i].rec = JobRecord(j)
  BY <1>0, <1>3 DEF Longer
<1> QED
  BY <1>2, <1>3 DEF Sofar, Covered

LEMMA WrittenStays ==
  ASSUME WrittenInv,
         (tap'.written = tap.written /\ file' = file) \/ tap'.written = <<>>
  PROVE  WrittenInv'
<1>1. CASE tap'.written = <<>>
  <2>1. Range(<<>>) = {}
    BY DEF Range
  <2> QED
    BY <1>1, <2>1 DEF WrittenInv
<1>2. CASE tap'.written = tap.written /\ file' = file
  BY <1>2 DEF WrittenInv, JobRecord
<1> QED
  BY <1>1, <1>2

LEMMA WrittenStep ==
  ASSUME TypeInv, WrittenInv, [Next]_vars
  PROVE  WrittenInv'
<1>0. tap \in TapRec /\ shares \in Seq(Share)
  BY DEF TypeInv
<1>1. CASE Receive
  <2>1. PICK m \in Msg : m = Head(toRelay)
    BY <1>1, TailType DEF Receive, TypeInv
  <2>2. CASE m.kind = "answer" /\ tap' = Settled(m) /\ Appended(AnswerRecords(m))
    <3>1. CASE Settled(m) = tap /\ AnswerRecords(m) = <<>>
      <4>1. file' = file
        BY <2>2, <3>1, NothingAppended
      <4> QED
        BY <2>2, <3>1, <4>1, WrittenStays
    <3>2. ASSUME NEW n, Settles(m, n)
          PROVE  WrittenInv'
      <4>1. PICK o \in Outcomes : o = Outcome(m)
        BY <2>2, MsgFields
      <4>2. /\ n \in DOMAIN shares /\ AnswerRecords(m) = Records(tap, n, o)
            /\ Settled(m).written = Resolved(tap, n, o).written
        BY <3>2, <4>1 DEF Settles
      <4>3. Sofar(Records(tap, n, o), tap, Resolved(tap, n, o), {n}, o)
        BY <1>0, <4>2, AnswerSofar
      <4>4. Records(tap, n, o) \in Seq(Rec)
        BY <4>3 DEF Sofar
      <4> QED
        BY <1>0, <2>2, <4>2, <4>3, <4>4, SofarWritten
    <3> QED
      BY <2>2, <3>1, <3>2, AnswerSettles
  <2>3. CASE tap' = tap /\ file' = file
    BY <1>0, <2>3, WrittenStays
  <2>4. CASE file' = file /\ tap' = [tap EXCEPT !.jobs = Newest(Append(@, m.push), JobsHeld)]
    <3>1. tap'.written = tap.written
      BY <1>0, <2>4 DEF TapRec
    <3> QED
      BY <2>4, <3>1, WrittenStays
  <2>5. CASE file' = file /\ tap' = [tap EXCEPT !.terms = m.push]
    <3>1. tap'.written = tap.written
      BY <1>0, <2>5 DEF TapRec
    <3> QED
      BY <2>5, <3>1, WrittenStays
  <2> QED
    BY <1>1, <2>1, <2>2, <2>3, <2>4, <2>5 DEF Receive
<1>2. CASE Connect \/ Finish \/ PowerLoss
  <2>1. tap'.written = <<>>
    BY <1>2 DEF Connect, Finish, PowerLoss, NewTap
  <2> QED
    BY <2>1, WrittenStays
<1>3. ASSUME NEW id \in Ids, NEW j \in Range(heard), Submit(id, j)
      PROVE  WrittenInv'
  <2>1. tap' = tap \/ tap' = [tap EXCEPT !.pending = Held(Len(shares) + 1, id)]
    BY <1>3 DEF Submit
  <2>2. tap'.written = tap.written /\ file' = file
    BY <1>0, <1>3, <2>1 DEF TapRec, Submit
  <2> QED
    BY <2>2, WrittenStays
<1>4. CASE UNCHANGED <<tap, file>>
  BY <1>4, WrittenStays
<1> QED
  BY <1>1, <1>2, <1>3, <1>4 DEF Next, vars, GoBlind, ProxyTakes, ProxyAnswers, ProxyPushes

LEMMA NewestJobs ==
  ASSUME NEW h \in Seq(Nat), NEW q \in Seq(Nat), NEW e \in Nat, NEW most \in Nat \ {0},
         Holds(q, h, most), NEW h2, h2 = Append(h, e), NEW q2, q2 = Newest(Append(q, e), most)
  PROVE  Holds(q2, h2, most)
<1>1. PICK N \in Nat : /\ Len(h) = N /\ Len(h2) = N + 1 /\ h2[N + 1] = e
                       /\ \A i \in 1..N : h2[i] = h[i]
  <2>1. /\ Len(h) \in Nat /\ Len(Append(h, e)) = Len(h) + 1
        /\ \A i \in 1..Len(h) : Append(h, e)[i] = h[i]
        /\ Append(h, e)[Len(h) + 1] = e
    BY ONLY Appending, h \in Seq(Nat), e \in Nat
  <2> QED
    BY ONLY <2>1, h2 = Append(h, e)
<1>2. PICK a \in Seq(Nat) : a = Append(q, e)
  BY ONLY Appending, q \in Seq(Nat), e \in Nat
<1>3. PICK L \in Nat : /\ Len(q) = L /\ DOMAIN q = 1..L /\ Len(a) = L + 1
                       /\ DOMAIN a = 1..(L + 1)
                       /\ a[L + 1] = e /\ \A i \in 1..L : a[i] = q[i]
  <2>1. /\ Len(q) \in Nat /\ DOMAIN q = 1..Len(q) /\ Len(Append(q, e)) = Len(q) + 1
        /\ DOMAIN Append(q, e) = 1..(Len(q) + 1)
        /\ \A i \in 1..Len(q) : Append(q, e)[i] = q[i]
        /\ Append(q, e)[Len(q) + 1] = e
    BY ONLY Appending, q \in Seq(Nat), e \in Nat
  <2> QED
    BY ONLY <1>2, <2>1
<1>4. L = (IF N < most THEN N ELSE most) /\ \A i \in 1..L : q[i] = h[N - L + i]
  BY <1>1, <1>3 DEF Holds
<1>5. ASSUME NEW i \in 1..(L + 1)
      PROVE  a[i] = h2[N - L + i]
  <2>1. CASE i = L + 1
    <3>1. N - L + i = N + 1
      BY ONLY <2>1, N \in Nat, L \in Nat
    <3> QED
      BY <1>1, <1>3, <2>1, <3>1
  <2>2. CASE i # L + 1
    <3>1. i \in 1..L /\ N - L + i \in 1..N
      BY ONLY <1>4, <2>2, N \in Nat, L \in Nat, most \in Nat, i \in 1..(L + 1)
    <3> QED
      BY <1>1, <1>3, <1>4, <3>1
  <2> QED
    BY <2>1, <2>2
<1>6. CASE L + 1 > most
  <2>1. q2 = Tail(a)
    BY <1>2, <1>3, <1>6 DEF Newest
  <2>2. a # <<>>
    BY <1>3, EmptySeq
  <2>3. /\ q2 \in Seq(Nat) /\ Len(q2) = Len(a) - 1
        /\ \A i \in 1..Len(q2) : q2[i] = a[i + 1]
    BY <2>1, <2>2, HeadTailProperties
  <2>4. Len(q2) = L /\ L = most /\ N >= most
    BY <1>3, <1>4, <1>6, <2>3
  <2>5. DOMAIN q2 = 1..L
    BY <2>3, <2>4, LenProperties
  <2>6. ASSUME NEW i \in 1..L
        PROVE  q2[i] = h2[Len(h2) - Len(q2) + i]
    <3>1. i + 1 \in 1..(L + 1) /\ N - L + (i + 1) = N + 1 - L + i
      BY ONLY N \in Nat, L \in Nat, i \in 1..L
    <3>2. a[i + 1] = h2[N + 1 - L + i]
      BY <1>5, <3>1
    <3>3. Len(h2) - Len(q2) + i = N + 1 - L + i
      BY <1>1, <2>4
    <3> QED
      BY <2>3, <2>4, <3>2, <3>3
  <2>7. Len(q2) = (IF Len(h2) < most THEN Len(h2) ELSE most)
    BY <1>1, <2>4
  <2> QED
    BY <2>5, <2>6, <2>7 DEF Holds
<1>7. CASE ~(L + 1 > most)
  <2>1. q2 = a
    BY <1>2, <1>3, <1>7 DEF Newest
  <2>2. L = N
    BY <1>4, <1>7
  <2>3. Len(q2) = (IF Len(h2) < most THEN Len(h2) ELSE most)
    BY <1>1, <1>3, <1>7, <2>1, <2>2
  <2>4. ASSUME NEW i \in 1..(L + 1)
        PROVE  q2[i] = h2[Len(h2) - Len(q2) + i]
    <3>0. Len(h2) = N + 1 /\ Len(q2) = L + 1
      BY <1>1, <1>3, <2>1
    <3>1. Len(h2) - Len(q2) + i = N - L + i
      BY ONLY <3>0, N \in Nat, L \in Nat, i \in 1..(L + 1)
    <3> QED
      BY <1>5, <2>1, <3>1
  <2>5. DOMAIN q2 = 1..(L + 1)
    BY <1>3, <2>1
  <2> QED
    BY <2>3, <2>4, <2>5 DEF Holds
<1> QED
  BY <1>6, <1>7

LEMMA HeldStep ==
  ASSUME TypeInv, HeldInv, [Next]_vars
  PROVE  HeldInv'
<1>0. tap \in TapRec /\ tap.jobs \in Seq(Nat) /\ heard \in Seq(Nat) /\ shares \in Seq(Share)
  BY DEF TypeInv, TapRec
<1>1. CASE tap'.jobs = tap.jobs /\ UNCHANGED <<up, heard>>
  BY <1>1 DEF HeldInv, Holds
<1>2. CASE Receive
  <2>1. PICK m \in Msg : m = Head(toRelay)
    BY <1>2, TailType DEF Receive, TypeInv
  <2>2. up /\ up' = up
    BY <1>2 DEF Receive
  <2>3. CASE m.kind = "answer" /\ tap' = Settled(m) /\ UNCHANGED heard
    <3>1. tap'.jobs = tap.jobs
      BY <2>3, AnswerSettles DEF Settles
    <3> QED
      BY <1>1, <2>2, <2>3, <3>1
  <2>4. CASE UNCHANGED <<tap, heard>>
    BY <1>1, <2>2, <2>4
  <2>5. CASE /\ m.kind = "job" /\ heard' = Append(heard, m.push)
             /\ tap' = [tap EXCEPT !.jobs = Newest(Append(@, m.push), JobsHeld)]
    <3>1. PICK e \in Nat : e = m.push
      BY <2>5, MsgFields
    <3>2. PICK q2 : q2 = tap'.jobs /\ q2 = Newest(Append(tap.jobs, e), JobsHeld)
      BY <1>0, <2>5, <3>1 DEF TapRec
    <3>3. PICK h2 : h2 = heard' /\ h2 = Append(heard, e)
      BY <2>5, <3>1
    <3>4. JobsHeld \in Nat \ {0}
      BY RelayAssumption
    <3>5. Holds(tap.jobs, heard, JobsHeld)
      BY <2>2 DEF HeldInv
    <3>6. Holds(q2, h2, JobsHeld)
      BY <1>0, <3>2, <3>3, <3>4, <3>5, NewestJobs
    <3> QED
      BY <3>2, <3>3, <3>6 DEF HeldInv
  <2>6. CASE tap' = [tap EXCEPT !.terms = m.push] /\ UNCHANGED heard
    <3>1. tap'.jobs = tap.jobs
      BY <1>0, <2>6 DEF TapRec
    <3> QED
      BY <1>1, <2>2, <2>6, <3>1
  <2> QED
    BY <1>2, <2>1, <2>3, <2>4, <2>5, <2>6 DEF Receive
<1>3. CASE Connect
  <2>1. tap'.jobs = <<>> /\ heard' = <<>>
    BY <1>3 DEF Connect, NewTap
  <2>2. Len(<<>>) = 0 /\ DOMAIN <<>> = {} /\ JobsHeld \in Nat
    BY RelayAssumption
  <2>3. JobsHeld \in Nat \ {0}
    BY RelayAssumption
  <2> QED
    BY <2>1, <2>2, <2>3 DEF HeldInv, Holds
<1>4. CASE Finish \/ PowerLoss
  BY <1>4 DEF Finish, PowerLoss, HeldInv
<1>5. ASSUME NEW id \in Ids, NEW j \in Range(heard), Submit(id, j)
      PROVE  HeldInv'
  <2>1. tap' = tap \/ tap' = [tap EXCEPT !.pending = Held(Len(shares) + 1, id)]
    BY <1>5 DEF Submit
  <2>2. tap'.jobs = tap.jobs
    BY <1>0, <2>1 DEF TapRec
  <2> QED
    BY <1>1, <1>5, <2>2 DEF Submit
<1> QED
  BY <1>1, <1>2, <1>3, <1>4, <1>5 DEF Next, vars, GoBlind, ProxyTakes, ProxyAnswers, ProxyPushes

LEMMA RecentlyHeld ==
  ASSUME TypeInv, HeldInv, up
  PROVE  Recently \subseteq Range(tap.jobs)
<1>1. /\ Len(heard) \in Nat /\ DOMAIN heard = 1..Len(heard) /\ JobsHeld \in Nat \ {0}
      /\ Len(tap.jobs) \in Nat /\ DOMAIN tap.jobs = 1..Len(tap.jobs)
  BY LenProperties, RelayAssumption DEF TypeInv, TapRec
<1>2. SUFFICES ASSUME NEW k \in DOMAIN heard, k > Len(heard) - JobsHeld
               PROVE  heard[k] \in Range(tap.jobs)
  BY DEF Recently
<1>3. PICK i \in Int : i = k - (Len(heard) - Len(tap.jobs))
  BY <1>1
<1>4. i \in 1..Len(tap.jobs) /\ Len(heard) - Len(tap.jobs) + i = k
  BY <1>1, <1>2, <1>3 DEF HeldInv, Holds
<1>5. tap.jobs[i] = heard[k]
  BY <1>1, <1>4 DEF HeldInv, Holds
<1> QED
  BY <1>1, <1>4, <1>5 DEF Range

\* A line of a share stands behind the line of its job, if they were appended so.
LEMMA BesideGrown ==
  ASSUME TypeInv, JobInv, NEW recs \in Seq(Rec), Kept(recs), NEW f, Grown(f, recs),
         NEW i \in DOMAIN f \ DOMAIN file,
         f[i].rec.kind = "share", shares[f[i].rec.share].job \in Recently
  PROVE  \E k \in 1..(i - 1) : f[k].rec = JobRecord(shares[f[i].rec.share].job)
<1>1. /\ DOMAIN file = 1..Len(file) /\ Len(file) \in Nat
      /\ DOMAIN recs = 1..Len(recs) /\ Len(recs) \in Nat
      /\ DOMAIN f = 1..(Len(file) + Len(recs))
  BY GrownFile
<1>2. PICK x \in DOMAIN recs : i = Len(file) + x /\ f[i].rec = recs[x]
  BY GrownFile
<1>3. PICK j : j = shares[recs[x].share].job
  OBVIOUS
<1>4. PICK S \in SUBSET (Range(tap.pending) \cap DOMAIN shares), o \in Outcomes :
        Plain(recs, S, o) /\ Beside(recs, tap)
  BY DEF Kept
<1>5. up
  <2>1. recs[x].share \in Range(tap.pending)
    BY <1>2, <1>4 DEF Plain
  <2>2. tap.pending # <<>>
    BY <2>1 DEF Range
  <2> QED
    BY <2>2 DEF JobInv, IdleInv
<1>6. j \in Range(tap.jobs) /\ recs[x].kind = "share"
  BY <1>2, <1>3, <1>5, RecentlyHeld DEF JobInv
<1>7. CASE j \in Range(tap.written)
  <2>1. PICK k \in DOMAIN file : file[k].rec = JobRecord(j)
    BY <1>7 DEF JobInv, WrittenInv
  <2>2. k \in 1..(i - 1) /\ f[k] = file[k]
    BY <1>1, <1>2 DEF Grown
  <2> QED
    BY <1>2, <1>3, <2>1, <2>2
<1>8. ASSUME NEW y \in 1..(x - 1), recs[y] = JobRecord(j)
      PROVE  \E k \in 1..(i - 1) : f[k].rec = JobRecord(j)
  <2>1. y \in DOMAIN recs /\ Len(file) + y \in 1..(i - 1)
    BY <1>1, <1>2
  <2>2. f[Len(file) + y].rec = recs[y]
    BY <1>1, <2>1 DEF Grown
  <2> QED
    BY <1>8, <2>1, <2>2
<1>9. j \in Range(tap.written) \/ \E y \in 1..(x - 1) : recs[y] = JobRecord(j)
  BY <1>3, <1>4, <1>6 DEF Beside
<1> QED
  BY <1>2, <1>3, <1>7, <1>8, <1>9

LEMMA BesideStep ==
  ASSUME TypeInv, JobInv, FileStep, NEW i \in DOMAIN file' \ DOMAIN file,
         file'[i].rec.kind = "share", shares[file'[i].rec.share].job \in Recently
  PROVE  \E k \in 1..(i - 1) : file'[k].rec = JobRecord(shares[file'[i].rec.share].job)
<1>1. ASSUME NEW recs \in Seq(Rec), Kept(recs), Grown(file', recs)
      PROVE  \E k \in 1..(i - 1) : file'[k].rec = JobRecord(shares[file'[i].rec.share].job)
  BY <1>1, BesideGrown
<1>2. ASSUME NEW recs \in Seq(Rec), NEW f, Kept(recs), Grown(f, recs), Remains(file', f)
      PROVE  \E k \in 1..(i - 1) : file'[k].rec = JobRecord(shares[file'[i].rec.share].job)
  <2>1. PICK N : N = Len(file) + Len(recs) /\ N \in Nat /\ DOMAIN f = 1..N
    BY <1>2, GrownFile
  <2>2. DOMAIN file' = 1..Len(file') /\ Len(file') \in Nat /\ Len(file') <= N
    BY <1>2, <2>1, GrownFile, LenProperties DEF Remains
  <2>7. \A k \in 1..Len(file') : file'[k].rec = f[k].rec
    BY <1>2 DEF Remains
  <2>3. i \in DOMAIN f \ DOMAIN file /\ file'[i].rec = f[i].rec
    BY <2>1, <2>2, <2>7
  <2>4. PICK k \in 1..(i - 1) : f[k].rec = JobRecord(shares[f[i].rec.share].job)
    BY <1>2, <2>3, BesideGrown
  <2>5. k \in 1..Len(file')
    BY <2>2
  <2>6. file'[k].rec = f[k].rec
    BY <2>5, <2>7
  <2> QED
    BY <2>3, <2>4, <2>6
<1> QED
  BY <1>1, <1>2 DEF FileStep

-----------------------------------------------------------------------------
(* Each submit is written once.                                            *)

\* The outcome a record may give a submit that the proxy booked as that.
Fits(outcome, booked) ==
  /\ outcome = "accepted" => booked \in {"accepted", "unresolved"}
  /\ outcome = "rejected" => booked \notin {"accepted", None}

RecordedOnce ==
  \A i \in DOMAIN file : file[i].rec.kind = "share" =>
    /\ file[i].rec.share \in DOMAIN shares
    /\ file[i].rec.share \notin Range(tap.pending)
    /\ Fits(file[i].rec.outcome, shares[file[i].rec.share].booked)
    /\ \A k \in DOMAIN file : IsShare(file[k].rec, file[i].rec.share) => k = i

\* Without a loss of power nothing is torn, and what the relay read and no longer
\* holds is in the file.
RecordedAll ==
  losses = 0 =>
    /\ \A i \in DOMAIN file : file[i].end # "torn"
    /\ \A n \in DOMAIN shares : shares[n].read /\ n \notin Range(tap.pending)
         => \E i \in DOMAIN file : IsShare(file[i].rec, n)

\* The records of S that fit the books.
Fitting(recs, S, o) ==
  /\ recs \in Seq(Rec) /\ Plain(recs, S, o) /\ o \in Outcomes
  /\ S \subseteq Range(tap.pending) /\ S \subseteq DOMAIN shares
  /\ \A n \in S : Fits(o, shares[n].booked)

LEMMA OnceGrown ==
  ASSUME TypeInv, RecordedOnce, NEW recs, NEW S, NEW o, Drawn(recs), Fitting(recs, S, o),
         shares' = shares, \A n \in Range(tap'.pending) : n \in Range(tap.pending) /\ n \notin S
  PROVE  RecordedOnce'
<1>1. SUFFICES ASSUME NEW i \in DOMAIN file', file'[i].rec.kind = "share"
               PROVE  /\ file'[i].rec.share \in DOMAIN shares
                      /\ file'[i].rec.share \notin Range(tap'.pending)
                      /\ Fits(file'[i].rec.outcome, shares[file'[i].rec.share].booked)
                      /\ \A k \in DOMAIN file' : IsShare(file'[k].rec, file'[i].rec.share) => k = i
  BY DEF RecordedOnce, IsShare
<1>2. CASE i \in DOMAIN file /\ file'[i].rec = file[i].rec
  <2>1. file'[i].rec = file[i].rec
    BY <1>2
  <2>2. PICK n : n = file[i].rec.share
    OBVIOUS
  <2>3. /\ n \in DOMAIN shares /\ n \notin Range(tap.pending)
        /\ Fits(file[i].rec.outcome, shares[n].booked)
        /\ \A k \in DOMAIN file : IsShare(file[k].rec, n) => k = i
    BY <1>1, <1>2, <2>1, <2>2 DEF RecordedOnce
  <2>4. ASSUME NEW k \in DOMAIN file', IsShare(file'[k].rec, n)
        PROVE  k = i
    <3>1. CASE k \in DOMAIN file /\ file'[k].rec = file[k].rec
      BY <2>3, <2>4, <3>1
    <3>2. ASSUME NEW x \in DOMAIN recs, file'[k].rec = recs[x]
          PROVE  FALSE
      <4>1. IsShare(recs[x], n)
        BY <2>4, <3>2
      <4>2. n \in S
        BY <4>1 DEF Fitting, Plain, IsShare
      <4> QED
        BY <2>3, <4>2 DEF Fitting
    <3> QED
      BY <3>1, <3>2 DEF Drawn
  <2> QED
    BY <2>1, <2>2, <2>3, <2>4
<1>3. ASSUME NEW x \in DOMAIN recs, i = Len(file) + x, file'[i].rec = recs[x]
      PROVE  /\ file'[i].rec.share \in DOMAIN shares
             /\ file'[i].rec.share \notin Range(tap'.pending)
             /\ Fits(file'[i].rec.outcome, shares[file'[i].rec.share].booked)
             /\ \A k \in DOMAIN file' : IsShare(file'[k].rec, file'[i].rec.share) => k = i
  <2>1. file'[i].rec = recs[x]
    BY <1>3 DEF Longer
  <2>2. PICK n : n = recs[x].share
    OBVIOUS
  <2>3. /\ n \in S /\ recs[x].outcome = o
        /\ \A k \in DOMAIN recs : IsShare(recs[k], n) => k = x
    BY <1>1, <2>1, <2>2 DEF Fitting, Plain
  <2>4. n \in DOMAIN shares /\ n \in Range(tap.pending) /\ Fits(o, shares[n].booked)
    BY <2>3 DEF Fitting
  <2>5. ASSUME NEW k \in DOMAIN file', IsShare(file'[k].rec, n)
        PROVE  k = i
    <3>1. CASE k \in DOMAIN file /\ file'[k].rec = file[k].rec
      <4>1. file[k].rec.kind = "share" /\ file[k].rec.share = n
        BY <2>5, <3>1 DEF IsShare
      <4> QED
        BY <2>4, <3>1, <4>1 DEF RecordedOnce
    <3>2. ASSUME NEW y \in DOMAIN recs, k = Len(file) + y, file'[k].rec = recs[y]
          PROVE  k = i
      <4>1. IsShare(recs[y], n)
        BY <2>5, <3>2
      <4> QED
        BY <1>3, <2>3, <3>2, <4>1
    <3> QED
      BY <3>1, <3>2 DEF Drawn
  <2> QED
    BY <2>1, <2>2, <2>3, <2>4, <2>5
<1> QED
  BY <1>2, <1>3 DEF Drawn

LEMMA AllGrown ==
  ASSUME TypeInv, RecordedAll, NEW recs, NEW S, Longer(recs), Wholly, Complete(recs, S),
         shares' = shares, losses' = losses,
         \A n \in Range(tap.pending) : n \in Range(tap'.pending) \/ n \in S
  PROVE  RecordedAll'
<1>1. SUFFICES ASSUME losses = 0
               PROVE  /\ \A i \in DOMAIN file' : file'[i].end # "torn"
                      /\ \A n \in DOMAIN shares : shares[n].read /\ n \notin Range(tap'.pending)
                           => \E i \in DOMAIN file' : IsShare(file'[i].rec, n)
  BY DEF RecordedAll, IsShare
<1>2. /\ \A i \in DOMAIN file : file[i].end # "torn"
      /\ \A n \in DOMAIN shares : shares[n].read /\ n \notin Range(tap.pending)
           => \E i \in DOMAIN file : IsShare(file[i].rec, n)
  BY <1>1 DEF RecordedAll
<1>3. \A i \in DOMAIN file' : file'[i].end # "torn"
  BY <1>2 DEF Wholly
<1>4. ASSUME NEW n \in DOMAIN shares, shares[n].read, n \notin Range(tap'.pending)
      PROVE  \E i \in DOMAIN file' : IsShare(file'[i].rec, n)
  <2>1. CASE n \in S
    <3>1. PICK x \in DOMAIN recs : IsShare(recs[x], n)
      BY <2>1 DEF Complete
    <3>2. Len(file) + x \in DOMAIN file' /\ file'[Len(file) + x].rec = recs[x]
      BY DEF Longer
    <3> QED
      BY <3>1, <3>2
  <2>2. CASE n \notin S
    <3>1. PICK i \in DOMAIN file : IsShare(file[i].rec, n)
      BY <1>2, <1>4, <2>2
    <3> QED
      BY <3>1 DEF Longer
  <2> QED
    BY <2>1, <2>2
<1> QED
  BY <1>3, <1>4

LEMMA FitsLater ==
  ASSUME NEW o \in Outcomes, Fits(o, None)
  PROVE  o = "unanswered" /\ \A b : Fits(o, b)
<1>1. "accepted" # None /\ "unresolved" # None
  BY RelayAssumption DEF Verdicts
<1>2. o = "unanswered"
  BY <1>1 DEF Fits, Outcomes
<1> QED
  BY <1>2 DEF Fits

\* A step of the proxy: an open submit may be booked.
BooksMove ==
  /\ DOMAIN shares' = DOMAIN shares
  /\ \A n \in DOMAIN shares :
       /\ shares'[n].id = shares[n].id /\ shares'[n].read = shares[n].read
       /\ shares'[n].booked = shares[n].booked \/ shares[n].booked = None

LEMMA FitsMoved ==
  ASSUME BooksMove, NEW n \in DOMAIN shares, NEW o \in Outcomes, Fits(o, shares[n].booked)
  PROVE  Fits(o, shares'[n].booked)
<1>1. CASE shares'[n].booked = shares[n].booked
  BY <1>1
<1>2. CASE shares[n].booked = None
  BY <1>2, FitsLater
<1> QED
  BY <1>1, <1>2 DEF BooksMove

LEMMA RecordedMoved ==
  ASSUME TypeInv, RecordedOnce, RecordedAll, BooksMove, UNCHANGED <<file, losses, tap>>
  PROVE  RecordedOnce' /\ RecordedAll'
<1>1. \A i \in DOMAIN file : file[i].rec \in Rec
  BY LenProperties, ElementOfSeq, LineFields DEF TypeInv
<1>2. ASSUME NEW i \in DOMAIN file, file[i].rec.kind = "share"
      PROVE  /\ file[i].rec.share \in DOMAIN shares
             /\ file[i].rec.share \notin Range(tap.pending)
             /\ Fits(file[i].rec.outcome, shares'[file[i].rec.share].booked)
             /\ \A k \in DOMAIN file : IsShare(file[k].rec, file[i].rec.share) => k = i
  <2>1. PICK o \in Outcomes : o = file[i].rec.outcome
    BY <1>1, <1>2, RecFields
  <2>2. PICK n \in DOMAIN shares : n = file[i].rec.share /\ Fits(o, shares[n].booked)
    BY <1>2, <2>1 DEF RecordedOnce
  <2>3. Fits(o, shares'[n].booked)
    BY <2>2, FitsMoved
  <2> QED
    BY <1>2, <2>1, <2>2, <2>3 DEF RecordedOnce
<1>3. RecordedOnce'
  BY <1>2 DEF RecordedOnce, IsShare, BooksMove
<1>4. RecordedAll'
  BY DEF RecordedAll, IsShare, BooksMove
<1> QED
  BY <1>3, <1>4

\* With ids of their own, an answer on its way is about the submit it names, and
\* the books have its verdict; a submit on its way is in no book.
IdsInv == \A n \in DOMAIN shares : shares[n].id = n

BooksInv ==
  \A n \in DOMAIN shares :
    /\ shares[n].weight = None => shares[n].booked = None
    /\ ~shares[n].answered => shares[n].booked \in {"unresolved", None}

WayInv ==
  /\ \A i \in DOMAIN toProxy : shares[toProxy[i]].weight = None
  /\ \A i, k \in DOMAIN toProxy : toProxy[i] = toProxy[k] => i = k

Verdict(m, s) == m.kind = "answer" => m.id \in DOMAIN s /\ Fits(Outcome(m), s[m.id].booked)

VerdictInv == \A i \in DOMAIN toRelay : Verdict(toRelay[i], shares)

AnswerInv == IdsInv /\ BooksInv /\ WayInv /\ VerdictInv

LEMMA VerdictsKept ==
  ASSUME TypeInv, VerdictInv, BooksMove, NEW i \in DOMAIN toRelay
  PROVE  Verdict(toRelay[i], shares')
<1>1. PICK m \in Msg : m = toRelay[i]
  BY LenProperties, ElementOfSeq DEF TypeInv
<1>2. SUFFICES ASSUME m.kind = "answer"
               PROVE  m.id \in DOMAIN shares' /\ Fits(Outcome(m), shares'[m.id].booked)
  BY <1>1 DEF Verdict
<1>3. PICK n \in DOMAIN shares : n = m.id /\ Fits(Outcome(m), shares[n].booked)
  BY <1>1, <1>2 DEF VerdictInv, Verdict
<1>4. Fits(Outcome(m), shares'[n].booked)
  BY <1>2, <1>3, MsgFields, FitsMoved
<1> QED
  BY <1>3, <1>4 DEF BooksMove

\* One message more.
LEMMA VerdictsAdded ==
  ASSUME TypeInv, VerdictInv, BooksMove, NEW m \in Msg, Verdict(m, shares'),
         toRelay' = Append(toRelay, m)
  PROVE  VerdictInv'
<1>1. /\ Len(toRelay) \in Nat /\ DOMAIN toRelay = 1..Len(toRelay)
      /\ DOMAIN toRelay' = 1..(Len(toRelay) + 1)
      /\ \A i \in 1..Len(toRelay) : toRelay'[i] = toRelay[i]
      /\ toRelay'[Len(toRelay) + 1] = m
  BY Appending DEF TypeInv
<1>2. ASSUME NEW i \in DOMAIN toRelay'
      PROVE  Verdict(toRelay'[i], shares')
  <2>1. i \in DOMAIN toRelay \/ i = Len(toRelay) + 1
    BY <1>1
  <2> QED
    BY <1>1, <2>1, VerdictsKept
<1> QED
  BY <1>2 DEF VerdictInv, Verdict, Fits, Outcome

LEMMA TakesMove ==
  ASSUME TypeInv, BooksInv, WayInv, NEW n, NEW late, NEW busy \in BOOLEAN, Takes(n, late, busy)
  PROVE  /\ BooksMove /\ BooksInv'
         /\ shares'[n].booked = IF busy THEN "refused" ELSE None
         /\ \A o \in DOMAIN shares \ {n} : shares'[o].weight = shares[o].weight
<1>1. n \in DOMAIN shares /\ shares[n].weight = None /\ shares[n].booked = None
  <2>1. toProxy \in Seq(Nat) /\ toProxy # <<>> /\ n \in DOMAIN shares /\ n = toProxy[1]
    BY DEF Takes, TypeInv
  <2>2. 1 \in DOMAIN toProxy
    BY <2>1, TailType
  <2>3. shares[n].weight = None
    BY <2>1, <2>2 DEF WayInv
  <2> QED
    BY <2>1, <2>3 DEF BooksInv
<1>2. \A o \in DOMAIN shares : shares[o] \in Share
  BY ShareFields DEF TypeInv
<1>3. PICK new : new = [shares[n] EXCEPT !.weight = force, !.answered = busy,
                                         !.booked = IF busy THEN "refused" ELSE None]
  OBVIOUS
<1>4. /\ new.id = shares[n].id /\ new.read = shares[n].read /\ new.weight = force
      /\ new.answered = busy /\ new.booked = IF busy THEN "refused" ELSE None
  BY <1>1, <1>2, <1>3 DEF Share
<1>5. DOMAIN shares' = DOMAIN shares /\ shares'[n] = new
  BY <1>1, <1>3 DEF Takes
<1>6. ASSUME NEW o \in DOMAIN shares, o # n
      PROVE  /\ shares'[o].id = shares[o].id /\ shares'[o].read = shares[o].read
             /\ shares'[o].weight = shares[o].weight /\ shares'[o].answered = shares[o].answered
             /\ \/ shares'[o].booked = shares[o].booked
                \/ /\ shares[o].booked = None /\ shares[o].weight # None
                   /\ shares'[o].booked = "unresolved"
  <2>1. CASE o \in late
    <3>1. shares'[o] = [shares[o] EXCEPT !.booked = "unresolved"]
      BY <1>6, <2>1 DEF Takes
    <3>2. shares[o].booked = None /\ shares[o].weight # None
      BY <2>1 DEF Takes, Open, AtProxy
    <3> QED
      BY <1>2, <3>1, <3>2 DEF Share
  <2>2. CASE o \notin late
    <3>1. shares'[o] = shares[o]
      BY <1>6, <2>2 DEF Takes
    <3> QED
      BY <3>1
  <2> QED
    BY <2>1, <2>2
<1>7. BooksMove
  BY <1>1, <1>4, <1>5, <1>6 DEF BooksMove
<1>8. force # None
  BY RelayAssumption DEF TypeInv
<1>9. ASSUME NEW o \in DOMAIN shares
      PROVE  /\ shares'[o].weight = None => shares'[o].booked = None
             /\ ~shares'[o].answered => shares'[o].booked \in {"unresolved", None}
  <2>1. CASE o = n
    BY <1>4, <1>5, <1>8, <2>1
  <2>2. CASE o # n
    BY <1>6, <2>2 DEF BooksInv
  <2> QED
    BY <2>1, <2>2
<1>10. BooksInv'
  BY <1>5, <1>9 DEF BooksInv
<1> QED
  BY <1>4, <1>5, <1>6, <1>7, <1>10

LEMMA AnswersMove ==
  ASSUME TypeInv, BooksInv, NEW n \in DOMAIN shares, NEW ok \in BOOLEAN, ProxyAnswers(n, ok)
  PROVE  /\ BooksMove /\ BooksInv'
         /\ Fits(IF ok THEN "accepted" ELSE "rejected", shares'[n].booked)
         /\ \A o \in DOMAIN shares : shares'[o].weight = shares[o].weight \/ shares[o].weight # None
<1>1. \A o \in DOMAIN shares : shares[o] \in Share
  BY ShareFields DEF TypeInv
<1>2. shares[n].weight # None /\ ~shares[n].answered
  BY DEF ProxyAnswers, AtProxy
<1>3. shares[n].booked \in {"unresolved", None}
  BY <1>2 DEF BooksInv
<1>4. PICK b : b = IF shares[n].booked = None THEN IF ok THEN "accepted" ELSE "rejected"
                   ELSE shares[n].booked
  OBVIOUS
<1>5. PICK new : new = [shares[n] EXCEPT !.answered = TRUE, !.booked = b]
  OBVIOUS
<1>6. /\ new.id = shares[n].id /\ new.read = shares[n].read /\ new.weight = shares[n].weight
      /\ new.answered = TRUE /\ new.booked = b
  BY <1>1, <1>5 DEF Share
<1>7. shares' = [shares EXCEPT ![n] = new]
  BY <1>1, <1>4, <1>5 DEF ProxyAnswers, Share
<1>8. DOMAIN shares' = DOMAIN shares /\ shares'[n] = new
      /\ \A o \in DOMAIN shares : o # n => shares'[o] = shares[o]
  BY <1>7
<1>9. BooksMove
  <2>1. ASSUME NEW o \in DOMAIN shares
        PROVE  /\ shares'[o].id = shares[o].id /\ shares'[o].read = shares[o].read
               /\ shares'[o].booked = shares[o].booked \/ shares[o].booked = None
    <3>1. CASE o = n
      BY <1>4, <1>6, <1>8, <3>1
    <3>2. CASE o # n
      BY <1>8, <3>2
    <3> QED
      BY <3>1, <3>2
  <2> QED
    BY <1>8, <2>1 DEF BooksMove
<1>10. BooksInv'
  <2>1. ASSUME NEW o \in DOMAIN shares
        PROVE  /\ shares'[o].weight = None => shares'[o].booked = None
               /\ ~shares'[o].answered => shares'[o].booked \in {"unresolved", None}
    <3>1. CASE o = n
      BY <1>2, <1>6, <1>8, <3>1
    <3>2. CASE o # n
      BY <1>8, <3>2 DEF BooksInv
    <3> QED
      BY <3>1, <3>2
  <2> QED
    BY <1>8, <2>1 DEF BooksInv
<1>11. Fits(IF ok THEN "accepted" ELSE "rejected", b)
  <2>1. "rejected" # None /\ "unresolved" # None
    BY RelayAssumption DEF Verdicts
  <2> QED
    BY <1>3, <1>4, <2>1 DEF Fits
<1>12. \A o \in DOMAIN shares : shares'[o].weight = shares[o].weight \/ shares[o].weight # None
  BY <1>2, <1>8
<1> QED
  BY <1>6, <1>8, <1>9, <1>10, <1>11, <1>12

LEMMA IdsMoved ==
  ASSUME IdsInv, BooksMove
  PROVE  IdsInv'
BY DEF IdsInv, BooksMove

\* What a submit adds, with an id of its own.
LEMMA SubmitAdds ==
  ASSUME FreshIds, TypeInv, NEW id \in Ids, NEW j \in Range(heard), Submit(id, j)
  PROVE  \E n \in Nat :
           /\ n = Len(shares) + 1 /\ id = n /\ n \notin DOMAIN shares
           /\ DOMAIN shares' = DOMAIN shares \cup {n}
           /\ \A o \in DOMAIN shares : shares'[o] = shares[o]
           /\ shares'[n].id = n /\ shares'[n].weight = None /\ shares'[n].booked = None
           /\ shares'[n].read = ("miner" \notin blind)
<1>1. PICK n \in Nat : n = Len(shares) + 1 /\ id = n
  BY LenProperties DEF Ids, TypeInv
<1>2. PICK e : /\ e = [session |-> session, id |-> id, job |-> j, terms |-> tap.terms,
                       read |-> "miner" \notin blind, weight |-> None, booked |-> None,
                       answered |-> FALSE]
               /\ shares' = Append(shares, e)
  BY DEF Submit
<1>3. e \in Share
  <2>1. id \in AnyId
    BY <1>1 DEF AnyId
  <2>2. j \in Nat
    BY ElementOfSeq, LenProperties DEF TypeInv, Range
  <2>3. tap.terms \in Nat /\ session \in Nat
    BY DEF TypeInv, TapRec
  <2> QED
    BY <1>2, <2>1, <2>2, <2>3 DEF Share
<1>4. e.id = n /\ e.weight = None /\ e.booked = None /\ e.read = ("miner" \notin blind)
  BY <1>1, <1>2
<1>5. /\ Len(shares) \in Nat /\ DOMAIN shares = 1..Len(shares)
      /\ DOMAIN shares' = 1..(Len(shares) + 1)
      /\ \A i \in 1..Len(shares) : shares'[i] = shares[i]
      /\ shares'[Len(shares) + 1] = e
  BY <1>2, <1>3, Appending DEF TypeInv
<1>6. n \notin DOMAIN shares /\ \A o : o \in 1..(Len(shares) + 1) <=> o \in 1..Len(shares) \/ o = n
  BY <1>1, <1>5
<1>7. DOMAIN shares' = DOMAIN shares \cup {n}
  BY <1>5, <1>6
<1> QED
  BY <1>1, <1>4, <1>5, <1>6, <1>7

LEMMA AnswerInvSubmit ==
  ASSUME FreshIds, TypeInv, AnswerInv, NEW id \in Ids, NEW j \in Range(heard), Submit(id, j)
  PROVE  AnswerInv'
<1>1. PICK n \in Nat :
           /\ n = Len(shares) + 1 /\ id = n /\ n \notin DOMAIN shares
           /\ DOMAIN shares' = DOMAIN shares \cup {n}
           /\ \A o \in DOMAIN shares : shares'[o] = shares[o]
           /\ shares'[n].id = n /\ shares'[n].weight = None /\ shares'[n].booked = None
  BY SubmitAdds
<1>2. IdsInv' /\ BooksInv'
  BY <1>1 DEF AnswerInv, IdsInv, BooksInv
<1>3. WayInv'
  <2>1. toProxy \in Seq(Nat) /\ toProxy' = Append(toProxy, n)
    BY <1>1 DEF Submit, TypeInv
  <2>2. /\ Len(toProxy) \in Nat /\ DOMAIN toProxy = 1..Len(toProxy)
        /\ DOMAIN toProxy' = 1..(Len(toProxy) + 1)
        /\ \A i \in 1..Len(toProxy) : toProxy'[i] = toProxy[i]
        /\ toProxy'[Len(toProxy) + 1] = n
    BY <2>1, Appending
  <2>3. \A i \in DOMAIN toProxy : toProxy[i] \in DOMAIN shares /\ toProxy[i] # n
    BY <1>1 DEF TypeInv
  <2>4. \A i \in DOMAIN toProxy' : i \in DOMAIN toProxy \/ i = Len(toProxy) + 1
    BY <2>2
  <2>5. \A i \in DOMAIN toProxy' : shares'[toProxy'[i]].weight = None
    BY <1>1, <2>2, <2>3, <2>4 DEF AnswerInv, WayInv
  <2>6. \A i, k \in DOMAIN toProxy' : toProxy'[i] = toProxy'[k] => i = k
    BY <2>2, <2>3, <2>4 DEF AnswerInv, WayInv
  <2> QED
    BY <2>5, <2>6 DEF WayInv
<1>4. VerdictInv'
  <2>1. toRelay' = toRelay
    BY DEF Submit
  <2>2. \A m : Verdict(m, shares) => Verdict(m, shares')
    BY <1>1 DEF Verdict
  <2>3. \A i \in DOMAIN toRelay : Verdict(toRelay[i], shares')
    BY <2>2 DEF AnswerInv, VerdictInv
  <2> QED
    BY <2>1, <2>3 DEF VerdictInv, Verdict, Fits, Outcome
<1> QED
  BY <1>2, <1>3, <1>4 DEF AnswerInv

LEMMA AnswerInvTakes ==
  ASSUME TypeInv, AnswerInv, ProxyTakes
  PROVE  AnswerInv' /\ BooksMove
<1>1. PICK n, late, busy : busy \in BOOLEAN /\ Takes(n, late, busy)
  BY TakesShape
<1>2. /\ BooksMove /\ BooksInv'
      /\ shares'[n].booked = IF busy THEN "refused" ELSE None
      /\ \A o \in DOMAIN shares \ {n} : shares'[o].weight = shares[o].weight
  BY <1>1, TakesMove DEF AnswerInv
<1>3. n \in DOMAIN shares /\ n = toProxy[1] /\ toProxy # <<>> /\ toProxy \in Seq(Nat)
  BY <1>1 DEF Takes, TypeInv
<1>4. IdsInv'
  BY <1>2, IdsMoved DEF AnswerInv
<1>5. WayInv'
  <2>1. /\ toProxy' = Tail(toProxy) /\ 1 \in DOMAIN toProxy
        /\ \A i \in DOMAIN Tail(toProxy) :
             /\ i \in DOMAIN toProxy /\ i + 1 \in DOMAIN toProxy
             /\ Tail(toProxy)[i] = toProxy[i + 1]
    <3>1. toProxy' = Tail(toProxy)
      BY DEF ProxyTakes
    <3>2. /\ 1 \in DOMAIN toProxy /\ DOMAIN Tail(toProxy) \subseteq DOMAIN toProxy
          /\ \A i \in DOMAIN Tail(toProxy) :
               i + 1 \in DOMAIN toProxy /\ Tail(toProxy)[i] = toProxy[i + 1]
      BY ONLY <1>3, TailType
    <3> QED
      BY ONLY <3>1, <3>2
  <2>2. \A i \in DOMAIN toProxy : i \in Nat /\ i # 0
    BY <1>3, LenProperties
  <2>3. ASSUME NEW i \in DOMAIN toProxy'
        PROVE  shares'[toProxy'[i]].weight = None
    <3>1. i + 1 \in DOMAIN toProxy /\ i + 1 # 1 /\ toProxy'[i] = toProxy[i + 1]
      BY <2>1, <2>2
    <3>2. toProxy[i + 1] # n /\ shares[toProxy[i + 1]].weight = None
      BY <1>3, <2>1, <3>1 DEF AnswerInv, WayInv
    <3>3. toProxy[i + 1] \in DOMAIN shares
      BY <3>1 DEF TypeInv
    <3> QED
      BY <1>2, <3>1, <3>2, <3>3
  <2>4. ASSUME NEW i \in DOMAIN toProxy', NEW k \in DOMAIN toProxy', toProxy'[i] = toProxy'[k]
        PROVE  i = k
    <3>1. i + 1 = k + 1
      BY <2>1, <2>4 DEF AnswerInv, WayInv
    <3>2. i \in Nat /\ k \in Nat
      BY <2>1, <2>2
    <3> QED
      BY <3>1, <3>2
  <2> QED
    BY <2>3, <2>4 DEF WayInv
<1>6. VerdictInv'
  <2>1. CASE ~busy
    <3>1. toRelay' = toRelay
      BY <1>1, <2>1 DEF Takes
    <3>2. \A i \in DOMAIN toRelay : Verdict(toRelay[i], shares')
      BY <1>2, VerdictsKept DEF AnswerInv
    <3> QED
      BY <3>1, <3>2 DEF VerdictInv, Verdict, Fits, Outcome
  <2>2. CASE busy
    <3>1. PICK m : m = [kind |-> "answer", ok |-> FALSE, id |-> shares[n].id]
      OBVIOUS
    <3>2. toRelay' = Append(toRelay, m)
      BY <1>1, <2>2, <3>1 DEF Takes
    <3>3. shares[n].id = n /\ shares[n].id \in AnyId
      BY <1>3, ShareFields DEF TypeInv, AnswerInv, IdsInv
    <3>4. m \in Msg
      BY <3>1, <3>3 DEF Msg
    <3>5. shares'[n].booked = "refused"
      BY <1>2, <2>2
    <3>6. "refused" # None
      BY RelayAssumption DEF Verdicts
    <3>7. Verdict(m, shares')
      BY <1>2, <1>3, <3>1, <3>3, <3>5, <3>6 DEF Verdict, Fits, Outcome, BooksMove
    <3> QED
      BY <1>2, <3>2, <3>4, <3>7, VerdictsAdded DEF AnswerInv
  <2> QED
    BY <1>1, <2>1, <2>2
<1> QED
  BY <1>2, <1>4, <1>5, <1>6 DEF AnswerInv

LEMMA AnswerInvAnswers ==
  ASSUME TypeInv, AnswerInv, NEW n \in DOMAIN shares, NEW ok \in BOOLEAN, ProxyAnswers(n, ok)
  PROVE  AnswerInv' /\ BooksMove
<1>1. /\ BooksMove /\ BooksInv'
      /\ Fits(IF ok THEN "accepted" ELSE "rejected", shares'[n].booked)
      /\ \A o \in DOMAIN shares : shares'[o].weight = shares[o].weight \/ shares[o].weight # None
  BY AnswersMove DEF AnswerInv
<1>2. IdsInv'
  BY <1>1, IdsMoved DEF AnswerInv
<1>3. WayInv'
  <2>1. toProxy' = toProxy
    BY DEF ProxyAnswers
  <2>2. \A i \in DOMAIN toProxy : toProxy[i] \in DOMAIN shares /\ shares[toProxy[i]].weight = None
    BY DEF TypeInv, AnswerInv, WayInv
  <2>3. \A i \in DOMAIN toProxy : shares'[toProxy[i]].weight = None
    BY <1>1, <2>2
  <2> QED
    BY <2>1, <2>3 DEF AnswerInv, WayInv
<1>4. VerdictInv'
  <2>1. PICK m : m = [kind |-> "answer", id |-> shares[n].id, ok |-> ok]
    OBVIOUS
  <2>2. toRelay' = Append(toRelay, m)
    BY <2>1 DEF ProxyAnswers
  <2>3. shares[n].id = n /\ shares[n].id \in AnyId
    BY ShareFields DEF TypeInv, AnswerInv, IdsInv
  <2>4. m \in Msg /\ m.id = n /\ Outcome(m) = (IF ok THEN "accepted" ELSE "rejected")
    BY <2>1, <2>3 DEF Msg, Outcome
  <2>5. Verdict(m, shares')
    BY <1>1, <2>4 DEF Verdict, BooksMove
  <2> QED
    BY <1>1, <2>2, <2>4, <2>5, VerdictsAdded DEF AnswerInv
<1> QED
  BY <1>1, <1>2, <1>3, <1>4 DEF AnswerInv

LEMMA AnswerInvStep ==
  ASSUME FreshIds, TypeInv, AnswerInv, [Next]_vars
  PROVE  AnswerInv'
<1>1. CASE UNCHANGED <<shares, toProxy, toRelay>>
  BY <1>1 DEF AnswerInv, IdsInv, BooksInv, WayInv, VerdictInv, Verdict, Fits, Outcome
<1>2. CASE Receive
  <2>1. toRelay # <<>> /\ toRelay \in Seq(Msg) /\ toRelay' = Tail(toRelay)
        /\ UNCHANGED <<shares, toProxy>>
    BY <1>2 DEF Receive, TypeInv
  <2>2. \A i \in DOMAIN toRelay' : i + 1 \in DOMAIN toRelay /\ toRelay'[i] = toRelay[i + 1]
    BY <2>1, TailType
  <2>3. \A i \in DOMAIN toRelay' : Verdict(toRelay'[i], shares)
    BY <2>2 DEF AnswerInv, VerdictInv
  <2>4. VerdictInv'
    BY <2>1, <2>3 DEF VerdictInv, Verdict, Fits, Outcome
  <2> QED
    BY <2>1, <2>4 DEF AnswerInv, IdsInv, BooksInv, WayInv
<1>3. CASE Connect \/ Finish \/ PowerLoss
  <2>1. toProxy' = <<>> /\ toRelay' = <<>> /\ shares' = shares
    BY <1>3 DEF Connect, Finish, PowerLoss
  <2>2. DOMAIN <<>> = {}
    OBVIOUS
  <2> QED
    BY <2>1, <2>2 DEF AnswerInv, IdsInv, BooksInv, WayInv, VerdictInv
<1>4. ASSUME NEW kind \in {"job", "terms"}, ProxyPushes(kind)
      PROVE  AnswerInv'
  <2>1. PICK m : m = [kind |-> kind, push |-> pushes'] /\ toRelay' = Append(toRelay, m)
    BY <1>4 DEF ProxyPushes
  <2>2. UNCHANGED <<shares, toProxy>> /\ pushes' \in Nat
    BY <1>4 DEF ProxyPushes, TypeInv
  <2>3. m \in Msg /\ m.kind # "answer"
    BY <2>1, <2>2 DEF Msg
  <2>4. BooksMove
    BY <2>2 DEF BooksMove
  <2>5. Verdict(m, shares')
    BY <2>3 DEF Verdict
  <2>6. VerdictInv'
    BY <2>1, <2>3, <2>4, <2>5, VerdictsAdded DEF AnswerInv
  <2> QED
    BY <2>2, <2>6 DEF AnswerInv, IdsInv, BooksInv, WayInv
<1> QED
  BY <1>1, <1>2, <1>3, <1>4, AnswerInvSubmit, AnswerInvTakes, AnswerInvAnswers
     DEF Next, vars, GoBlind, proxy

\* Steps that leave the shares and the file alone.
LEMMA RecordedSame ==
  ASSUME RecordedOnce, RecordedAll, UNCHANGED <<file, shares, losses>>,
         Range(tap'.pending) = Range(tap.pending)
  PROVE  RecordedOnce' /\ RecordedAll'
<1>1. RecordedOnce'
  BY DEF RecordedOnce, Fits, IsShare
<1>2. RecordedAll'
  BY DEF RecordedAll, IsShare
<1> QED
  BY <1>1, <1>2

\* The records of an answer fit the books, for the answer is about that submit.
LEMMA AnswerFits ==
  ASSUME TypeInv, AnswerInv, toRelay # <<>>, Head(toRelay).kind = "answer",
         NEW n, Settles(Head(toRelay), n)
  PROVE  /\ Fitting(AnswerRecords(Head(toRelay)), {n}, Outcome(Head(toRelay)))
         /\ Complete(AnswerRecords(Head(toRelay)), {n})
         /\ Beside(AnswerRecords(Head(toRelay)), tap)
<1>1. PICK m \in Msg : m = Head(toRelay) /\ 1 \in DOMAIN toRelay /\ m = toRelay[1]
  BY TailType DEF TypeInv
<1>2. PICK o \in Outcomes : o = Outcome(m)
  BY <1>1, MsgFields
<1>3. /\ n \in DOMAIN shares /\ n \in Range(tap.pending) /\ shares[n].id = m.id
      /\ AnswerRecords(m) = Records(tap, n, o)
  BY <1>1, <1>2 DEF Settles
<1>4. n = m.id
  BY <1>3 DEF AnswerInv, IdsInv
<1>5. Fits(o, shares[n].booked)
  BY <1>1, <1>2, <1>4 DEF AnswerInv, VerdictInv, Verdict
<1>6. PICK recs : recs = Records(tap, n, o)
  OBVIOUS
<1>7. Sofar(recs, tap, Resolved(tap, n, o), {n}, o)
  BY <1>3, <1>6, AnswerSofar DEF TypeInv
<1>8. recs \in Seq(Rec) /\ Plain(recs, {n}, o) /\ Complete(recs, {n}) /\ Beside(recs, tap)
  BY <1>7 DEF Sofar
<1>9. Fitting(recs, {n}, o)
  BY <1>3, <1>5, <1>8 DEF Fitting
<1> QED
  BY <1>1, <1>2, <1>3, <1>6, <1>8, <1>9

LEMMA RecordedReceive ==
  ASSUME TypeInv, AnswerInv, RecordedOnce, RecordedAll, Receive
  PROVE  RecordedOnce' /\ RecordedAll'
<1>1. PICK m \in Msg : m = Head(toRelay)
  BY TailType DEF Receive, TypeInv
<1>2. shares' = shares /\ losses' = losses /\ tap \in TapRec /\ toRelay # <<>>
  BY DEF Receive, TypeInv
<1>3. CASE UNCHANGED file /\ tap'.pending = tap.pending
  BY <1>2, <1>3, RecordedSame
<1>4. CASE m.kind = "answer" /\ tap' = Settled(m) /\ Appended(AnswerRecords(m))
  <2>1. CASE AnswerRecords(m) = <<>> /\ Settled(m) = tap
    <3>1. file' = file
      BY <1>4, <2>1, NothingAppended
    <3> QED
      BY <1>3, <1>4, <2>1, <3>1
  <2>2. ASSUME NEW n, Settles(m, n)
        PROVE  RecordedOnce' /\ RecordedAll'
    <3>1. PICK recs : recs = AnswerRecords(m)
      OBVIOUS
    <3>2. Fitting(recs, {n}, Outcome(m)) /\ Complete(recs, {n})
      BY <1>1, <1>2, <1>4, <2>2, <3>1, AnswerFits
    <3>3. Longer(recs) /\ Wholly
      BY <1>4, <3>1, <3>2, AppendedLonger DEF Fitting
    <3>4. Range(tap'.pending) = Range(tap.pending) \ {n}
      BY <1>4, <2>2 DEF Settles
    <3>5. RecordedOnce'
      BY <1>2, <3>2, <3>3, <3>4, OnceGrown DEF Longer
    <3>6. RecordedAll'
      BY <1>2, <3>2, <3>3, <3>4, AllGrown
    <3> QED
      BY <3>5, <3>6
  <2> QED
    BY <1>4, <2>1, <2>2, AnswerSettles
<1>5. CASE /\ UNCHANGED file
           /\ tap' = [tap EXCEPT !.jobs = Newest(Append(@, m.push), JobsHeld)]
  BY <1>2, <1>3, <1>5 DEF TapRec
<1>6. CASE UNCHANGED file /\ tap' = [tap EXCEPT !.terms = m.push]
  BY <1>2, <1>3, <1>6 DEF TapRec
<1> QED
  BY <1>1, <1>3, <1>4, <1>5, <1>6 DEF Receive

\* The records of every submit that waits fit the books, whatever these say.
LEMMA DrainedFits ==
  ASSUME TypeInv
  PROVE  /\ Fitting(Drained(tap).recs, Range(tap.pending), "unanswered")
         /\ Complete(Drained(tap).recs, Range(tap.pending)) /\ Beside(Drained(tap).recs, tap)
<1>1. PICK recs \in Seq(Rec) :
        /\ recs = Drained(tap).recs
        /\ Sofar(recs, tap, Drained(tap).tap, Range(tap.pending), "unanswered")
  BY DrainedBatch
<1>2. /\ Plain(recs, Range(tap.pending), "unanswered")
      /\ Complete(recs, Range(tap.pending)) /\ Beside(recs, tap)
  BY <1>1 DEF Sofar
<1>3. Range(tap.pending) \subseteq DOMAIN shares
  BY DEF TypeInv, Queue, Range
<1>4. Fitting(recs, Range(tap.pending), "unanswered")
  BY <1>2, <1>3 DEF Fitting, Fits, Outcomes
<1> QED
  BY <1>1, <1>2, <1>4

LEMMA RecordedFinish ==
  ASSUME TypeInv, RecordedOnce, RecordedAll, Finish
  PROVE  RecordedOnce' /\ RecordedAll'
<1>1. PICK recs : recs = Drained(tap).recs
  OBVIOUS
<1>2. Fitting(recs, Range(tap.pending), "unanswered") /\ Complete(recs, Range(tap.pending))
  BY <1>1, DrainedFits
<1>3. Longer(recs) /\ Wholly
  BY <1>1, <1>2, AppendedLonger DEF Finish, Fitting
<1>4. shares' = shares /\ losses' = losses /\ Range(tap'.pending) = {}
  BY NewTapType DEF Finish, Range
<1>5. RecordedOnce'
  BY <1>2, <1>3, <1>4, OnceGrown DEF Longer
<1>6. RecordedAll'
  BY <1>2, <1>3, <1>4, AllGrown
<1> QED
  BY <1>5, <1>6

\* What a loss of power leaves is of the file and of a batch of answers that fit.
LEMMA RecordedPowerLoss ==
  ASSUME TypeInv, AnswerInv, RecordedOnce, PowerLoss
  PROVE  RecordedOnce' /\ RecordedAll'
<1>1. shares' = shares /\ losses' = losses + 1 /\ Range(tap'.pending) = {}
  BY NewTapType DEF PowerLoss, Range
<1>2. RecordedAll'
  <2>1. losses' # 0
    BY <1>1 DEF TypeInv
  <2> QED
    BY <2>1 DEF RecordedAll
<1> SUFFICES RecordedOnce'
  BY <1>2
<1>0. PICK recs \in UnderWay : \E f : recs \in Seq(Rec) /\ Grown(f, recs) /\ Remains(file', f)
  BY LossRemains
<1>3. PICK f : recs \in Seq(Rec) /\ Grown(f, recs) /\ Remains(file', f)
  BY <1>0
<1>4. Drawn(recs)
  BY <1>3, RemainsDrawn
<1>5. ASSUME NEW S, NEW o, Fitting(recs, S, o)
      PROVE  RecordedOnce'
  BY <1>1, <1>4, <1>5, OnceGrown
<1>6. CASE recs = Drained(tap).recs
  BY <1>5, <1>6, DrainedFits
<1>7. CASE recs = <<>>
  <2>1. Plain(<<>>, {}, "accepted") /\ "accepted" \in Outcomes
    BY DEF Plain, Outcomes
  <2>2. Fitting(recs, {}, "accepted")
    BY <1>3, <1>7, <2>1 DEF Fitting
  <2> QED
    BY <1>5, <2>2
<1>8. CASE recs # <<>> /\ toRelay # <<>> /\ recs = AnswerRecords(Head(toRelay))
  <2>1. PICK m \in Msg : m = Head(toRelay)
    BY <1>8, TailType DEF TypeInv
  <2>2. m.kind = "answer"
    BY <1>8, <2>1 DEF AnswerRecords
  <2>3. PICK n : Settles(m, n)
    BY <1>8, <2>1, <2>2, AnswerSettles
  <2>4. Fitting(recs, {n}, Outcome(m))
    BY <1>8, <2>1, <2>2, <2>3, AnswerFits
  <2> QED
    BY <1>5, <2>4
<1> QED
  BY <1>3, <1>6, <1>7, <1>8 DEF UnderWay

\* A submit is held if it is read, and displaces none: its id is its own.
LEMMA HeldLast ==
  ASSUME FreshIds, TypeInv, IdsInv, NEW n \in Nat, n \notin DOMAIN shares
  PROVE  Range(Held(n, n)) = Range(tap.pending) \cup {n}
<1>1. tap.pending \in Seq(Nat) /\ \A o \in Range(tap.pending) : o \in DOMAIN shares
  BY DEF TypeInv, Queue, Range
<1>2. \A o \in Range(tap.pending) : shares[o].id # n
  BY <1>1 DEF IdsInv
<1>3. Waiting(n) = None
  BY <1>2, WaitingFound
<1>4. Held(n, n) = Append(tap.pending, n)
  BY <1>3 DEF Held
<1>5. /\ Len(tap.pending) \in Nat /\ DOMAIN tap.pending = 1..Len(tap.pending)
      /\ DOMAIN Append(tap.pending, n) = 1..(Len(tap.pending) + 1)
      /\ \A i \in 1..Len(tap.pending) : Append(tap.pending, n)[i] = tap.pending[i]
      /\ Append(tap.pending, n)[Len(tap.pending) + 1] = n
  BY <1>1, Appending
<1>6. PICK a, q, l : /\ a = Append(tap.pending, n) /\ q = tap.pending /\ l \in Nat
                     /\ DOMAIN q = 1..l /\ DOMAIN a = 1..(l + 1)
                     /\ \A i \in 1..l : a[i] = q[i]
                     /\ a[l + 1] = n
  BY <1>5
<1>7. \A i : i \in 1..(l + 1) <=> (i \in 1..l \/ i = l + 1)
  BY <1>6
<1>8. Range(a) = Range(q) \cup {n}
  BY <1>6, <1>7 DEF Range
<1> QED
  BY <1>4, <1>6, <1>8

LEMMA RecordedSubmit ==
  ASSUME FreshIds, TypeInv, AnswerInv, RecordedOnce, RecordedAll,
         NEW id \in Ids, NEW j \in Range(heard), Submit(id, j)
  PROVE  RecordedOnce' /\ RecordedAll'
<1>1. PICK n \in Nat :
           /\ n = Len(shares) + 1 /\ id = n /\ n \notin DOMAIN shares
           /\ DOMAIN shares' = DOMAIN shares \cup {n}
           /\ \A o \in DOMAIN shares : shares'[o] = shares[o]
           /\ shares'[n].read = ("miner" \notin blind)
  BY SubmitAdds
<1>2. file' = file /\ losses' = losses
  BY DEF Submit
<1>3. /\ Range(tap'.pending) \subseteq Range(tap.pending) \cup {n}
      /\ Range(tap.pending) \subseteq Range(tap'.pending)
      /\ "miner" \notin blind => n \in Range(tap'.pending)
  <2>1. CASE "miner" \in blind
    <3>1. tap' = tap
      BY <2>1 DEF Submit
    <3> QED
      BY <2>1, <3>1
  <2>2. CASE "miner" \notin blind
    <3>1. tap' = [tap EXCEPT !.pending = Held(n, n)] /\ tap \in TapRec
      BY <1>1, <2>2 DEF Submit, TypeInv
    <3>2. tap'.pending = Held(n, n)
      BY <3>1 DEF TapRec
    <3>3. Range(Held(n, n)) = Range(tap.pending) \cup {n}
      BY <1>1, HeldLast DEF AnswerInv
    <3> QED
      BY <3>2, <3>3
  <2> QED
    BY <2>1, <2>2
<1>4. RecordedOnce'
  <2>1. SUFFICES ASSUME NEW i \in DOMAIN file, file[i].rec.kind = "share"
                 PROVE  /\ file[i].rec.share \in DOMAIN shares'
                        /\ file[i].rec.share \notin Range(tap'.pending)
                        /\ Fits(file[i].rec.outcome, shares'[file[i].rec.share].booked)
                        /\ \A k \in DOMAIN file : IsShare(file[k].rec, file[i].rec.share) => k = i
    BY <1>2 DEF RecordedOnce, IsShare, Fits
  <2>2. PICK o \in DOMAIN shares :
          /\ o = file[i].rec.share /\ o \notin Range(tap.pending)
          /\ Fits(file[i].rec.outcome, shares[o].booked)
          /\ \A k \in DOMAIN file : IsShare(file[k].rec, o) => k = i
    BY <2>1 DEF RecordedOnce
  <2>3. o # n /\ shares'[o] = shares[o] /\ o \in DOMAIN shares'
    BY <1>1
  <2> QED
    BY <1>3, <2>2, <2>3
<1>5. RecordedAll'
  <2>1. SUFFICES ASSUME losses = 0
                 PROVE  /\ \A i \in DOMAIN file : file[i].end # "torn"
                        /\ \A o \in DOMAIN shares' : shares'[o].read /\ o \notin Range(tap'.pending)
                             => \E i \in DOMAIN file : IsShare(file[i].rec, o)
    BY <1>2 DEF RecordedAll, IsShare
  <2>2. /\ \A i \in DOMAIN file : file[i].end # "torn"
        /\ \A o \in DOMAIN shares : shares[o].read /\ o \notin Range(tap.pending)
             => \E i \in DOMAIN file : IsShare(file[i].rec, o)
    BY <2>1 DEF RecordedAll
  <2>3. ASSUME NEW o \in DOMAIN shares', shares'[o].read, o \notin Range(tap'.pending)
        PROVE  \E i \in DOMAIN file : IsShare(file[i].rec, o)
    <3>1. o # n
      BY <1>1, <1>3, <2>3
    <3>2. o \in DOMAIN shares /\ shares'[o] = shares[o] /\ o \notin Range(tap.pending)
      BY <1>1, <1>3, <2>3, <3>1
    <3> QED
      BY <2>2, <2>3, <3>2
  <2> QED
    BY <2>2, <2>3
<1> QED
  BY <1>4, <1>5

RecordInv == AnswerInv /\ IdleInv /\ RecordedOnce /\ RecordedAll

LEMMA RecordStep ==
  ASSUME FreshIds, TypeInv, RecordInv, [Next]_vars
  PROVE  RecordInv'
<1>1. AnswerInv' /\ IdleInv'
  BY AnswerInvStep, IdleStep DEF RecordInv
<1>2. AnswerInv /\ RecordedOnce /\ RecordedAll
  BY DEF RecordInv
<1> SUFFICES RecordedOnce' /\ RecordedAll'
  BY <1>1 DEF RecordInv
<1>3. CASE UNCHANGED <<file, shares, losses, tap>>
  BY <1>2, <1>3, RecordedSame
<1>4. CASE Connect
  <2>1. tap.pending = <<>>
    BY <1>4 DEF Connect, RecordInv, IdleInv
  <2>2. tap'.pending = <<>> /\ UNCHANGED <<file, shares, losses>>
    BY <1>4, NewTapType DEF Connect
  <2> QED
    BY <1>2, <2>1, <2>2, RecordedSame
<1>5. CASE Receive
  BY <1>2, <1>5, RecordedReceive
<1>6. CASE Finish
  BY <1>2, <1>6, RecordedFinish
<1>7. CASE PowerLoss
  BY <1>2, <1>7, RecordedPowerLoss
<1>8. CASE ProxyTakes
  <2>1. UNCHANGED <<file, losses, tap>>
    BY <1>8 DEF ProxyTakes
  <2> QED
    BY <1>2, <1>8, <2>1, AnswerInvTakes, RecordedMoved
<1>9. ASSUME NEW n \in DOMAIN shares, NEW ok \in BOOLEAN, ProxyAnswers(n, ok)
      PROVE  RecordedOnce' /\ RecordedAll'
  <2>1. UNCHANGED <<file, losses, tap>>
    BY <1>9 DEF ProxyAnswers
  <2> QED
    BY <1>2, <1>9, <2>1, AnswerInvAnswers, RecordedMoved
<1>10. ASSUME NEW id \in Ids, NEW j \in Range(heard), Submit(id, j)
       PROVE  RecordedOnce' /\ RecordedAll'
  BY <1>2, <1>10, RecordedSubmit
<1> QED
  BY <1>3, <1>4, <1>5, <1>6, <1>7, <1>8, <1>9, <1>10 DEF Next, vars, GoBlind, ProxyPushes

\* What EverySubmitRecorded says of one submit.
LEMMA RecordsCounted ==
  ASSUME TypeInv, RecordedOnce, RecordedAll, NEW n \in DOMAIN shares
  PROVE  /\ Cardinality(RecordsOf(n)) <= 1
         /\ shares[n].read /\ losses = 0 => (n \in Range(tap.pending)) = (RecordsOf(n) = {})
         /\ \A i \in RecordsOf(n) : Fits(file[i].rec.outcome, shares[n].booked)
<1>1. RecordsOf(n) = {i \in DOMAIN file : file[i].end # "torn" /\ IsShare(file[i].rec, n)}
  BY DEF RecordsOf, IsShare
<1>2. ASSUME NEW i \in RecordsOf(n)
      PROVE  /\ n \notin Range(tap.pending) /\ Fits(file[i].rec.outcome, shares[n].booked)
             /\ RecordsOf(n) = {i}
  <2>1. i \in DOMAIN file /\ file[i].rec.kind = "share" /\ file[i].rec.share = n
    BY <1>1 DEF IsShare
  <2>2. \A k \in DOMAIN file : IsShare(file[k].rec, n) => k = i
    BY <2>1 DEF RecordedOnce
  <2> QED
    BY <1>1, <2>1, <2>2 DEF RecordedOnce
<1>3. Cardinality(RecordsOf(n)) <= 1
  <2>1. CASE RecordsOf(n) = {}
    BY <2>1, FS_EmptySet
  <2>2. ASSUME NEW i \in RecordsOf(n)
        PROVE  Cardinality(RecordsOf(n)) <= 1
    <3>1. RecordsOf(n) = {i}
      BY <1>2
    <3>2. Cardinality({i}) = 1
      BY FS_Singleton
    <3> QED
      BY <3>1, <3>2
  <2> QED
    BY <2>1, <2>2
<1>4. ASSUME shares[n].read, losses = 0
      PROVE  (n \in Range(tap.pending)) = (RecordsOf(n) = {})
  <2>1. CASE n \in Range(tap.pending)
    <3>1. RecordsOf(n) = {}
      BY <1>2, <2>1
    <3> QED
      BY <2>1, <3>1
  <2>2. CASE n \notin Range(tap.pending)
    <3>1. PICK i \in DOMAIN file : IsShare(file[i].rec, n) /\ file[i].end # "torn"
      BY <1>4, <2>2 DEF RecordedAll
    <3>2. RecordsOf(n) # {}
      BY <1>1, <3>1
    <3> QED
      BY <2>2, <3>2
  <2> QED
    BY <2>1, <2>2
<1> QED
  BY <1>2, <1>3, <1>4

-----------------------------------------------------------------------------
(* The limits.                                                             *)

OnceIn(q, most) == Len(q) <= most /\ \A i, k \in DOMAIN q : q[i] = q[k] => i = k

LEMMA NewestOnce ==
  ASSUME NEW s \in Seq(Nat), NEW e \in Nat, NEW most \in Nat \ {0},
         OnceIn(s, most), e \notin Range(s)
  PROVE  OnceIn(Newest(Append(s, e), most), most)
<1>1. PICK u \in Seq(Nat) : u = Append(s, e)
  BY ONLY Appending, s \in Seq(Nat), e \in Nat
<1>2. PICK l \in Nat : /\ Len(s) = l /\ DOMAIN s = 1..l /\ Len(u) = l + 1 /\ DOMAIN u = 1..(l + 1)
                       /\ u[l + 1] = e /\ \A i \in 1..l : u[i] = s[i]
  <2>1. /\ Len(s) \in Nat /\ DOMAIN s = 1..Len(s) /\ Len(Append(s, e)) = Len(s) + 1
        /\ DOMAIN Append(s, e) = 1..(Len(s) + 1)
        /\ \A i \in 1..Len(s) : Append(s, e)[i] = s[i]
        /\ Append(s, e)[Len(s) + 1] = e
    BY ONLY Appending, s \in Seq(Nat), e \in Nat
  <2> QED
    BY ONLY <1>1, <2>1
<1>3. l <= most /\ \A i, k \in 1..l : s[i] = s[k] => i = k
  BY <1>2 DEF OnceIn
<1>4. \A i \in 1..l : s[i] # e
  BY <1>2 DEF Range
<1>5. \A i \in 1..(l + 1) : i \in 1..l \/ i = l + 1
  BY <1>2
<1>6. \A i, k \in 1..(l + 1) : u[i] = u[k] => i = k
  BY <1>2, <1>3, <1>4, <1>5
<1>7. CASE l + 1 > most
  <2>1. Newest(Append(s, e), most) = Tail(u)
    BY <1>1, <1>2, <1>7 DEF Newest
  <2>2. u # <<>>
    BY <1>2
  <2>3. /\ Tail(u) \in Seq(Nat) /\ Len(Tail(u)) = Len(u) - 1
        /\ \A i \in 1..Len(Tail(u)) : Tail(u)[i] = u[i + 1]
    BY ONLY <1>1, <2>2, HeadTailProperties
  <2>4. Len(Tail(u)) = l /\ DOMAIN Tail(u) = 1..l
    BY <1>2, <2>3, LenProperties
  <2>5. ASSUME NEW i \in 1..l, NEW k \in 1..l, Tail(u)[i] = Tail(u)[k]
        PROVE  i = k
    <3>1. i + 1 \in 1..(l + 1) /\ k + 1 \in 1..(l + 1)
      BY ONLY l \in Nat, i \in 1..l, k \in 1..l
    <3>2. u[i + 1] = u[k + 1]
      BY <2>3, <2>4, <2>5
    <3>3. i + 1 = k + 1
      BY <1>6, <3>1, <3>2
    <3> QED
      BY ONLY <3>3, i \in 1..l, k \in 1..l, l \in Nat
  <2> QED
    BY <1>3, <2>1, <2>4, <2>5 DEF OnceIn
<1>8. CASE ~(l + 1 > most)
  <2>1. Newest(Append(s, e), most) = u
    BY <1>1, <1>2, <1>8 DEF Newest
  <2> QED
    BY <1>2, <1>6, <1>8, <2>1 DEF OnceIn
<1> QED
  BY <1>7, <1>8

\* A step keeps the submits and their ids; the proxy weighs one by its terms.
SharesKept ==
  /\ DOMAIN shares \subseteq DOMAIN shares'
  /\ \A n \in DOMAIN shares' :
       \/ /\ n \in DOMAIN shares /\ shares'[n].id = shares[n].id
          /\ shares'[n].weight \in {shares[n].weight, force}
       \/ n \notin DOMAIN shares /\ shares'[n].weight = None

LEMMA SubmitKeeps ==
  ASSUME TypeInv, NEW id \in Ids, NEW j \in Range(heard), Submit(id, j)
  PROVE  \E n \in Nat :
           /\ n = Len(shares) + 1 /\ n \notin DOMAIN shares
           /\ DOMAIN shares' = DOMAIN shares \cup {n}
           /\ \A o \in DOMAIN shares : shares'[o] = shares[o]
           /\ shares'[n].id = id /\ shares'[n].weight = None
<1>1. PICK n \in Nat : n = Len(shares) + 1
  BY LenProperties DEF TypeInv
<1>2. PICK e : /\ e = [session |-> session, id |-> id, job |-> j, terms |-> tap.terms,
                       read |-> "miner" \notin blind, weight |-> None, booked |-> None,
                       answered |-> FALSE]
               /\ shares' = Append(shares, e)
  BY DEF Submit
<1>3. e \in Share
  <2>1. id \in AnyId
    BY <1>1 DEF Ids, AnyId
  <2>2. j \in Nat
    BY ElementOfSeq, LenProperties DEF TypeInv, Range
  <2>3. tap.terms \in Nat /\ session \in Nat
    BY DEF TypeInv, TapRec
  <2> QED
    BY <1>2, <2>1, <2>2, <2>3 DEF Share
<1>4. e.id = id /\ e.weight = None
  BY <1>2
<1>5. /\ Len(shares) \in Nat /\ DOMAIN shares = 1..Len(shares)
      /\ DOMAIN Append(shares, e) = 1..(Len(shares) + 1)
      /\ \A i \in 1..Len(shares) : Append(shares, e)[i] = shares[i]
      /\ Append(shares, e)[Len(shares) + 1] = e
  <2>1. shares \in Seq(Share)
    BY DEF TypeInv
  <2> QED
    BY ONLY <1>3, <2>1, Appending
<1>6. n \notin DOMAIN shares /\ \A o : o \in 1..(Len(shares) + 1) <=> o \in 1..Len(shares) \/ o = n
  BY <1>1, <1>5
<1>7. DOMAIN shares' = DOMAIN shares \cup {n}
  BY <1>2, <1>5, <1>6
<1> QED
  BY <1>1, <1>2, <1>4, <1>5, <1>6, <1>7

LEMMA SharesStep ==
  ASSUME TypeInv, [Next]_vars
  PROVE  SharesKept
<1>1. CASE shares' = shares
  BY <1>1 DEF SharesKept
<1>2. ASSUME NEW id \in Ids, NEW j \in Range(heard), Submit(id, j)
      PROVE  SharesKept
  BY <1>2, SubmitKeeps DEF SharesKept
<1>3. \A o \in DOMAIN shares : shares[o] \in Share
  BY ShareFields DEF TypeInv
<1>4. CASE ProxyTakes
  <2>1. PICK n, late, busy : busy \in BOOLEAN /\ Takes(n, late, busy)
    BY <1>4, TakesShape
  <2>2. DOMAIN shares' = DOMAIN shares
    BY <2>1 DEF Takes
  <2>3. ASSUME NEW o \in DOMAIN shares
        PROVE  shares'[o].id = shares[o].id /\ shares'[o].weight \in {shares[o].weight, force}
    <3>1. CASE o = n
      <4>1. shares'[o] = [shares[o] EXCEPT !.weight = force, !.answered = busy,
                                           !.booked = IF busy THEN "refused" ELSE None]
        BY <2>1, <3>1 DEF Takes
      <4> QED
        BY <1>3, <4>1 DEF Share
    <3>2. CASE o # n /\ o \in late
      <4>1. shares'[o] = [shares[o] EXCEPT !.booked = "unresolved"]
        BY <2>1, <3>2 DEF Takes
      <4> QED
        BY <1>3, <4>1 DEF Share
    <3>3. CASE o # n /\ o \notin late
      <4>1. shares'[o] = shares[o]
        BY <2>1, <3>3 DEF Takes
      <4> QED
        BY <4>1
    <3> QED
      BY <3>1, <3>2, <3>3
  <2> QED
    BY <2>2, <2>3 DEF SharesKept
<1>5. ASSUME NEW n \in DOMAIN shares, NEW ok \in BOOLEAN, ProxyAnswers(n, ok)
      PROVE  SharesKept
  <2>1. PICK b : shares' = [shares EXCEPT ![n] = [shares[n] EXCEPT !.answered = TRUE, !.booked = b]]
    <3>1. PICK b : b = IF shares[n].booked = None THEN IF ok THEN "accepted" ELSE "rejected"
                       ELSE shares[n].booked
      OBVIOUS
    <3>2. shares' = [shares EXCEPT ![n] = [shares[n] EXCEPT !.answered = TRUE, !.booked = b]]
      BY <1>3, <1>5, <3>1 DEF ProxyAnswers, Share
    <3> QED
      BY <3>2
  <2>2. PICK new : new = [shares[n] EXCEPT !.answered = TRUE, !.booked = b]
    OBVIOUS
  <2>3. new.id = shares[n].id /\ new.weight = shares[n].weight
    BY <1>3, <2>2 DEF Share
  <2>4. DOMAIN shares' = DOMAIN shares /\ shares'[n] = new
        /\ \A o \in DOMAIN shares : o # n => shares'[o] = shares[o]
    BY <2>1, <2>2
  <2> QED
    BY <2>3, <2>4 DEF SharesKept
<1> QED
  BY <1>1, <1>2, <1>4, <1>5
     DEF Next, vars, Connect, Receive, GoBlind, Finish, PowerLoss, ProxyPushes

\* Pushes are numbered in order, and a job held came before those on their way.
PushInv ==
  /\ \A i \in DOMAIN toRelay : toRelay[i].kind # "answer" =>
       /\ toRelay[i].push <= pushes
       /\ \A j \in Range(tap.jobs) : j < toRelay[i].push
       /\ \A k \in DOMAIN toRelay : k < i /\ toRelay[k].kind # "answer"
            => toRelay[k].push < toRelay[i].push
  /\ \A j \in Range(tap.jobs) : j <= pushes

LEMMA PushSame ==
  ASSUME PushInv, UNCHANGED <<toRelay, pushes>>, tap'.jobs = tap.jobs
  PROVE  PushInv'
BY DEF PushInv

LEMMA PushAnswer ==
  ASSUME TypeInv, PushInv, NEW m \in Msg, m.kind = "answer", toRelay' = Append(toRelay, m),
         pushes' = pushes, tap'.jobs = tap.jobs
  PROVE  PushInv'
<1>1. /\ Len(toRelay) \in Nat /\ DOMAIN toRelay = 1..Len(toRelay)
      /\ DOMAIN Append(toRelay, m) = 1..(Len(toRelay) + 1)
      /\ \A i \in 1..Len(toRelay) : Append(toRelay, m)[i] = toRelay[i]
      /\ Append(toRelay, m)[Len(toRelay) + 1] = m
  BY Appending DEF TypeInv
<1>2. \A i \in DOMAIN toRelay' : \/ i \in DOMAIN toRelay /\ toRelay'[i] = toRelay[i]
                                 \/ toRelay'[i] = m
  BY <1>1
<1> QED
  BY <1>2 DEF PushInv

LEMMA PushStep ==
  ASSUME TypeInv, PushInv, [Next]_vars
  PROVE  PushInv'
<1>0. tap \in TapRec /\ toRelay \in Seq(Msg) /\ pushes \in Nat /\ \A j \in Range(tap.jobs) : j \in Nat
  BY ElementOfSeq, LenProperties DEF TypeInv, TapRec, Range
<1>1. CASE UNCHANGED <<toRelay, pushes, tap>>
  BY <1>1, PushSame
<1>2. ASSUME NEW id \in Ids, NEW j \in Range(heard), Submit(id, j)
      PROVE  PushInv'
  <2>1. tap' = tap \/ tap' = [tap EXCEPT !.pending = Held(Len(shares) + 1, id)]
    BY <1>2 DEF Submit
  <2>2. tap'.jobs = tap.jobs
    BY <1>0, <2>1 DEF TapRec
  <2> QED
    BY <1>2, <2>2, PushSame DEF Submit
<1>3. CASE Connect \/ Finish \/ PowerLoss
  <2>1. toRelay' = <<>> /\ tap'.jobs = <<>>
    BY <1>3 DEF Connect, Finish, PowerLoss, NewTap
  <2>2. DOMAIN <<>> = {} /\ Range(<<>>) = {}
    BY DEF Range
  <2> QED
    BY <2>1, <2>2 DEF PushInv
<1>4. CASE Receive
  <2>1. /\ toRelay' = Tail(toRelay) /\ pushes' = pushes /\ toRelay # <<>>
    BY <1>4 DEF Receive
  <2>2. /\ Head(toRelay) \in Msg /\ 1 \in DOMAIN toRelay /\ Head(toRelay) = toRelay[1]
        /\ \A i \in DOMAIN Tail(toRelay) :
             i + 1 \in DOMAIN toRelay /\ Tail(toRelay)[i] = toRelay[i + 1]
    BY ONLY <1>0, <2>1, TailType
  <2>3. PICK m \in Msg : m = Head(toRelay) /\ m = toRelay[1]
    BY <2>2
  <2>4. \A i \in DOMAIN Tail(toRelay) : i \in Nat \ {0}
    <3>1. Tail(toRelay) \in Seq(Msg)
      BY ONLY <1>0, <2>1, TailType
    <3> QED
      BY <3>1, LenProperties
  <2>5. \A i \in DOMAIN toRelay : toRelay[i] \in Msg /\ (toRelay[i].kind # "answer" => toRelay[i].push \in Nat)
    BY <1>0, LenProperties, ElementOfSeq, MsgFields
  <2>6. \A j \in Range(tap'.jobs) : \/ j \in Range(tap.jobs)
                                    \/ m.kind # "answer" /\ j = m.push
    <3>1. CASE tap'.jobs = tap.jobs
      BY <3>1
    <3>2. CASE m.kind = "answer" /\ tap' = Settled(m)
      <4>1. tap'.jobs = tap.jobs
        BY <3>2, AnswerSettles DEF Settles
      <4> QED
        BY <4>1
    <3>3. CASE m.kind = "job" /\ tap' = [tap EXCEPT !.jobs = Newest(Append(@, m.push), JobsHeld)]
      <4>1. m.push \in Nat /\ JobsHeld \in Nat \ {0} /\ tap.jobs \in Seq(Nat)
        BY <1>0, <3>3, MsgFields, RelayAssumption DEF TapRec
      <4>2. tap'.jobs = Newest(Append(tap.jobs, m.push), JobsHeld)
        BY <1>0, <3>3 DEF TapRec
      <4>3. \A j \in Range(Newest(Append(tap.jobs, m.push), JobsHeld)) :
              j \in Range(tap.jobs) \cup {m.push}
        BY ONLY <4>1, NewestKept
      <4> QED
        BY <3>3, <4>2, <4>3
    <3>4. CASE tap' = [tap EXCEPT !.terms = m.push]
      <4>1. tap'.jobs = tap.jobs
        BY <1>0, <3>4 DEF TapRec
      <4> QED
        BY <4>1
    <3> QED
      BY <1>4, <2>3, <3>1, <3>2, <3>3, <3>4 DEF Receive
  <2>7. ASSUME NEW i \in DOMAIN toRelay', toRelay'[i].kind # "answer"
        PROVE  /\ toRelay'[i].push <= pushes
               /\ \A j \in Range(tap'.jobs) : j < toRelay'[i].push
               /\ \A k \in DOMAIN toRelay' : k < i /\ toRelay'[k].kind # "answer"
                    => toRelay'[k].push < toRelay'[i].push
    <3>1. i + 1 \in DOMAIN toRelay /\ toRelay'[i] = toRelay[i + 1] /\ 1 < i + 1
      BY <2>1, <2>2, <2>4
    <3>2. /\ toRelay[i + 1].push <= pushes
          /\ \A j \in Range(tap.jobs) : j < toRelay[i + 1].push
          /\ \A k \in DOMAIN toRelay : k < i + 1 /\ toRelay[k].kind # "answer"
               => toRelay[k].push < toRelay[i + 1].push
      BY <2>7, <3>1 DEF PushInv
    <3>3. m.kind # "answer" => m.push < toRelay[i + 1].push
      BY <2>2, <2>3, <3>1, <3>2
    <3>4. ASSUME NEW k \in DOMAIN toRelay', k < i, toRelay'[k].kind # "answer"
          PROVE  toRelay'[k].push < toRelay'[i].push
      <4>1. k + 1 \in DOMAIN toRelay /\ toRelay'[k] = toRelay[k + 1] /\ k + 1 < i + 1
        BY <2>1, <2>2, <2>4, <3>4
      <4> QED
        BY <3>1, <3>2, <3>4, <4>1
    <3> QED
      BY <2>6, <3>1, <3>2, <3>3, <3>4
  <2>8. \A j \in Range(tap'.jobs) : j <= pushes
    BY <2>2, <2>3, <2>6 DEF PushInv
  <2> QED
    BY <2>1, <2>7, <2>8 DEF PushInv
<1>5. CASE ProxyTakes
  <2>1. PICK n, late, busy : busy \in BOOLEAN /\ Takes(n, late, busy)
    BY <1>5, TakesShape
  <2>2. UNCHANGED <<pushes, tap>>
    BY <1>5 DEF ProxyTakes
  <2>3. CASE busy
    <3>1. PICK m : m = [kind |-> "answer", ok |-> FALSE, id |-> shares[n].id]
      OBVIOUS
    <3>2. shares[n].id \in AnyId
      BY <2>1, ShareFields DEF TypeInv, Takes
    <3>3. m \in Msg /\ m.kind = "answer"
      BY <3>1, <3>2 DEF Msg
    <3>4. toRelay' = Append(toRelay, m)
      BY <2>1, <2>3, <3>1 DEF Takes
    <3> QED
      BY <2>2, <3>3, <3>4, PushAnswer
  <2>4. CASE ~busy
    <3>1. toRelay' = toRelay
      BY <2>1, <2>4 DEF Takes
    <3> QED
      BY <2>2, <3>1, PushSame
  <2> QED
    BY <2>1, <2>3, <2>4
<1>6. ASSUME NEW n \in DOMAIN shares, NEW ok \in BOOLEAN, ProxyAnswers(n, ok)
      PROVE  PushInv'
  <2>1. PICK m : m = [kind |-> "answer", id |-> shares[n].id, ok |-> ok]
    OBVIOUS
  <2>2. toRelay' = Append(toRelay, m) /\ UNCHANGED <<pushes, tap>>
    BY <1>6, <2>1 DEF ProxyAnswers
  <2>3. shares[n].id \in AnyId
    BY ShareFields DEF TypeInv
  <2>4. m \in Msg /\ m.kind = "answer"
    BY <2>1, <2>3 DEF Msg
  <2> QED
    BY <2>2, <2>4, PushAnswer
<1>7. ASSUME NEW kind \in {"job", "terms"}, ProxyPushes(kind)
      PROVE  PushInv'
  <2>1. PICK m : m = [kind |-> kind, push |-> pushes'] /\ toRelay' = Append(toRelay, m)
    BY <1>7 DEF ProxyPushes
  <2>2. tap' = tap /\ pushes' = pushes + 1
    BY <1>7 DEF ProxyPushes
  <2>3. m \in Msg /\ m.push = pushes + 1
    BY <1>0, <2>1, <2>2 DEF Msg
  <2>4. PICK l \in Nat : /\ Len(toRelay) = l /\ DOMAIN toRelay = 1..l
                         /\ DOMAIN toRelay' = 1..(l + 1)
                         /\ \A i \in 1..l : toRelay'[i] = toRelay[i]
                         /\ toRelay'[l + 1] = m
    <3>1. /\ Len(toRelay) \in Nat /\ DOMAIN toRelay = 1..Len(toRelay)
          /\ DOMAIN Append(toRelay, m) = 1..(Len(toRelay) + 1)
          /\ \A i \in 1..Len(toRelay) : Append(toRelay, m)[i] = toRelay[i]
          /\ Append(toRelay, m)[Len(toRelay) + 1] = m
      BY ONLY <1>0, <2>3, Appending
    <3> QED
      BY ONLY <2>1, <3>1
  <2>5. \A i \in DOMAIN toRelay : toRelay[i].kind # "answer" => toRelay[i].push \in Nat
    BY <1>0, LenProperties, ElementOfSeq, MsgFields
  <2>6. ASSUME NEW i \in DOMAIN toRelay', toRelay'[i].kind # "answer"
        PROVE  /\ toRelay'[i].push <= pushes'
               /\ \A j \in Range(tap.jobs) : j < toRelay'[i].push
               /\ \A k \in DOMAIN toRelay' : k < i /\ toRelay'[k].kind # "answer"
                    => toRelay'[k].push < toRelay'[i].push
    <3>1. CASE i = l + 1
      <4>1. \A k \in DOMAIN toRelay' : k < i => k \in DOMAIN toRelay /\ toRelay'[k] = toRelay[k]
        BY <2>4, <3>1
      <4>2. \A k \in DOMAIN toRelay : toRelay[k].kind # "answer" => toRelay[k].push < pushes + 1
        BY <1>0, <2>5 DEF PushInv
      <4>3. \A j \in Range(tap.jobs) : j < pushes + 1
        BY <1>0 DEF PushInv
      <4>4. toRelay'[i].push = pushes + 1
        BY <2>3, <2>4, <3>1
      <4> QED
        BY <1>0, <2>2, <4>1, <4>2, <4>3, <4>4
    <3>2. CASE i # l + 1
      <4>1. i \in DOMAIN toRelay /\ toRelay'[i] = toRelay[i] /\ i <= l
        BY <2>4, <3>2
      <4>2. \A k \in DOMAIN toRelay' : k < i => k \in DOMAIN toRelay /\ toRelay'[k] = toRelay[k]
        BY <2>4, <4>1
      <4>3. toRelay[i].push <= pushes + 1
        BY <1>0, <2>5, <2>6, <4>1 DEF PushInv
      <4>4. \A j \in Range(tap.jobs) : j < toRelay[i].push
        BY <2>6, <4>1 DEF PushInv
      <4>5. \A k \in DOMAIN toRelay : k < i /\ toRelay[k].kind # "answer" => toRelay[k].push < toRelay[i].push
        BY <2>6, <4>1 DEF PushInv
      <4> QED
        BY <2>2, <4>1, <4>2, <4>3, <4>4, <4>5
    <3> QED
      BY <3>1, <3>2
  <2>7. \A j \in Range(tap.jobs) : j <= pushes'
    BY <1>0, <2>2 DEF PushInv
  <2> QED
    BY <2>2, <2>6, <2>7 DEF PushInv
<1> QED
  BY <1>1, <1>2, <1>3, <1>4, <1>5, <1>6, <1>7 DEF Next, vars, GoBlind, proxy

\* Submits that wait have different ids: one displaces another.
IdOnce == \A a, b \in Range(tap.pending) : shares[a].id = shares[b].id => a = b

LEMMA IdOnceLess ==
  ASSUME TypeInv, IdOnce, SharesKept, Range(tap'.pending) \subseteq Range(tap.pending)
  PROVE  IdOnce'
<1>1. \A a \in Range(tap.pending) : a \in DOMAIN shares
  BY DEF TypeInv, Queue, Range
<1>2. \A a \in Range(tap.pending) : shares'[a].id = shares[a].id
  BY <1>1 DEF SharesKept
<1> QED
  BY <1>2 DEF IdOnce

LEMMA HeldRange ==
  ASSUME TypeInv, NEW id, NEW n \in Nat, n \notin DOMAIN shares
  PROVE  \A a \in Range(Held(n, id)) :
           a = n \/ (a \in Range(tap.pending) /\ a # Waiting(id))
<1>1. tap.pending \in Seq(Nat) /\ \A a \in Range(tap.pending) : a \in DOMAIN shares /\ a \in Nat
  BY ShareFields DEF TypeInv, Queue, Range
<1>2. CASE Waiting(id) = None
  <2>1. Held(n, id) = Append(tap.pending, n)
    BY <1>2 DEF Held
  <2>2. /\ Len(tap.pending) \in Nat /\ DOMAIN tap.pending = 1..Len(tap.pending)
        /\ DOMAIN Append(tap.pending, n) = 1..(Len(tap.pending) + 1)
        /\ \A i \in 1..Len(tap.pending) : Append(tap.pending, n)[i] = tap.pending[i]
        /\ Append(tap.pending, n)[Len(tap.pending) + 1] = n
    BY <1>1, Appending
  <2>3. \A i \in DOMAIN Append(tap.pending, n) :
          \/ Append(tap.pending, n)[i] = n
          \/ i \in DOMAIN tap.pending /\ Append(tap.pending, n)[i] = tap.pending[i]
    BY <2>2
  <2>4. None \notin Range(tap.pending)
    BY <1>1, RelayAssumption
  <2> QED
    BY <1>2, <2>1, <2>3, <2>4 DEF Range
<1>3. CASE Waiting(id) # None
  <2>1. Held(n, id) = [i \in DOMAIN tap.pending |->
          IF tap.pending[i] = Waiting(id) THEN n ELSE tap.pending[i]]
    BY <1>3 DEF Held
  <2>2. PICK h, w : /\ h = Held(n, id) /\ w = Waiting(id)
                    /\ h = [i \in DOMAIN tap.pending |->
                              IF tap.pending[i] = w THEN n ELSE tap.pending[i]]
    BY <2>1
  <2>3. \A i \in DOMAIN h : h[i] = n \/ (h[i] = tap.pending[i] /\ h[i] # w /\ i \in DOMAIN tap.pending)
    BY <2>2
  <2>4. \A a \in Range(h) : a = n \/ (a \in Range(tap.pending) /\ a # w)
    BY <2>3 DEF Range
  <2> QED
    BY <2>2, <2>4
<1> QED
  BY <1>2, <1>3

LEMMA IdOnceSubmit ==
  ASSUME TypeInv, IdOnce, NEW id \in Ids, NEW j \in Range(heard), Submit(id, j)
  PROVE  IdOnce'
<1>1. PICK n \in Nat :
           /\ n = Len(shares) + 1 /\ n \notin DOMAIN shares
           /\ DOMAIN shares' = DOMAIN shares \cup {n}
           /\ \A o \in DOMAIN shares : shares'[o] = shares[o]
           /\ shares'[n].id = id
  BY SubmitKeeps
<1>2. \A a \in Range(tap.pending) : a \in DOMAIN shares
  BY DEF TypeInv, Queue, Range
<1>3. CASE "miner" \in blind
  <2>1. tap' = tap
    BY <1>3 DEF Submit
  <2> QED
    BY <1>1, <1>2, <2>1 DEF IdOnce
<1>4. CASE "miner" \notin blind
  <2>1. tap' = [tap EXCEPT !.pending = Held(n, id)] /\ tap \in TapRec
    BY <1>1, <1>4 DEF Submit, TypeInv
  <2>2. tap'.pending = Held(n, id)
    BY <2>1 DEF TapRec
  <2>3. \A a \in Range(tap'.pending) : a = n \/ (a \in Range(tap.pending) /\ a # Waiting(id))
    BY <1>1, <2>2, HeldRange
  <2>4. \A a \in Range(tap.pending) : a # Waiting(id) => shares[a].id # id
    <3>1. \/ Waiting(id) = None /\ \A a \in Range(tap.pending) : shares[a].id # id
          \/ /\ Waiting(id) \in Range(tap.pending) /\ shares[Waiting(id)].id = id
      BY WaitingFound
    <3> QED
      BY <3>1 DEF IdOnce
  <2>5. ASSUME NEW a \in Range(tap'.pending), NEW b \in Range(tap'.pending),
               shares'[a].id = shares'[b].id
        PROVE  a = b
    <3>1. \A c \in Range(tap.pending) : shares'[c].id = shares[c].id
      BY <1>1, <1>2
    <3> QED
      BY <1>1, <2>3, <2>4, <2>5, <3>1 DEF IdOnce
  <2> QED
    BY <2>5 DEF IdOnce
<1> QED
  BY <1>3, <1>4

LEMMA IdStep ==
  ASSUME TypeInv, IdOnce, [Next]_vars
  PROVE  IdOnce'
<1>0. SharesKept /\ tap \in TapRec
  BY SharesStep DEF TypeInv
<1>1. ASSUME tap'.pending = tap.pending \/ tap'.pending = <<>>
      PROVE  IdOnce'
  <2>1. Range(<<>>) = {}
    BY DEF Range
  <2> QED
    BY <1>0, <1>1, <2>1, IdOnceLess
<1>2. CASE Receive
  <2>1. PICK m \in Msg : m = Head(toRelay)
    BY <1>2, TailType DEF Receive, TypeInv
  <2>2. CASE m.kind = "answer" /\ tap' = Settled(m)
    <3>1. ASSUME NEW n, Settles(m, n)
          PROVE  IdOnce'
      <4>1. Range(tap'.pending) \subseteq Range(tap.pending)
        BY <2>2, <3>1 DEF Settles
      <4> QED
        BY <1>0, <4>1, IdOnceLess
    <3> QED
      BY <1>1, <2>2, <3>1, AnswerSettles
  <2>3. CASE \/ tap' = tap
             \/ tap' = [tap EXCEPT !.jobs = Newest(Append(@, m.push), JobsHeld)]
             \/ tap' = [tap EXCEPT !.terms = m.push]
    <3>1. tap'.pending = tap.pending
      BY <1>0, <2>3 DEF TapRec
    <3> QED
      BY <1>1, <3>1
  <2> QED
    BY <1>2, <2>1, <2>2, <2>3 DEF Receive
<1>3. CASE Connect \/ Finish \/ PowerLoss
  <2>1. tap'.pending = <<>>
    BY <1>3, NewTapType DEF Connect, Finish, PowerLoss
  <2> QED
    BY <1>1, <2>1
<1>4. CASE tap' = tap
  BY <1>1, <1>4
<1> QED
  BY <1>2, <1>3, <1>4, IdOnceSubmit DEF Next, vars, GoBlind, ProxyTakes, ProxyAnswers, ProxyPushes

HoldInv == OnceIn(tap.jobs, JobsHeld) /\ OnceIn(tap.written, WrittenHeld)

LEMMA HoldStep ==
  ASSUME TypeInv, PushInv, HoldInv, [Next]_vars
  PROVE  HoldInv'
<1>0. tap \in TapRec /\ shares \in Seq(Share)
  BY DEF TypeInv
<1>1. ASSUME tap'.jobs = tap.jobs, tap'.written = tap.written
      PROVE  HoldInv'
  BY <1>1 DEF HoldInv
<1>2. CASE Receive
  <2>1. toRelay \in Seq(Msg) /\ toRelay # <<>>
    BY <1>2 DEF Receive, TypeInv
  <2>2. PICK m \in Msg : m = Head(toRelay) /\ m = toRelay[1] /\ 1 \in DOMAIN toRelay
    BY ONLY <2>1, TailType
  <2>3. CASE m.kind = "answer" /\ tap' = Settled(m)
    <3>1. ASSUME NEW n, Settles(m, n)
          PROVE  HoldInv'
      <4>1. PICK o : o = Outcome(m)
        OBVIOUS
      <4>2. n \in DOMAIN shares /\ tap'.jobs = tap.jobs /\ tap'.written = Resolved(tap, n, o).written
        BY <2>3, <3>1, <4>1 DEF Settles
      <4>3. CASE JobDue(tap, n, o)
        <5>1. PICK j \in Nat : j = shares[n].job
          BY <1>0, <4>2, ShareFields
        <5>2. Resolved(tap, n, o).written = Newest(Append(tap.written, j), WrittenHeld)
          BY <1>0, <4>3, <5>1 DEF Resolved, TapRec
        <5>3. tap.written \in Seq(Nat) /\ WrittenHeld \in Nat \ {0} /\ OnceIn(tap.written, WrittenHeld)
          BY <1>0, RelayAssumption DEF TapRec, HoldInv
        <5>4. j \notin Range(tap.written)
          <6>1. DOMAIN tap.written = 1..Len(tap.written)
            BY <5>3, LenProperties
          <6> QED
            BY <4>3, <5>1, <6>1 DEF JobDue, Contains, Range
        <5>5. OnceIn(Newest(Append(tap.written, j), WrittenHeld), WrittenHeld)
          BY ONLY <5>3, <5>4, NewestOnce, j \in Nat
        <5> QED
          BY <4>2, <5>2, <5>5 DEF HoldInv
      <4>4. CASE ~JobDue(tap, n, o)
        <5>1. Resolved(tap, n, o).written = tap.written
          BY <1>0, <4>4 DEF Resolved, TapRec
        <5> QED
          BY <1>1, <4>2, <5>1
      <4> QED
        BY <4>3, <4>4
    <3> QED
      BY <1>1, <2>3, <3>1, AnswerSettles
  <2>4. CASE m.kind = "job" /\ tap' = [tap EXCEPT !.jobs = Newest(Append(@, m.push), JobsHeld)]
    <3>1. PICK j \in Nat : j = m.push
      BY <2>4, MsgFields
    <3>2. tap'.written = tap.written /\ tap'.jobs = Newest(Append(tap.jobs, j), JobsHeld)
      BY <1>0, <2>4, <3>1 DEF TapRec
    <3>3. tap.jobs \in Seq(Nat) /\ JobsHeld \in Nat \ {0} /\ OnceIn(tap.jobs, JobsHeld)
      BY <1>0, RelayAssumption DEF TapRec, HoldInv
    <3>4. \A k \in Range(tap.jobs) : k \in Nat /\ k < j
      <4>1. \A k \in Range(tap.jobs) : k < j
        BY <2>2, <2>4, <3>1 DEF PushInv
      <4>2. \A k \in Range(tap.jobs) : k \in Nat
        BY <3>3, LenProperties, ElementOfSeq DEF Range
      <4> QED
        BY <4>1, <4>2
    <3>5. j \notin Range(tap.jobs)
      BY <3>4
    <3>6. OnceIn(Newest(Append(tap.jobs, j), JobsHeld), JobsHeld)
      BY ONLY <3>3, <3>5, NewestOnce, j \in Nat
    <3> QED
      BY <3>2, <3>6 DEF HoldInv
  <2>5. CASE tap' = tap \/ tap' = [tap EXCEPT !.terms = m.push]
    <3>1. tap'.jobs = tap.jobs /\ tap'.written = tap.written
      BY <1>0, <2>5 DEF TapRec
    <3> QED
      BY <1>1, <3>1
  <2> QED
    BY <1>2, <2>2, <2>3, <2>4, <2>5 DEF Receive
<1>3. CASE Connect \/ Finish \/ PowerLoss
  <2>1. tap'.jobs = <<>> /\ tap'.written = <<>>
    BY <1>3 DEF Connect, Finish, PowerLoss, NewTap
  <2>2. JobsHeld \in Nat /\ WrittenHeld \in Nat /\ Len(<<>>) = 0 /\ DOMAIN <<>> = {}
    BY RelayAssumption
  <2>3. \A most \in Nat : OnceIn(<<>>, most)
    BY <2>2 DEF OnceIn
  <2> QED
    BY <2>1, <2>2, <2>3 DEF HoldInv
<1>4. ASSUME NEW id \in Ids, NEW j \in Range(heard), Submit(id, j)
      PROVE  HoldInv'
  <2>1. tap' = tap \/ tap' = [tap EXCEPT !.pending = Held(Len(shares) + 1, id)]
    BY <1>4 DEF Submit
  <2>2. tap'.jobs = tap.jobs /\ tap'.written = tap.written
    BY <1>0, <2>1 DEF TapRec
  <2> QED
    BY <1>1, <2>2
<1>5. CASE tap' = tap
  BY <1>1, <1>5
<1> QED
  BY <1>2, <1>3, <1>4, <1>5 DEF Next, vars, GoBlind, ProxyTakes, ProxyAnswers, ProxyPushes

BoundInv ==
  /\ session <= MaxSessions /\ pushes <= MaxPushes /\ force <= MaxPushes
  /\ blind \subseteq {"miner", "proxy"}
  /\ \A n \in DOMAIN shares : shares[n].weight \in 0..MaxPushes \cup {None}

LEMMA BoundStep ==
  ASSUME TypeInv, BoundInv, [Next]_vars
  PROVE  BoundInv'
<1>1. /\ session \in Nat /\ pushes \in Nat /\ force \in Nat
      /\ MaxSessions \in Nat /\ MaxPushes \in Nat
  BY RelayAssumption DEF TypeInv
<1>2. session' <= MaxSessions
  <2>1. CASE session' = session
    BY <2>1 DEF BoundInv
  <2>2. CASE Connect
    BY <1>1, <2>2 DEF Connect
  <2> QED
    BY <2>1, <2>2 DEF Next, vars, Submit, Receive, GoBlind, Finish, PowerLoss, ProxyTakes,
                      ProxyAnswers, ProxyPushes
<1>3. pushes' <= MaxPushes /\ force' <= MaxPushes
  <2>1. CASE UNCHANGED <<pushes, force>>
    BY <2>1 DEF BoundInv
  <2>2. CASE Connect
    BY <1>1, <2>2 DEF Connect, BoundInv
  <2>3. ASSUME NEW kind, ProxyPushes(kind)
        PROVE  pushes' <= MaxPushes /\ force' <= MaxPushes
    BY <1>1, <2>3 DEF ProxyPushes, BoundInv
  <2> QED
    BY <2>1, <2>2, <2>3 DEF Next, vars, Submit, Receive, GoBlind, Finish, PowerLoss,
                            ProxyTakes, ProxyAnswers, proxy
<1>4. blind' \subseteq {"miner", "proxy"}
  <2>1. CASE blind' = blind
    BY <2>1 DEF BoundInv
  <2>2. ASSUME NEW side \in {"miner", "proxy"}, GoBlind(side)
        PROVE  blind' \subseteq {"miner", "proxy"}
    BY <2>2 DEF GoBlind, BoundInv
  <2>3. CASE Connect
    BY <2>3 DEF Connect
  <2> QED
    BY <2>1, <2>2, <2>3 DEF Next, vars, Submit, Receive, Finish, PowerLoss, ProxyTakes,
                            ProxyAnswers, ProxyPushes
<1>5. \A n \in DOMAIN shares' : shares'[n].weight \in 0..MaxPushes \cup {None}
  <2>1. force \in 0..MaxPushes
    BY <1>1 DEF BoundInv
  <2> QED
    BY <2>1, SharesStep DEF SharesKept, BoundInv
<1> QED
  BY <1>2, <1>3, <1>4, <1>5 DEF BoundInv

-----------------------------------------------------------------------------
LEMMA SpecTypeInv == Spec => []TypeInv
<1>1. Init => TypeInv
  BY TypeInvInit
<1>2. TypeInv /\ [Next]_vars => TypeInv'
  BY TypeStep
<1> QED
  BY <1>1, <1>2, PTL DEF Spec

\* No submit waits twice and no two under one id; what the tap holds is within
\* JOBS_HELD and four times that, each job once (relay.ts:79-139).
THEOREM SpecTypeOK == Spec => []TypeOK
<1> DEFINE I == PushInv /\ IdOnce /\ HoldInv /\ BoundInv /\ LossInv
<1>1. Init => I
  <2>1. /\ DOMAIN <<>> = {} /\ Range(<<>>) = {} /\ Len(<<>>) = 0
        /\ {JobsHeld, WrittenHeld, MaxSessions, MaxPushes} \subseteq Nat
    BY RelayAssumption DEF Range
  <2>2. \A most \in Nat : OnceIn(<<>>, most)
    BY <2>1 DEF OnceIn
  <2>3. NewTap.pending = <<>> /\ NewTap.jobs = <<>> /\ NewTap.written = <<>>
    BY DEF NewTap
  <2>4. ASSUME Init
        PROVE  PushInv /\ IdOnce /\ HoldInv
    BY <2>1, <2>2, <2>3, <2>4 DEF Init, PushInv, IdOnce, HoldInv
  <2>5. ASSUME Init
        PROVE  BoundInv
    BY <2>1, <2>5 DEF Init, BoundInv
  <2> QED
    BY <2>4, <2>5, LossInvInit
<1>2. TypeInv /\ I /\ [Next]_vars => I'
  <2>1. ASSUME TypeInv, PushInv, IdOnce, HoldInv, BoundInv, LossInv, [Next]_vars
        PROVE  PushInv' /\ IdOnce' /\ HoldInv' /\ BoundInv' /\ LossInv'
    BY <2>1, PushStep, IdStep, HoldStep, BoundStep, TypeStep, LossStep
  <2> QED
    BY <2>1
<1>3. TypeInv /\ I => TypeOK
  <2>1. SUFFICES ASSUME TypeInv, IdOnce, HoldInv, BoundInv, LossInv
                 PROVE  TypeOK
    OBVIOUS
  <2>2. /\ session \in 0..MaxSessions /\ up \in BOOLEAN /\ durable \in 0..Len(file)
        /\ blind \subseteq {"miner", "proxy"}
    BY <2>1, RelayAssumption DEF TypeInv, BoundInv
  <2>3. Range(tap.pending) \subseteq DOMAIN shares
    BY <2>1 DEF TypeInv, Queue, Range
  <2>4. IsInjective([i \in DOMAIN tap.pending |-> shares[tap.pending[i]].id])
    <3>1. ASSUME NEW i \in DOMAIN tap.pending, NEW k \in DOMAIN tap.pending,
                 shares[tap.pending[i]].id = shares[tap.pending[k]].id
          PROVE  i = k
      <4>1. tap.pending[i] \in Range(tap.pending) /\ tap.pending[k] \in Range(tap.pending)
        BY DEF Range
      <4>2. tap.pending[i] = tap.pending[k]
        BY <2>1, <3>1, <4>1 DEF IdOnce
      <4> QED
        BY <2>1, <4>2 DEF TypeInv, Queue
    <3> QED
      BY <3>1 DEF IsInjective
  <2>5. /\ IsInjective(tap.jobs) /\ Len(tap.jobs) <= JobsHeld
        /\ IsInjective(tap.written) /\ Len(tap.written) <= WrittenHeld
    BY <2>1 DEF HoldInv, OnceIn, IsInjective
  <2>6. \A n \in DOMAIN shares :
          /\ shares[n].weight \in 0..MaxPushes \cup {None}
          /\ shares[n].booked \in Verdicts \cup {None}
    BY <2>1, ShareFields DEF TypeInv, BoundInv
  <2>7. \A i \in DOMAIN file :
          /\ file[i].rec.kind = "share" => file[i].rec.outcome \in Outcomes
          /\ file[i].end \in Ends /\ (file[i].end # "newline" => i <= durable)
    <3>1. \A i \in DOMAIN file : file[i].rec \in Rec /\ file[i].end \in Ends
      BY <2>1, LenProperties, ElementOfSeq, LineFields DEF TypeInv
    <3>2. \A i \in DOMAIN file : file[i].end # "newline" => i \in 1..durable
      BY <2>1 DEF LossInv, Cut
    <3>3. \A i \in 1..durable : i <= durable
      BY <2>1 DEF TypeInv
    <3> QED
      BY <3>1, <3>2, <3>3, RecFields
  <2> QED
    BY <2>2, <2>3, <2>4, <2>5, <2>6, <2>7 DEF TypeOK
<1> HIDE DEF I
<1> QED
  BY <1>1, <1>2, <1>3, SpecTypeInv, PTL DEF Spec

\* Of the records in the file a loss of power makes two unreadable at most: the one
\* whose newline it took and the first of the next start (ledger.ts:57-66, 79-81,
\* 99-106).
THEOREM SpecLossSpoilsTwo == Spec => []LossSpoilsTwo
<1>1. Init => LossInv
  BY LossInvInit
<1>2. TypeInv /\ LossInv /\ [Next]_vars => LossInv'
  BY TypeStep, LossStep
<1>3. TypeInv /\ LossInv => LossSpoilsTwo
  BY SpoiledByCut
<1> QED
  BY <1>1, <1>2, <1>3, SpecTypeInv, PTL DEF Spec

\* What is written for a share whose job was one of the newest the relay heard of
\* has that job before it in the file (relay.ts:40-41, worker/src/index.ts:91-94).
THEOREM SpecJobBesideWhileHeld == Spec => JobBesideWhileHeld
<1> DEFINE JobsBeside ==
      \A i \in DOMAIN file' \ DOMAIN file :
        file'[i].rec.kind = "share" /\ shares[file'[i].rec.share].job \in Recently
        => \E k \in 1..(i - 1) : file'[k].rec = JobRecord(shares[file'[i].rec.share].job)
<1>1. Init => JobInv
  <2>1. DOMAIN <<>> = {} /\ Range(<<>>) = {}
    BY DEF Range
  <2> QED
    BY <2>1 DEF Init, JobInv, HeldInv, WrittenInv, IdleInv, NewTap
<1>2. TypeInv /\ JobInv /\ [Next]_vars => JobInv'
  BY HeldStep, WrittenStep, IdleStep DEF JobInv
<1>3. TypeInv /\ JobInv /\ [Next]_vars => [JobsBeside]_vars
  <2>1. ASSUME TypeInv, JobInv, [Next]_vars
        PROVE  JobsBeside
    BY <2>1, NextFileStep, BesideStep
  <2> QED
    BY <2>1
<1> HIDE DEF JobsBeside
<1>4. Spec => [][JobsBeside]_vars
  BY <1>1, <1>2, <1>3, SpecTypeInv, PTL DEF Spec
<1> QED
  BY <1>4 DEF JobBesideWhileHeld, JobsBeside

\* With an id of its own for every request of a miner: a submit the relay read is
\* in the ledger exactly once or waits, whatever else arrives, unless power was
\* lost; and the ledger turns no verdict of the proxy into another (ledger.ts:5-6,
\* relay.ts:163-171, 206-210).
THEOREM SpecEverySubmitRecorded == FreshIds => (Spec => []EverySubmitRecorded)
<1> SUFFICES ASSUME FreshIds
             PROVE  Spec => []EverySubmitRecorded
  OBVIOUS
<1>1. Init => RecordInv
  <2>1. DOMAIN <<>> = {}
    OBVIOUS
  <2> QED
    BY <2>1, NewTapType DEF Init, RecordInv, AnswerInv, IdsInv, BooksInv, WayInv, VerdictInv,
                            IdleInv, RecordedOnce, RecordedAll
<1>2. TypeInv /\ RecordInv /\ [Next]_vars => RecordInv'
  BY RecordStep
<1>3. TypeInv /\ RecordInv => EverySubmitRecorded
  <2>1. SUFFICES ASSUME TypeInv, RecordInv, NEW n \in DOMAIN shares
                 PROVE  /\ Cardinality(RecordsOf(n)) <= 1
                        /\ shares[n].read /\ losses = 0
                           => (n \in Range(tap.pending)) = (RecordsOf(n) = {})
                        /\ \A i \in RecordsOf(n) : Fits(file[i].rec.outcome, shares[n].booked)
    BY DEF EverySubmitRecorded, Fits
  <2> QED
    BY <2>1, RecordsCounted DEF RecordInv
<1> QED
  BY <1>1, <1>2, <1>3, SpecTypeInv, PTL DEF Spec
=============================================================================
