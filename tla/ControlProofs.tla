--------------------------- MODULE ControlProofs ----------------------------
(* Proofs about Control, for any accounts, rigs, wallets, limits and ttls. *)
EXTENDS Control, SequenceTheorems, FiniteSetTheorems, WellFoundedInduction, TLAPS

-----------------------------------------------------------------------------
(* The two stores.                                                         *)

\* A set of naturals has a least element.
LEMMA MinOfNat ==
  ASSUME NEW S \in SUBSET Nat, S # {}
  PROVE  Min(S) \in S /\ \A y \in S : Min(S) <= y
<1> DEFINE R == {ss \in Nat \X Nat : ss[1] < ss[2]}
<1>1. IsWellFoundedOn(R, Nat)
  BY NatLessThanWellFounded DEF OpToRel
<1>2. \A y, z \in Nat : y < z => <<y, z>> \in R
  OBVIOUS
<1> HIDE DEF R
<1>3. PICK x \in S : \A y \in S : ~(<<y, x>> \in R)
  BY <1>1, WFMin
<1>4. \A y \in S : x <= y
  <2> TAKE y \in S
  <2>1. x \in Nat /\ y \in Nat
    OBVIOUS
  <2>2. ~(y < x)
    BY <1>2, <1>3, <2>1
  <2> QED
    BY <2>1, <2>2
<1> QED
  BY <1>4 DEF Min

\* What is left of store s when its k oldest entries are dropped.
Dropped(t, s, k) == /\ k \in Nat /\ Len(t) = Len(s) - k
                    /\ \A i \in 1..Len(t) : t[i] = s[k + i]

\* The last part of a sequence, from m.
LEMMA SuffixDrops ==
  ASSUME NEW S, NEW s \in Seq(S), NEW m \in Nat, 1 <= m, m <= Len(s) + 1
  PROVE  SubSeq(s, m, Len(s)) \in Seq(S) /\ Dropped(SubSeq(s, m, Len(s)), s, m - 1)
<1>1. Len(s) \in Nat /\ \A i \in m..Len(s) : s[i] \in S
  BY LenProperties, ElementOfSeq
<1>2. /\ SubSeq(s, m, Len(s)) \in Seq(S)
      /\ Len(SubSeq(s, m, Len(s))) = IF m <= Len(s) THEN Len(s) - m + 1 ELSE 0
      /\ \A i \in 1..(Len(s) - m + 1) : SubSeq(s, m, Len(s))[i] = s[m + i - 1]
  BY <1>1, SubSeqProperties
<1>3. Len(SubSeq(s, m, Len(s))) = Len(s) - m + 1
  BY <1>1, <1>2
<1> QED
  BY <1>1, <1>2, <1>3 DEF Dropped

\* expire() drops from the front, and nothing that is alive.
LEMMA ExpireDrops ==
  ASSUME NEW S, NEW s \in Seq(S)
  PROVE  /\ Expire(s) \in Seq(S)
         /\ \E k \in 0..Len(s) : /\ Dropped(Expire(s), s, k)
                                 /\ \A i \in 1..k : ~Alive(s[i])
<1> DEFINE alive == {i \in DOMAIN s : Alive(s[i])}
<1>1. Len(s) \in Nat /\ DOMAIN s = 1..Len(s)
  BY LenProperties
<1>2. CASE alive = {}
  <2>1. Expire(s) = <<>>
    BY <1>2 DEF Expire
  <2>2. Dropped(<<>>, s, Len(s))
    BY <1>1, EmptySeq DEF Dropped
  <2> QED
    BY <1>1, <1>2, <2>1, <2>2, EmptySeq
<1>3. CASE alive # {}
  <2> DEFINE m == Min(alive)
  <2>1. alive \in SUBSET Nat
    BY <1>1
  <2>2. m \in alive /\ \A i \in alive : m <= i
    <3> HIDE DEF alive
    <3> QED
      BY <1>3, <2>1, MinOfNat
  <2>3. Expire(s) = SubSeq(s, m, Len(s))
    BY <1>3 DEF Expire
  <2> HIDE DEF m
  <2>4. m \in 1..Len(s)
    BY <1>1, <2>2
  <2>5. \A i \in 1..(m - 1) : ~Alive(s[i])
    <3> TAKE i \in 1..(m - 1)
    <3>1. i \in DOMAIN s /\ i < m
      BY <1>1, <2>4
    <3>2. i \notin alive
      BY <2>2, <2>4, <3>1
    <3> QED
      BY <3>1, <3>2
  <2>6. SubSeq(s, m, Len(s)) \in Seq(S) /\ Dropped(SubSeq(s, m, Len(s)), s, m - 1)
    BY <1>1, <2>4, SuffixDrops
  <2>7. m - 1 \in 0..Len(s)
    BY <1>1, <2>4
  <2> QED
    BY <2>3, <2>5, <2>6, <2>7
<1> QED
  BY <1>2, <1>3

\* The loop that makes room drops from the front, and only what is too much.
LEMMA EvictDrops ==
  ASSUME NEW S, NEW s \in Seq(S), NEW max \in Nat \ {0}
  PROVE  /\ Evict(s, max) \in Seq(S)
         /\ \E k \in 0..Len(s) : /\ Dropped(Evict(s, max), s, k)
                                 /\ k > 0 => k = Len(s) - max + 1
         /\ Len(Evict(s, max)) < max
<1> DEFINE m == Max({0, Len(s) - max + 1})
<1>1. Len(s) \in Nat
  BY LenProperties
<1>2. m = IF Len(s) - max + 1 >= 0 THEN Len(s) - max + 1 ELSE 0
  BY <1>1 DEF Max
<1>3. Evict(s, max) = SubSeq(s, 1 + m, Len(s))
  BY DEF Evict
<1>4. m \in 0..Len(s)
  BY <1>1, <1>2
<1>5. SubSeq(s, 1 + m, Len(s)) \in Seq(S) /\ Dropped(SubSeq(s, 1 + m, Len(s)), s, m)
  <2> HIDE DEF m
  <2>1. (1 + m) - 1 = m /\ 1 + m \in Nat
    BY <1>4
  <2> QED
    BY <1>1, <1>4, <2>1, SuffixDrops
<1>6. Len(Evict(s, max)) < max
  BY <1>1, <1>2, <1>3, <1>5 DEF Dropped
<1>7. m > 0 => m = Len(s) - max + 1
  BY <1>1, <1>2
<1> HIDE DEF m
<1> QED
  BY <1>3, <1>4, <1>5, <1>6, <1>7

\* A new entry comes last, after a store that has lost some of its oldest.
LEMMA IssuedDrops ==
  ASSUME NEW S, NEW s \in Seq(S), NEW max \in Nat \ {0}, NEW e \in S
  PROVE  \E t \in Seq(S), k \in 0..Len(s) :
           /\ Issued(s, max, e) = Append(t, e)
           /\ Dropped(t, s, k) /\ Len(t) < max
           /\ \A i \in 1..k : Alive(s[i]) => k = Len(s) - max + 1
<1> DEFINE u == Expire(s)  t == Evict(u, max)
<1>1. /\ u \in Seq(S)
      /\ \E k \in 0..Len(s) : Dropped(u, s, k) /\ \A i \in 1..k : ~Alive(s[i])
  BY ExpireDrops
<1>2. PICK k \in 0..Len(s) : Dropped(u, s, k) /\ \A i \in 1..k : ~Alive(s[i])
  BY <1>1
<1> HIDE DEF u
<1>3. /\ t \in Seq(S)
      /\ \E j \in 0..Len(u) : Dropped(t, u, j) /\ (j > 0 => j = Len(u) - max + 1)
      /\ Len(t) < max
  BY <1>1, EvictDrops
<1>4. PICK j \in 0..Len(u) : Dropped(t, u, j) /\ (j > 0 => j = Len(u) - max + 1)
  BY <1>3
<1> HIDE DEF t
<1>5. Len(s) \in Nat /\ Len(u) \in Nat /\ Len(t) \in Nat
  BY <1>1, <1>3, LenProperties
<1>6. k + j \in 0..Len(s) /\ Dropped(t, s, k + j)
  BY <1>2, <1>4, <1>5 DEF Dropped
<1>7. \A i \in 1..(k + j) : Alive(s[i]) => k + j = Len(s) - max + 1
  <2> TAKE i \in 1..(k + j)
  <2>1. CASE i \in 1..k
    BY <1>2, <2>1
  <2>2. CASE j > 0
    BY <1>2, <1>4, <1>5, <2>2 DEF Dropped
  <2> QED
    BY <1>2, <1>4, <1>5, <2>1, <2>2
<1>8. Issued(s, max, e) = Append(t, e)
  BY DEF Issued, t, u
<1> QED
  BY <1>3, <1>6, <1>7, <1>8

\* One entry is taken out and the others keep their order.
LEMMA RemovedAt ==
  ASSUME NEW S, NEW s \in Seq(S), NEW j \in 1..Len(s)
  PROVE  /\ RemoveAt(s, j) \in Seq(S)
         /\ Len(RemoveAt(s, j)) = Len(s) - 1
         /\ \A i \in 1..(Len(s) - 1) : RemoveAt(s, j)[i] = IF i < j THEN s[i] ELSE s[i + 1]
<1> DEFINE front == SubSeq(s, 1, j - 1)  back == SubSeq(s, j + 1, Len(s))
<1>1. Len(s) \in Nat /\ \A i \in 1..Len(s) : s[i] \in S
  BY LenProperties, ElementOfSeq
<1>2. /\ front \in Seq(S) /\ Len(front) = j - 1
      /\ \A i \in 1..(j - 1) : front[i] = s[i]
  <2>1. \A i \in 1..(j - 1) : s[i] \in S
    BY <1>1
  <2>2. /\ front \in Seq(S) /\ Len(front) = IF 1 <= j - 1 THEN j - 1 - 1 + 1 ELSE 0
        /\ \A i \in 1..(j - 1 - 1 + 1) : front[i] = s[1 + i - 1]
    BY <1>1, <2>1, SubSeqProperties
  <2> HIDE DEF front
  <2> QED
    BY <1>1, <2>2
<1>3. /\ back \in Seq(S) /\ Len(back) = Len(s) - j
      /\ \A i \in 1..(Len(s) - j) : back[i] = s[j + i]
  <2>1. \A i \in (j + 1)..Len(s) : s[i] \in S
    BY <1>1
  <2>2. /\ back \in Seq(S) /\ Len(back) = IF j + 1 <= Len(s) THEN Len(s) - (j + 1) + 1 ELSE 0
        /\ \A i \in 1..(Len(s) - (j + 1) + 1) : back[i] = s[j + 1 + i - 1]
    BY <1>1, <2>1, SubSeqProperties
  <2> HIDE DEF back
  <2> QED
    BY <1>1, <2>2
<1>4. RemoveAt(s, j) = front \o back
  BY DEF RemoveAt
<1> HIDE DEF front, back
<1>5. /\ front \o back \in Seq(S) /\ Len(front \o back) = Len(front) + Len(back)
      /\ \A i \in 1..(Len(front) + Len(back)) :
           (front \o back)[i] = IF i <= Len(front) THEN front[i] ELSE back[i - Len(front)]
  BY <1>2, <1>3, ConcatProperties
<1>6. \A i \in 1..(Len(s) - 1) : (front \o back)[i] = IF i < j THEN s[i] ELSE s[i + 1]
  <2> TAKE i \in 1..(Len(s) - 1)
  <2>1. CASE i < j
    BY <1>1, <1>2, <1>3, <1>5, <2>1
  <2>2. CASE ~(i < j)
    <3>1. (front \o back)[i] = back[i - (j - 1)]
      BY <1>1, <1>2, <1>3, <1>5, <2>2
    <3>2. i - (j - 1) \in 1..(Len(s) - j) /\ j + (i - (j - 1)) = i + 1
      BY <1>1, <2>2
    <3> QED
      BY <1>3, <2>2, <3>1, <3>2
  <2> QED
    BY <2>1, <2>2
<1> QED
  BY <1>1, <1>2, <1>3, <1>4, <1>5, <1>6

-----------------------------------------------------------------------------
(* The inductive invariant.                                                *)

Signer == Key \cup Wallet

\* The registry, and the text of every login, keep their types.
RegistryInv ==
  /\ keys \in [Key -> Rows \cup {None}]
  /\ wallets \in [Account -> Wallet \cup {None, "absent"}]
  /\ enrolling \subseteq [key: Key, account: Account, name: Name]

AskedInv ==
  /\ now \in Nat
  /\ asked \in Seq([who: Signer, at: Nat])
  /\ \A n \in DOMAIN asked : asked[n].at <= now
  /\ Len(asked) <= MaxNonces

\* An entry of the challenge store is a challenge that was asked for, still
\* unspent, given what was asked and granted.
Outstanding(e, q, g) ==
  /\ e.nonce \in DOMAIN q
  /\ e.who = q[e.nonce].who
  /\ e.exp = q[e.nonce].at + ChallengeTtl
  /\ \A n \in DOMAIN g : g[n].msg.nonce # e.nonce

ChallengeInv ==
  /\ challenges \in Seq([nonce: Nat, who: Signer, exp: Nat])
  /\ Len(challenges) <= MaxOutstanding
  /\ \A i \in DOMAIN challenges : Outstanding(challenges[i], asked, grants)
  /\ \A i, j \in DOMAIN challenges : challenges[i].nonce = challenges[j].nonce => i = j

\* A grant g rests on its challenge, and a rig's on its enrolment k.
Proven(g, q, k) ==
  /\ g.msg.nonce \in DOMAIN q /\ g.msg.valid
  /\ q[g.msg.nonce].who = g.msg.who
  /\ g.at - q[g.msg.nonce].at \in 0..(ChallengeTtl - 1)
  /\ g.msg.kind = "attest" => /\ g.msg.who \in Key
                              /\ k[g.msg.who] \in Rows /\ k[g.msg.who] # None
                              /\ k[g.msg.who].username = g.msg.account

GrantInv ==
  /\ grants \in Seq([msg: Message, at: Nat, used: Nat])
  /\ \A n \in DOMAIN grants : Proven(grants[n], asked, keys) /\ grants[n].used <= now
  /\ NonceSpentOnce

\* Token n, and a session that logged in with it, are the rig's.
Stands(n, row, g, k) ==
  /\ n \in DOMAIN g /\ g[n].msg.kind = "attest"
  /\ row = k[g[n].msg.who]

\* The order of the token store is the order of expiry.
TokenInv ==
  /\ tokens \in Seq([id: Nat, row: Rows, exp: Nat])
  /\ Len(tokens) <= MaxSessions
  /\ \A i \in DOMAIN tokens : /\ Stands(tokens[i].id, tokens[i].row, grants, keys)
                              /\ tokens[i].exp = grants[tokens[i].id].used + TokenTtl
  /\ \A i, j \in DOMAIN tokens : tokens[i].id = tokens[j].id => i = j
  /\ \A i, j \in DOMAIN tokens : i <= j => tokens[i].exp <= tokens[j].exp

ConnInv ==
  /\ \A l \in DOMAIN cache : cache[l] \in Rows
  /\ conns \in [Conn -> [id: Rows, via: Nat] \cup {None}]
  /\ \A c \in Conn : conns[c] # None /\ conns[c].via # 0 =>
       Stands(conns[c].via, conns[c].id, grants, keys)

IInv == RegistryInv /\ AskedInv /\ ChallengeInv /\ GrantInv /\ TokenInv /\ ConnInv

LEMMA InitIInv == Init => IInv
<1> SUFFICES ASSUME Init
             PROVE  IInv
  OBVIOUS
<1> USE ControlAssumption DEF Init
<1>1. RegistryInv
  BY DEF RegistryInv
<1>2. AskedInv
  BY DEF AskedInv
<1>3. ChallengeInv
  BY DEF ChallengeInv
<1>4. GrantInv
  BY DEF GrantInv, NonceSpentOnce
<1>5. TokenInv
  BY DEF TokenInv
<1>6. ConnInv
  BY DEF ConnInv
<1> QED
  BY <1>1, <1>2, <1>3, <1>4, <1>5, <1>6 DEF IInv


-----------------------------------------------------------------------------
(* Each action preserves it.                                               *)

LEMMA Bounds ==
  /\ ChallengeTtl \in Nat \ {0} /\ MaxOutstanding \in Nat \ {0}
  /\ TokenTtl \in Nat \ {0} /\ MaxSessions \in Nat \ {0}
  /\ MaxAge \in Nat /\ MaxNonces \in Nat /\ MaxTime \in Nat
BY ControlAssumption

\* What Append does, with the elements there were and the new one told apart.
LEMMA Appended ==
  ASSUME NEW S, NEW s \in Seq(S), NEW e \in S
  PROVE  /\ Append(s, e) \in Seq(S)
         /\ Len(s) \in Nat /\ DOMAIN s = 1..Len(s)
         /\ Len(Append(s, e)) = Len(s) + 1
         /\ DOMAIN Append(s, e) = 1..(Len(s) + 1)
         /\ \A i \in 1..Len(s) : Append(s, e)[i] = s[i]
         /\ Append(s, e)[Len(s) + 1] = e
BY AppendProperties, LenProperties

\* A challenge more changes nothing of those there were.
More(q, r) == \A n \in DOMAIN q : n \in DOMAIN r /\ r[n] = q[n]

LEMMA OutstandingKept ==
  ASSUME NEW e, NEW q, NEW r, NEW g, More(q, r), Outstanding(e, q, g)
  PROVE  Outstanding(e, r, g)
BY DEF More, Outstanding

\* Keys that are enrolled stay as they are.
Enrolled(k, l) == \A x \in Key : k[x] # None => l[x] = k[x]

LEMMA ProvenKept ==
  ASSUME NEW g, NEW q, NEW r, NEW k, NEW l, More(q, r), Enrolled(k, l), Proven(g, q, k)
  PROVE  Proven(g, r, l)
BY DEF More, Enrolled, Proven

\* A new challenge: its nonce is in no entry and no grant.
LEMMA ChallengeAskedInv ==
  ASSUME IInv, NEW who \in Signer, Challenge(who)
  PROVE  /\ AskedInv' /\ More(asked, asked')
         /\ DOMAIN asked = 1..Len(asked)
         /\ Len(asked) \in Nat
         /\ Len(asked) + 1 \in DOMAIN asked'
         /\ asked'[Len(asked) + 1] = [who |-> who, at |-> now]
<1> DEFINE Q == [who: Signer, at: Nat]
<1>1. now \in Nat /\ asked \in Seq(Q) /\ \A k \in DOMAIN asked : asked[k].at <= now
  BY DEF IInv, AskedInv
<1>2. PICK q \in Q : q = [who |-> who, at |-> now]
  BY <1>1
<1>3. asked' = Append(asked, q) /\ Len(asked) + 1 <= MaxNonces /\ now' = now
  BY <1>2 DEF Challenge
<1>4. q.at = now
  BY <1>2
<1> HIDE DEF Q
<1>5. /\ asked' \in Seq(Q) /\ Len(asked') = Len(asked) + 1
      /\ Len(asked) \in Nat /\ DOMAIN asked = 1..Len(asked)
      /\ DOMAIN asked' = 1..(Len(asked) + 1)
      /\ \A i \in 1..Len(asked) : asked'[i] = asked[i]
      /\ asked'[Len(asked) + 1] = q
  BY <1>1, <1>3, Appended
<1>6. \A k \in DOMAIN asked' : asked'[k].at <= now
  <2> TAKE k \in DOMAIN asked'
  <2>1. k \in 1..Len(asked) \/ k = Len(asked) + 1
    BY <1>5
  <2> QED
    BY <1>1, <1>4, <1>5, <2>1
<1>7. AskedInv'
  BY <1>1, <1>3, <1>5, <1>6 DEF AskedInv, Q
<1> QED
  BY <1>2, <1>5, <1>7 DEF More

LEMMA ChallengeIInv ==
  ASSUME IInv, NEW who \in Signer, Challenge(who)
  PROVE  IInv'
<1> DEFINE Entry == [nonce: Nat, who: Signer, exp: Nat]
<1> USE Bounds
<1>1. /\ AskedInv' /\ More(asked, asked')
      /\ DOMAIN asked = 1..Len(asked) /\ Len(asked) \in Nat
      /\ Len(asked) + 1 \in DOMAIN asked'
      /\ asked'[Len(asked) + 1] = [who |-> who, at |-> now]
  BY ChallengeAskedInv
<1>2. UNCHANGED <<tokens, keys, wallets, enrolling, cache, conns, grants, now>>
  BY DEF Challenge, db
<1>3. PICK e \in Entry :
         e = [nonce |-> Len(asked) + 1, who |-> who, exp |-> now + ChallengeTtl]
  <2>1. now \in Nat /\ ChallengeTtl \in Nat
    BY DEF IInv, AskedInv
  <2>2. [nonce |-> Len(asked) + 1, who |-> who, exp |-> now + ChallengeTtl] \in Entry
    BY <1>1, <2>1
  <2> QED
    BY <2>2
<1>4. /\ challenges' = Issued(challenges, MaxOutstanding, e)
      /\ challenges \in Seq(Entry)
  BY <1>3 DEF Challenge, IInv, ChallengeInv
<1> HIDE DEF Entry
<1>5. PICK t \in Seq(Entry), k \in 0..Len(challenges) :
         /\ Issued(challenges, MaxOutstanding, e) = Append(t, e)
         /\ Dropped(t, challenges, k) /\ Len(t) < MaxOutstanding
  BY <1>4, IssuedDrops
<1>6. /\ challenges' \in Seq(Entry) /\ Len(t) \in Nat
      /\ Len(challenges') = Len(t) + 1
      /\ DOMAIN challenges' = 1..(Len(t) + 1)
      /\ \A i \in 1..Len(t) : challenges'[i] = t[i]
      /\ challenges'[Len(t) + 1] = e
  BY <1>4, <1>5, Appended
<1>7. /\ k \in Nat /\ DOMAIN challenges = 1..Len(challenges)
      /\ \A i \in 1..Len(t) : k + i \in DOMAIN challenges /\ t[i] = challenges[k + i]
  BY <1>4, <1>5, <1>6, LenProperties DEF Dropped
<1>8. \A i \in DOMAIN challenges : Outstanding(challenges[i], asked, grants)
  BY DEF IInv, ChallengeInv
<1>9. \A n \in DOMAIN grants : Proven(grants[n], asked, keys)
  BY DEF IInv, GrantInv
<1>10. GrantInv'
  <2>1. Enrolled(keys, keys)
    BY DEF Enrolled
  <2>2. \A n \in DOMAIN grants : Proven(grants[n], asked', keys)
    BY <1>1, <1>9, <2>1, ProvenKept
  <2> QED
    BY <1>2, <2>2 DEF IInv, GrantInv, NonceSpentOnce
<1>11. Outstanding(e, asked', grants)
  <2>1. \A n \in DOMAIN grants : grants[n].msg.nonce # Len(asked) + 1
    BY <1>1, <1>9 DEF Proven
  <2>2. e.nonce = Len(asked) + 1 /\ e.who = who /\ e.exp = now + ChallengeTtl
    BY <1>3
  <2> QED
    BY <1>1, <2>1, <2>2 DEF Outstanding
<1>12. \A i \in DOMAIN challenges' : Outstanding(challenges'[i], asked', grants)
  <2>1. \A i \in 1..Len(t) : Outstanding(t[i], asked', grants)
    BY <1>1, <1>7, <1>8, OutstandingKept
  <2> TAKE i \in DOMAIN challenges'
  <2>2. i \in 1..Len(t) \/ i = Len(t) + 1
    BY <1>6
  <2> QED
    BY <1>6, <1>11, <2>1, <2>2
<1>13. \A i, j \in DOMAIN challenges' : challenges'[i].nonce = challenges'[j].nonce => i = j
  <2>1. \A i \in 1..Len(t) : t[i].nonce # e.nonce
    BY <1>1, <1>3, <1>7, <1>8 DEF Outstanding
  <2>2. \A i, j \in DOMAIN challenges : challenges[i].nonce = challenges[j].nonce => i = j
    BY DEF IInv, ChallengeInv
  <2>3. ASSUME NEW i \in 1..Len(t), NEW j \in 1..Len(t), t[i].nonce = t[j].nonce
        PROVE  i = j
    <3>1. /\ k + i \in DOMAIN challenges /\ k + j \in DOMAIN challenges
          /\ challenges[k + i].nonce = challenges[k + j].nonce
      BY <1>7, <2>3
    <3>2. k + i = k + j
      BY <2>2, <3>1
    <3> QED
      BY <1>6, <1>7, <3>2
  <2> TAKE i, j \in DOMAIN challenges'
  <2>4. (i \in 1..Len(t) \/ i = Len(t) + 1) /\ (j \in 1..Len(t) \/ j = Len(t) + 1)
    BY <1>6
  <2> QED
    BY <1>6, <2>1, <2>3, <2>4
<1>14. ChallengeInv'
  <2>1. Len(challenges') <= MaxOutstanding
    BY <1>5, <1>6
  <2> QED
    BY <1>2, <1>6, <1>12, <1>13, <2>1 DEF ChallengeInv, Entry
<1>15. RegistryInv' /\ TokenInv' /\ ConnInv'
  BY <1>2 DEF IInv, RegistryInv, TokenInv, ConnInv
<1> QED
  BY <1>1, <1>10, <1>14, <1>15 DEF IInv

\* A rig that stands for itself goes on to, whatever is enrolled besides.
LEMMA StandsKept ==
  ASSUME NEW n, NEW row, NEW g, NEW q, NEW k, NEW l,
         Stands(n, row, g, k), Proven(g[n], q, k), Enrolled(k, l)
  PROVE  Stands(n, row, g, l)
BY DEF Stands, Proven, Enrolled

\* The operator's commands.
LEMMA RegistryStep ==
  ASSUME IInv, RegistryInv', Enrolled(keys, keys'),
         UNCHANGED <<challenges, tokens, cache, conns, asked, grants, now>>
  PROVE  IInv'
<1>1. \A n \in DOMAIN grants : Proven(grants[n], asked, keys)
  BY DEF IInv, GrantInv
<1>2. GrantInv'
  <2>1. More(asked, asked)
    BY DEF More
  <2>2. \A n \in DOMAIN grants : Proven(grants[n], asked, keys')
    BY <1>1, <2>1, ProvenKept
  <2> QED
    BY <2>2 DEF IInv, GrantInv, NonceSpentOnce
<1>3. \A n, row : Stands(n, row, grants, keys) => Stands(n, row, grants, keys')
  <2> TAKE n, row
  <2> HAVE Stands(n, row, grants, keys)
  <2>1. Proven(grants[n], asked, keys)
    BY <1>1 DEF Stands
  <2> QED
    BY <2>1, StandsKept
<1>4. TokenInv'
  BY <1>3 DEF IInv, TokenInv
<1>5. ConnInv'
  BY <1>3 DEF IInv, ConnInv
<1>6. AskedInv' /\ ChallengeInv'
  BY DEF IInv, AskedInv, ChallengeInv
<1> QED
  BY <1>2, <1>4, <1>5, <1>6 DEF IInv

LEMMA CreateAccountIInv ==
  ASSUME IInv, NEW a \in Account, CreateAccount(a)
  PROVE  IInv'
<1>1. RegistryInv'
  BY DEF IInv, RegistryInv, CreateAccount
<1>2. Enrolled(keys, keys')
  BY DEF CreateAccount, Enrolled
<1> QED
  BY <1>1, <1>2, RegistryStep DEF CreateAccount

LEMMA EnrollLookIInv ==
  ASSUME IInv, NEW k \in Key, NEW a \in Account, NEW name \in Name, EnrollLook(k, a, name)
  PROVE  IInv'
<1>1. RegistryInv'
  BY DEF IInv, RegistryInv, EnrollLook
<1>2. Enrolled(keys, keys')
  BY DEF EnrollLook, Enrolled
<1> QED
  BY <1>1, <1>2, RegistryStep DEF EnrollLook

\* A key that another command enrolled meanwhile keeps its row.
LEMMA EnrollInsertIInv ==
  ASSUME IInv, NEW e \in enrolling, EnrollInsert(e)
  PROVE  IInv'
<1>1. e \in [key: Key, account: Account, name: Name]
  BY DEF IInv, RegistryInv
<1>2. Row(e.account, e.name) \in Rows
  BY <1>1, ControlAssumption DEF Row, Rows
<1>3. RegistryInv'
  BY <1>1, <1>2 DEF IInv, RegistryInv, EnrollInsert, Insertable
<1>4. Enrolled(keys, keys')
  BY <1>1 DEF IInv, RegistryInv, EnrollInsert, Insertable, Enrolled
<1> QED
  BY <1>3, <1>4, RegistryStep DEF EnrollInsert

-----------------------------------------------------------------------------
(* Messages.                                                               *)

\* What consume() leaves: entries there were, and not the one that was named.
LEMMA SpentLeaves ==
  ASSUME IInv, NEW m
  PROVE  /\ Spent(m) \in Seq([nonce: Nat, who: Signer, exp: Nat])
         /\ Len(Spent(m)) <= MaxOutstanding
         /\ \A i \in DOMAIN Spent(m) : /\ Spent(m)[i].nonce # m.nonce
                                       /\ Outstanding(Spent(m)[i], asked, grants)
         /\ \A i, j \in DOMAIN Spent(m) : Spent(m)[i].nonce = Spent(m)[j].nonce => i = j
<1> DEFINE Entry == [nonce: Nat, who: Signer, exp: Nat]
           at == {i \in DOMAIN challenges : challenges[i].nonce = m.nonce}
<1>1. /\ challenges \in Seq(Entry) /\ Len(challenges) <= MaxOutstanding
      /\ \A i \in DOMAIN challenges : Outstanding(challenges[i], asked, grants)
      /\ \A i, j \in DOMAIN challenges : challenges[i].nonce = challenges[j].nonce => i = j
  BY DEF IInv, ChallengeInv
<1>2. CASE at = {}
  <2>1. Spent(m) = challenges
    BY <1>2 DEF Spent
  <2> QED
    BY <1>1, <1>2, <2>1
<1>3. CASE at # {}
  <2>1. PICK k \in at : Spent(m) = RemoveAt(challenges, k)
    BY <1>3 DEF Spent
  <2>2. k \in 1..Len(challenges) /\ Len(challenges) \in Nat /\ challenges[k].nonce = m.nonce
        /\ DOMAIN challenges = 1..Len(challenges)
    BY <1>1, LenProperties
  <2> HIDE DEF Entry, at
  <2>3. /\ Spent(m) \in Seq(Entry) /\ Len(Spent(m)) = Len(challenges) - 1
        /\ \A i \in 1..(Len(challenges) - 1) :
             Spent(m)[i] = IF i < k THEN challenges[i] ELSE challenges[i + 1]
    <3>1. challenges \in Seq(Entry) /\ k \in 1..Len(challenges)
      BY <1>1, <2>2
    <3>2. /\ RemoveAt(challenges, k) \in Seq(Entry)
          /\ Len(RemoveAt(challenges, k)) = Len(challenges) - 1
          /\ \A i \in 1..(Len(challenges) - 1) :
               RemoveAt(challenges, k)[i] = IF i < k THEN challenges[i] ELSE challenges[i + 1]
      BY <3>1, RemovedAt
    <3> QED
      BY <2>1, <3>2
  <2>4. DOMAIN Spent(m) = 1..(Len(challenges) - 1)
    BY <2>3, LenProperties
  <2>5. ASSUME NEW i \in DOMAIN Spent(m)
        PROVE  \E j \in 1..Len(challenges) :
                 j # k /\ Spent(m)[i] = challenges[j] /\ j = IF i < k THEN i ELSE i + 1
    BY <2>2, <2>3, <2>4
  <2>6. \A i \in DOMAIN Spent(m) : /\ Spent(m)[i].nonce # m.nonce
                                   /\ Outstanding(Spent(m)[i], asked, grants)
    BY <1>1, <2>2, <2>5
  <2>7. ASSUME NEW i \in DOMAIN Spent(m), NEW j \in DOMAIN Spent(m),
               Spent(m)[i].nonce = Spent(m)[j].nonce
        PROVE  i = j
    <3>1. PICK x \in 1..Len(challenges) :
             Spent(m)[i] = challenges[x] /\ x = IF i < k THEN i ELSE i + 1
      BY <2>5
    <3>2. PICK y \in 1..Len(challenges) :
             Spent(m)[j] = challenges[y] /\ y = IF j < k THEN j ELSE j + 1
      BY <2>5
    <3>3. x = y
      BY <1>1, <2>2, <2>7, <3>1, <3>2
    <3> QED
      BY <2>2, <2>4, <3>1, <3>2, <3>3
  <2>8. Len(Spent(m)) <= MaxOutstanding
    BY <1>1, <2>2, <2>3, Bounds
  <2> QED
    BY <2>3, <2>6, <2>7, <2>8 DEF Entry
<1> QED
  BY <1>2, <1>3

\* A message whose signature holds is of the kind and the signers asked for.
LEMMA SignedMessage ==
  ASSUME IInv, NEW kind \in {"attest", "bind"}, NEW signers \in SUBSET Signer,
         NEW n \in DOMAIN asked, NEW m \in Signed(kind, signers, n), m.valid
  PROVE  m \in Message /\ m.kind = kind /\ m.who \in signers
<1>1. /\ now \in Nat /\ asked[n].at \in Nat /\ n \in 1..MaxNonces
  <2>1. /\ now \in Nat /\ asked \in Seq([who: Signer, at: Nat]) /\ Len(asked) <= MaxNonces
    BY DEF IInv, AskedInv
  <2>2. n \in 1..Len(asked) /\ asked[n] \in [who: Signer, at: Nat] /\ Len(asked) \in Nat
    BY <2>1, LenProperties, ElementOfSeq
  <2> QED
    BY <2>1, <2>2, Bounds
<1>2. PICK who \in signers, a \in Account, t \in asked[n].at..now, drift \in Drift :
         m = [kind |-> kind, nonce |-> n, who |-> who, account |-> a,
              at |-> t + drift, valid |-> TRUE]
  BY DEF Signed
<1>3. t + drift \in Int
  BY <1>1, ControlAssumption
<1> QED
  BY <1>1, <1>2, <1>3 DEF Message, Signer

\* Without a grant, consume() is all there is.
LEMMA SpentStep ==
  ASSUME IInv, NEW m, challenges' = Spent(m), UNCHANGED <<asked, grants>>
  PROVE  ChallengeInv'
BY SpentLeaves DEF ChallengeInv

\* What the challenge says of a message that is granted.
LEMMA ConsumableAsked ==
  ASSUME IInv, NEW m, Consumable(m)
  PROVE  /\ m.nonce \in DOMAIN asked /\ asked[m.nonce].who = m.who
         /\ now - asked[m.nonce].at \in 0..(ChallengeTtl - 1)
         /\ \A n \in DOMAIN grants : grants[n].msg.nonce # m.nonce
<1>1. PICK i \in DOMAIN challenges :
         challenges[i].nonce = m.nonce /\ challenges[i].exp > now /\ challenges[i].who = m.who
  BY DEF Consumable, Alive
<1>2. Outstanding(challenges[i], asked, grants)
  BY DEF IInv, ChallengeInv
<1>3. /\ m.nonce \in DOMAIN asked /\ asked[m.nonce].who = m.who
      /\ asked[m.nonce].at + ChallengeTtl > now
      /\ \A n \in DOMAIN grants : grants[n].msg.nonce # m.nonce
  BY <1>1, <1>2 DEF Outstanding
<1>4. now \in Nat /\ asked[m.nonce].at \in Nat /\ asked[m.nonce].at <= now
  <2>1. now \in Nat /\ asked \in Seq([who: Signer, at: Nat])
    BY DEF IInv, AskedInv
  <2>2. asked[m.nonce] \in [who: Signer, at: Nat]
    BY <1>3, <2>1, ElementOfSeq, LenProperties
  <2> QED
    BY <1>3, <2>1, <2>2 DEF IInv, AskedInv
<1> QED
  BY <1>3, <1>4, Bounds

\* A grant is appended, its challenge is gone.
LEMMA GrantStep ==
  ASSUME IInv, NEW m \in Message, Consumable(m), m.valid,
         m.kind = "attest" => m.who \in Key /\ EnrolledAsClaimed(m),
         challenges' = Spent(m), grants' = Grant(m), UNCHANGED <<keys, asked, now>>
  PROVE  /\ ChallengeInv' /\ GrantInv'
         /\ Len(grants) \in Nat /\ DOMAIN grants = 1..Len(grants)
         /\ DOMAIN grants' = 1..(Len(grants) + 1)
         /\ \A n \in DOMAIN grants : grants'[n] = grants[n]
         /\ grants'[Len(grants) + 1] = [msg |-> m, at |-> now, used |-> now]
<1> DEFINE G == [msg: Message, at: Nat, used: Nat]
<1>1. /\ m.nonce \in DOMAIN asked /\ asked[m.nonce].who = m.who
      /\ now - asked[m.nonce].at \in 0..(ChallengeTtl - 1)
      /\ \A n \in DOMAIN grants : grants[n].msg.nonce # m.nonce
  BY ConsumableAsked
<1>2. now \in Nat /\ grants \in Seq(G) /\ NonceSpentOnce
      /\ \A n \in DOMAIN grants : Proven(grants[n], asked, keys) /\ grants[n].used <= now
  BY DEF IInv, AskedInv, GrantInv
<1>3. PICK g \in G : g = [msg |-> m, at |-> now, used |-> now]
  BY <1>2
<1>4. g.msg = m /\ g.at = now /\ g.used = now
  BY <1>3
<1>5. grants' = Append(grants, g)
  BY <1>3 DEF Grant
<1> HIDE DEF G
<1>6. /\ grants' \in Seq(G) /\ Len(grants) \in Nat /\ DOMAIN grants = 1..Len(grants)
      /\ DOMAIN grants' = 1..(Len(grants) + 1)
      /\ \A n \in 1..Len(grants) : grants'[n] = grants[n]
      /\ grants'[Len(grants) + 1] = g
  BY <1>2, <1>5, Appended
<1>7. ASSUME NEW n \in DOMAIN grants'
      PROVE  n \in DOMAIN grants \/ n = Len(grants) + 1
  BY <1>6
<1>8. Proven(g, asked, keys)
  <2>1. m.kind = "attest" => /\ m.who \in Key /\ keys[m.who] \in Rows /\ keys[m.who] # None
                             /\ keys[m.who].username = m.account
    BY DEF EnrolledAsClaimed, IInv, RegistryInv
  <2> QED
    BY <1>1, <1>4, <2>1 DEF Proven
<1>9. \A n \in DOMAIN grants' : Proven(grants'[n], asked, keys) /\ grants'[n].used <= now
  BY <1>2, <1>4, <1>6, <1>7, <1>8
<1>10. \A i, j \in DOMAIN grants' : grants'[i].msg.nonce = grants'[j].msg.nonce => i = j
  BY <1>1, <1>2, <1>4, <1>6, <1>7 DEF NonceSpentOnce
<1>11. GrantInv'
  BY <1>6, <1>9, <1>10 DEF GrantInv, G, NonceSpentOnce
<1>12. \A i \in DOMAIN Spent(m) : Outstanding(Spent(m)[i], asked, grants')
  <2> TAKE i \in DOMAIN Spent(m)
  <2>1. Spent(m)[i].nonce # m.nonce /\ Outstanding(Spent(m)[i], asked, grants)
    BY SpentLeaves
  <2>2. \A n \in DOMAIN grants' : grants'[n].msg.nonce # Spent(m)[i].nonce
    BY <1>4, <1>6, <1>7, <2>1 DEF Outstanding
  <2> QED
    BY <2>1, <2>2 DEF Outstanding
<1>13. ChallengeInv'
  BY <1>12, SpentLeaves DEF ChallengeInv
<1> QED
  BY <1>3, <1>6, <1>11, <1>13

\* Whoever stands for a grant goes on to, when grants are added or used.
LEMMA StandsLater ==
  ASSUME NEW n, NEW row, NEW g, NEW h, NEW k, Stands(n, row, g, k),
         \A i \in DOMAIN g : i \in DOMAIN h /\ h[i].msg = g[i].msg
  PROVE  Stands(n, row, h, k)
BY DEF Stands

LEMMA BindWalletIInv ==
  ASSUME IInv, NEW n \in DOMAIN asked, NEW m \in Signed("bind", Wallet, n), BindWallet(m)
  PROVE  IInv'
<1>1. UNCHANGED <<tokens, keys, enrolling, cache, conns, asked, now>> /\ challenges' = Spent(m)
  BY DEF BindWallet
<1>2. AskedInv'
  BY <1>1 DEF IInv, AskedInv
<1>3. CASE UNCHANGED <<grants, wallets>>
  <2>1. ChallengeInv'
    BY <1>1, <1>3, SpentStep
  <2>2. RegistryInv' /\ GrantInv' /\ TokenInv' /\ ConnInv'
    BY <1>1, <1>3 DEF IInv, RegistryInv, GrantInv, NonceSpentOnce, TokenInv, ConnInv
  <2> QED
    BY <1>2, <2>1, <2>2 DEF IInv
<1>4. CASE /\ Consumable(m) /\ m.valid /\ grants' = Grant(m)
           /\ wallets' = [wallets EXCEPT ![m.account] = m.who]
  <2>1. m \in Message /\ m.kind = "bind" /\ m.who \in Wallet
    BY <1>4, SignedMessage DEF Signer
  <2>2. /\ ChallengeInv' /\ GrantInv'
        /\ DOMAIN grants = 1..Len(grants) /\ DOMAIN grants' = 1..(Len(grants) + 1)
        /\ Len(grants) \in Nat
        /\ \A i \in DOMAIN grants : grants'[i] = grants[i]
    BY <1>1, <1>4, <2>1, GrantStep
  <2>3. RegistryInv'
    BY <1>1, <1>4, <2>1 DEF IInv, RegistryInv
  <2>4. \A i \in DOMAIN grants : i \in DOMAIN grants' /\ grants'[i] = grants[i]
    BY <2>2
  <2>5. \A i, row : Stands(i, row, grants, keys) => Stands(i, row, grants', keys)
    BY <2>4, StandsLater
  <2>6. TokenInv'
    <3>1. \A i \in DOMAIN tokens :
             /\ Stands(tokens[i].id, tokens[i].row, grants', keys)
             /\ tokens[i].exp = grants'[tokens[i].id].used + TokenTtl
      BY <2>4, <2>5 DEF IInv, TokenInv, Stands
    <3> QED
      BY <1>1, <3>1 DEF IInv, TokenInv
  <2>7. ConnInv'
    BY <1>1, <2>5 DEF IInv, ConnInv
  <2> QED
    BY <1>2, <2>2, <2>3, <2>6, <2>7 DEF IInv
<1> QED
  BY <1>3, <1>4 DEF BindWallet

\* Grants are grants.
LEMMA GrantTyped ==
  ASSUME IInv, NEW n \in DOMAIN grants
  PROVE  grants[n] \in [msg: Message, at: Nat, used: Nat]
<1> DEFINE G == [msg: Message, at: Nat, used: Nat]
<1>1. grants \in Seq(G)
  BY DEF IInv, GrantInv
<1> HIDE DEF G
<1>2. n \in 1..Len(grants)
  BY <1>1, LenProperties
<1>3. grants[n] \in G
  BY <1>1, <1>2, ElementOfSeq
<1> QED
  BY <1>3 DEF G

\* A token more: the newest expires last.
LEMMA TokenIssued ==
  ASSUME IInv, NEW e \in [id: Nat, row: Rows, exp: Nat], NEW g,
         \A i \in DOMAIN grants : i \in DOMAIN g /\ g[i] = grants[i],
         e.id \notin DOMAIN grants, Stands(e.id, e.row, g, keys),
         e.exp = now + TokenTtl, g[e.id].used = now,
         tokens' = Issued(tokens, MaxSessions, e), grants' = g, keys' = keys
  PROVE  TokenInv'
<1> DEFINE Token == [id: Nat, row: Rows, exp: Nat]
<1>1. /\ tokens \in Seq(Token)
      /\ \A i \in DOMAIN tokens : /\ Stands(tokens[i].id, tokens[i].row, grants, keys)
                                  /\ tokens[i].exp = grants[tokens[i].id].used + TokenTtl
      /\ \A i, j \in DOMAIN tokens : tokens[i].id = tokens[j].id => i = j
      /\ \A i, j \in DOMAIN tokens : i <= j => tokens[i].exp <= tokens[j].exp
  BY DEF IInv, TokenInv
<1>2. now \in Nat /\ TokenTtl \in Nat /\ MaxSessions \in Nat \ {0} /\ e \in Token
  BY Bounds DEF IInv, AskedInv
<1> HIDE DEF Token
<1>3. PICK t \in Seq(Token), k \in 0..Len(tokens) :
         /\ Issued(tokens, MaxSessions, e) = Append(t, e)
         /\ Dropped(t, tokens, k) /\ Len(t) < MaxSessions
  BY <1>1, <1>2, IssuedDrops
<1>4. /\ tokens' \in Seq(Token) /\ Len(t) \in Nat
      /\ Len(tokens') = Len(t) + 1
      /\ DOMAIN tokens' = 1..(Len(t) + 1)
      /\ \A i \in 1..Len(t) : tokens'[i] = t[i]
      /\ tokens'[Len(t) + 1] = e
  BY <1>2, <1>3, Appended
<1>5. /\ k \in Nat
      /\ \A i \in 1..Len(t) : k + i \in DOMAIN tokens /\ t[i] = tokens[k + i]
  BY <1>1, <1>3, <1>4, LenProperties DEF Dropped
<1>6. ASSUME NEW i \in DOMAIN tokens'
      PROVE  i \in 1..Len(t) \/ i = Len(t) + 1
  BY <1>4
<1>7. ASSUME NEW i \in DOMAIN tokens
      PROVE  /\ Stands(tokens[i].id, tokens[i].row, g, keys)
             /\ tokens[i].exp = g[tokens[i].id].used + TokenTtl
             /\ tokens[i].id # e.id
             /\ tokens[i].exp <= now + TokenTtl
  <2>1. Stands(tokens[i].id, tokens[i].row, grants, keys) /\ tokens[i].id \in DOMAIN grants
    BY <1>1 DEF Stands
  <2>2. grants[tokens[i].id].used <= now /\ grants[tokens[i].id].used \in Nat
    BY <2>1, GrantTyped DEF IInv, GrantInv
  <2> QED
    BY <1>1, <1>2, <2>1, <2>2, StandsLater
<1>8. \A i \in DOMAIN tokens' : /\ Stands(tokens'[i].id, tokens'[i].row, g, keys)
                                /\ tokens'[i].exp = g[tokens'[i].id].used + TokenTtl
  BY <1>4, <1>5, <1>6, <1>7
<1>9. \A i, j \in DOMAIN tokens' : tokens'[i].id = tokens'[j].id => i = j
  <2>1. ASSUME NEW i \in 1..Len(t), NEW j \in 1..Len(t), t[i].id = t[j].id
        PROVE  i = j
    <3>1. /\ k + i \in DOMAIN tokens /\ t[i] = tokens[k + i]
          /\ k + j \in DOMAIN tokens /\ t[j] = tokens[k + j]
      BY <1>5
    <3>2. \A x, y \in DOMAIN tokens : tokens[x].id = tokens[y].id => x = y
      BY <1>1
    <3>3. k + i = k + j
      BY <2>1, <3>1, <3>2
    <3>4. i \in Nat /\ j \in Nat /\ k \in Nat
      BY <1>4, <1>5
    <3> QED
      BY ONLY <3>3, <3>4
  <2>2. \A i \in 1..Len(t) : t[i].id # e.id
    BY <1>5, <1>7
  <2> QED
    BY <1>4, <1>6, <2>1, <2>2
<1>10. \A i, j \in DOMAIN tokens' : i <= j => tokens'[i].exp <= tokens'[j].exp
  <2>1. ASSUME NEW i \in 1..Len(t), NEW j \in 1..Len(t), i <= j
        PROVE  t[i].exp <= t[j].exp
    <3>1. k + i <= k + j
      BY <1>4, <1>5, <2>1
    <3>2. /\ k + i \in DOMAIN tokens /\ t[i] = tokens[k + i]
          /\ k + j \in DOMAIN tokens /\ t[j] = tokens[k + j]
      BY <1>5
    <3>3. \A x, y \in DOMAIN tokens : x <= y => tokens[x].exp <= tokens[y].exp
      BY <1>1
    <3> QED
      BY ONLY <3>1, <3>2, <3>3
  <2>2. \A i \in 1..Len(t) : t[i].exp <= e.exp
    BY <1>5, <1>7
  <2>3. e.exp <= e.exp
    BY <1>2
  <2> TAKE i, j \in DOMAIN tokens'
  <2> HAVE i <= j
  <2>4. CASE j = Len(t) + 1
    BY <1>4, <1>6, <2>2, <2>3, <2>4
  <2>5. CASE j \in 1..Len(t)
    <3>1. i \in 1..Len(t)
      BY <1>4, <1>6, <2>5
    <3> QED
      BY <1>4, <2>1, <2>5, <3>1
  <2> QED
    BY <1>6, <2>4, <2>5
<1>11. Len(tokens') <= MaxSessions
  BY <1>2, <1>3, <1>4
<1> QED
  BY <1>4, <1>8, <1>9, <1>10, <1>11 DEF TokenInv, Token

LEMMA AttestIInv ==
  ASSUME IInv, NEW n \in DOMAIN asked, NEW m \in Signed("attest", Key, n), Attest(m)
  PROVE  IInv'
<1>1. UNCHANGED <<keys, wallets, enrolling, cache, conns, asked, now>> /\ challenges' = Spent(m)
  BY DEF Attest, db
<1>2. AskedInv' /\ RegistryInv'
  BY <1>1 DEF IInv, AskedInv, RegistryInv
<1>3. CASE UNCHANGED <<grants, tokens>>
  <2>1. ChallengeInv'
    BY <1>1, <1>3, SpentStep
  <2>2. GrantInv' /\ TokenInv' /\ ConnInv'
    BY <1>1, <1>3 DEF IInv, GrantInv, NonceSpentOnce, TokenInv, ConnInv
  <2> QED
    BY <1>2, <2>1, <2>2 DEF IInv
<1>4. CASE /\ Consumable(m) /\ m.valid /\ EnrolledAsClaimed(m) /\ grants' = Grant(m)
           /\ tokens' = Issued(tokens, MaxSessions,
                          [id |-> Len(grants) + 1, row |-> keys[m.who], exp |-> now + TokenTtl])
  <2>1. m \in Message /\ m.kind = "attest" /\ m.who \in Key
    BY <1>4, SignedMessage DEF Signer
  <2>2. /\ ChallengeInv' /\ GrantInv'
        /\ DOMAIN grants = 1..Len(grants) /\ DOMAIN grants' = 1..(Len(grants) + 1)
        /\ Len(grants) \in Nat
        /\ \A i \in DOMAIN grants : grants'[i] = grants[i]
        /\ grants'[Len(grants) + 1] = [msg |-> m, at |-> now, used |-> now]
    BY <1>1, <1>4, <2>1, GrantStep
  <2>3. \A i \in DOMAIN grants : i \in DOMAIN grants' /\ grants'[i] = grants[i]
    BY <2>2
  <2>4. \A i, row : Stands(i, row, grants, keys) => Stands(i, row, grants', keys)
    BY <2>3, StandsLater
  <2>5. PICK e \in [id: Nat, row: Rows, exp: Nat] :
           e = [id |-> Len(grants) + 1, row |-> keys[m.who], exp |-> now + TokenTtl]
    <3>1. keys[m.who] \in Rows
      BY <1>4, <2>1 DEF EnrolledAsClaimed, IInv, RegistryInv
    <3>2. now + TokenTtl \in Nat
      BY Bounds DEF IInv, AskedInv
    <3>3. [id |-> Len(grants) + 1, row |-> keys[m.who], exp |-> now + TokenTtl]
             \in [id: Nat, row: Rows, exp: Nat]
      BY <2>2, <3>1, <3>2
    <3> QED
      BY <3>3
  <2>6. e.id = Len(grants) + 1 /\ e.row = keys[m.who] /\ e.exp = now + TokenTtl
    BY <2>5
  <2>7. /\ e.id \notin DOMAIN grants /\ grants'[e.id].used = now
        /\ Stands(e.id, e.row, grants', keys)
    BY <2>1, <2>2, <2>6 DEF Stands
  <2>8. tokens' = Issued(tokens, MaxSessions, e)
    BY <1>4, <2>5
  <2>9. PICK g : g = grants'
    OBVIOUS
  <2>10. TokenInv'
    BY <1>1, <2>3, <2>6, <2>7, <2>8, <2>9, TokenIssued
  <2>11. ConnInv'
    BY <1>1, <2>4 DEF IInv, ConnInv
  <2> QED
    BY <1>2, <2>2, <2>10, <2>11 DEF IInv
<1> QED
  BY <1>3, <1>4 DEF Attest

-----------------------------------------------------------------------------
(* Sessions of miners, restarts and the clock.                             *)

\* A session is authorized, as whoever it proved to be or as the name it gave.
LEMMA AuthorizedStep ==
  ASSUME IInv, NEW c \in Conn, NEW id \in Rows, NEW via \in Nat,
         via # 0 => Stands(via, id, grants, keys), Authorized(c, id, via),
         keys' = keys,
         \A n \in DOMAIN grants : n \in DOMAIN grants' /\ grants'[n].msg = grants[n].msg
  PROVE  ConnInv'
<1>1. \A n, row : Stands(n, row, grants, keys) => Stands(n, row, grants', keys)
  BY StandsLater
<1>2. ConnInv
  BY DEF IInv
<1>3. [id |-> id, via |-> via] \in [id: Rows, via: Nat]
  OBVIOUS
<1>4. CASE conns[c] = None
  <2>1. /\ conns' = [conns EXCEPT ![c] = [id |-> id, via |-> via]]
        /\ cache' = Remembered(id)
    BY <1>4 DEF Authorized
  <2>2. \A l \in DOMAIN cache' : cache'[l] \in Rows
    BY <1>2, <2>1 DEF ConnInv, Remembered
  <2>3. conns' \in [Conn -> [id: Rows, via: Nat] \cup {None}]
    BY <1>2, <1>3, <2>1 DEF ConnInv
  <2>4. ASSUME NEW d \in Conn, conns'[d] # None, conns'[d].via # 0
        PROVE  Stands(conns'[d].via, conns'[d].id, grants', keys)
    <3>1. CASE d = c
      <4>1. conns'[d] = [id |-> id, via |-> via]
        BY <1>2, <2>1, <3>1 DEF ConnInv
      <4> QED
        BY <1>1, <2>4, <4>1
    <3>2. CASE d # c
      <4>1. conns'[d] = conns[d]
        BY <1>2, <2>1, <3>2 DEF ConnInv
      <4> QED
        BY <1>1, <1>2, <2>4, <4>1 DEF ConnInv
    <3> QED
      BY <3>1, <3>2
  <2> QED
    BY <2>2, <2>3, <2>4 DEF ConnInv
<1>5. CASE conns[c] # None
  <2>1. cache' = cache /\ (conns' = conns \/ conns' = [conns EXCEPT ![c] = None])
    BY <1>5 DEF Authorized
  <2>2. \A d \in Conn : conns'[d] = conns[d] \/ conns'[d] = None
    BY <1>2, <2>1 DEF ConnInv
  <2>3. conns' \in [Conn -> [id: Rows, via: Nat] \cup {None}]
    BY <1>2, <2>1 DEF ConnInv
  <2> QED
    BY <1>1, <1>2, <2>1, <2>2, <2>3 DEF ConnInv
<1> QED
  BY <1>4, <1>5

\* What is left of the tokens when one is taken out: each of them is one there
\* was, in the order they had.
LEMMA TokenTakenOut ==
  ASSUME IInv, NEW i \in DOMAIN tokens
  PROVE  /\ RemoveAt(tokens, i) \in Seq([id: Nat, row: Rows, exp: Nat])
         /\ Len(RemoveAt(tokens, i)) = Len(tokens) - 1
         /\ Len(RemoveAt(tokens, i)) \in Nat
         /\ DOMAIN RemoveAt(tokens, i) = 1..Len(RemoveAt(tokens, i))
         /\ \A x \in DOMAIN RemoveAt(tokens, i) :
              LET y == IF x < i THEN x ELSE x + 1 IN
              y \in DOMAIN tokens /\ y # i /\ RemoveAt(tokens, i)[x] = tokens[y]
<1> DEFINE Token == [id: Nat, row: Rows, exp: Nat]
<1>1. tokens \in Seq(Token)
  BY DEF IInv, TokenInv
<1> HIDE DEF Token
<1>2. Len(tokens) \in Nat /\ DOMAIN tokens = 1..Len(tokens) /\ i \in 1..Len(tokens)
  <2>1. Len(tokens) \in Nat /\ DOMAIN tokens = 1..Len(tokens)
    BY Zenon, <1>1, LenProperties
  <2> QED
    BY <2>1
<1>3. /\ RemoveAt(tokens, i) \in Seq(Token)
      /\ Len(RemoveAt(tokens, i)) = Len(tokens) - 1
      /\ \A x \in 1..(Len(tokens) - 1) :
           RemoveAt(tokens, i)[x] = IF x < i THEN tokens[x] ELSE tokens[x + 1]
  BY Zenon, <1>1, <1>2, RemovedAt
<1>4. /\ Len(RemoveAt(tokens, i)) \in Nat
      /\ DOMAIN RemoveAt(tokens, i) = 1..Len(RemoveAt(tokens, i))
  BY <1>3, LenProperties
<1>5. ASSUME NEW x \in DOMAIN RemoveAt(tokens, i)
      PROVE  LET y == IF x < i THEN x ELSE x + 1 IN
             y \in DOMAIN tokens /\ y # i /\ RemoveAt(tokens, i)[x] = tokens[y]
  <2>1. x \in 1..(Len(tokens) - 1)
    BY <1>3, <1>4
  <2>2. CASE x < i
    BY <1>2, <1>3, <2>1, <2>2
  <2>3. CASE ~(x < i)
    BY <1>2, <1>3, <2>1, <2>3
  <2> QED
    BY <2>2, <2>3
<1> QED
  BY <1>3, <1>4, <1>5 DEF Token

\* What the invariant says of tokens, for those that are left.
LEMMA TakenOutInv ==
  ASSUME IInv, NEW i \in DOMAIN tokens
  PROVE  LET r == RemoveAt(tokens, i) IN
         /\ \A x \in DOMAIN r : /\ Stands(r[x].id, r[x].row, grants, keys)
                                /\ r[x].exp = grants[r[x].id].used + TokenTtl
                                /\ r[x].id # tokens[i].id
                                /\ r[x].exp <= now + TokenTtl
         /\ \A x, y \in DOMAIN r : r[x].id = r[y].id => x = y
         /\ \A x, y \in DOMAIN r : x <= y => r[x].exp <= r[y].exp
<1> DEFINE r == RemoveAt(tokens, i)
<1>1. /\ tokens \in Seq([id: Nat, row: Rows, exp: Nat])
      /\ \A x \in DOMAIN tokens : /\ Stands(tokens[x].id, tokens[x].row, grants, keys)
                                  /\ tokens[x].exp = grants[tokens[x].id].used + TokenTtl
      /\ \A x, y \in DOMAIN tokens : tokens[x].id = tokens[y].id => x = y
      /\ \A x, y \in DOMAIN tokens : x <= y => tokens[x].exp <= tokens[y].exp
  BY DEF IInv, TokenInv
<1>2. ASSUME NEW x \in DOMAIN r
      PROVE  LET y == IF x < i THEN x ELSE x + 1 IN
             y \in DOMAIN tokens /\ y # i /\ r[x] = tokens[y]
  BY TokenTakenOut
<1>3. /\ DOMAIN r = 1..Len(r) /\ Len(r) \in Nat
      /\ Len(tokens) \in Nat /\ DOMAIN tokens = 1..Len(tokens)
  BY <1>1, TokenTakenOut, LenProperties
<1> HIDE DEF r
<1>4. \A x \in DOMAIN tokens : tokens[x].exp <= now + TokenTtl
  <2> TAKE x \in DOMAIN tokens
  <2>1. tokens[x].id \in DOMAIN grants
    BY <1>1 DEF Stands
  <2>2. grants[tokens[x].id].used <= now /\ grants[tokens[x].id].used \in Nat
    BY <2>1, GrantTyped DEF IInv, GrantInv
  <2>3. now \in Nat /\ TokenTtl \in Nat
    BY Bounds DEF IInv, AskedInv
  <2>4. tokens[x].exp = grants[tokens[x].id].used + TokenTtl
    BY <1>1
  <2> QED
    BY ONLY <2>2, <2>3, <2>4
<1>5. \A x \in DOMAIN r : /\ Stands(r[x].id, r[x].row, grants, keys)
                          /\ r[x].exp = grants[r[x].id].used + TokenTtl
                          /\ r[x].id # tokens[i].id
                          /\ r[x].exp <= now + TokenTtl
  <2> TAKE x \in DOMAIN r
  <2>1. PICK y \in DOMAIN tokens : y # i /\ r[x] = tokens[y]
    BY <1>2
  <2> QED
    BY <1>1, <1>4, <2>1
<1>6. ASSUME NEW x \in DOMAIN r, NEW y \in DOMAIN r
      PROVE  /\ r[x].id = r[y].id => x = y
             /\ x <= y => r[x].exp <= r[y].exp
  <2>1. PICK v \in DOMAIN tokens : v = (IF x < i THEN x ELSE x + 1) /\ r[x] = tokens[v]
    BY <1>2
  <2>2. PICK w \in DOMAIN tokens : w = (IF y < i THEN y ELSE y + 1) /\ r[y] = tokens[w]
    BY <1>2
  <2>3. r[x].id = r[y].id => v = w
    BY <1>1, <2>1, <2>2
  <2>4. v <= w => r[x].exp <= r[y].exp
    BY <1>1, <2>1, <2>2
  <2>5. (v = w => x = y) /\ (x <= y => v <= w)
    BY <1>3, <2>1, <2>2
  <2> QED
    BY <2>3, <2>4, <2>5
<1> QED
  BY <1>5, <1>6 DEF r

\* A token was used: only the time of that grant is another.
LEMMA UsedStep ==
  ASSUME IInv, NEW k \in DOMAIN grants, grants' = [grants EXCEPT ![k].used = now],
         UNCHANGED <<challenges, keys, asked, now>>
  PROVE  /\ GrantInv' /\ ChallengeInv'
         /\ DOMAIN grants' = DOMAIN grants
         /\ \A n \in DOMAIN grants : /\ grants'[n].msg = grants[n].msg
                                     /\ n # k => grants'[n] = grants[n]
         /\ grants'[k].used = now
<1> DEFINE G == [msg: Message, at: Nat, used: Nat]
<1>1. now \in Nat /\ grants \in Seq(G)
  BY DEF IInv, AskedInv, GrantInv
<1>2. grants[k] \in G
  BY GrantTyped
<1>3. PICK h \in G : h = [grants[k] EXCEPT !.used = now]
  BY <1>1, <1>2
<1>4. h.msg = grants[k].msg /\ h.at = grants[k].at /\ h.used = now
  BY <1>2, <1>3
<1>5. grants' = [grants EXCEPT ![k] = h]
  BY <1>3
<1> HIDE DEF G
<1>6. k \in 1..Len(grants) /\ DOMAIN grants = 1..Len(grants)
  BY <1>1, LenProperties
<1>7. /\ grants' \in Seq(G) /\ Len(grants') = Len(grants)
      /\ \A n \in 1..Len(grants) : grants'[n] = IF n = k THEN h ELSE grants[n]
  BY <1>1, <1>5, <1>6, ExceptSeq
<1>8. DOMAIN grants' = DOMAIN grants
  BY <1>6, <1>7, LenProperties
<1>9. \A n \in DOMAIN grants : /\ grants'[n].msg = grants[n].msg
                               /\ grants'[n].at = grants[n].at
                               /\ n # k => grants'[n] = grants[n]
  BY <1>4, <1>6, <1>7
<1>10. grants'[k].used = now
  BY <1>4, <1>6, <1>7
<1>11. GrantInv'
  <2>1. \A n \in DOMAIN grants : Proven(grants[n], asked, keys) /\ grants[n].used <= now
    BY DEF IInv, GrantInv
  <2>2. \A n \in DOMAIN grants' : Proven(grants'[n], asked, keys)
    BY <1>8, <1>9, <2>1 DEF Proven
  <2>3. \A n \in DOMAIN grants' : grants'[n].used <= now
    BY <1>1, <1>8, <1>9, <1>10, <2>1
  <2>4. NonceSpentOnce'
    BY <1>8, <1>9 DEF IInv, GrantInv, NonceSpentOnce
  <2> QED
    BY <1>7, <2>2, <2>3, <2>4 DEF GrantInv, G
<1>12. ChallengeInv'
  BY <1>8, <1>9 DEF IInv, ChallengeInv, Outstanding
<1> QED
  BY <1>8, <1>9, <1>10, <1>11, <1>12

\* A token slides to the end of the store, which stays in order of expiry.
LEMMA SlidInv ==
  ASSUME IInv, NEW i \in DOMAIN tokens, tokens' = Slid(i), keys' = keys,
         DOMAIN grants' = DOMAIN grants,
         \A n \in DOMAIN grants : /\ grants'[n].msg = grants[n].msg
                                  /\ n # tokens[i].id => grants'[n] = grants[n],
         grants'[tokens[i].id].used = now
  PROVE  TokenInv'
<1> DEFINE Token == [id: Nat, row: Rows, exp: Nat]
<1>1. /\ tokens \in Seq(Token) /\ Len(tokens) <= MaxSessions
      /\ Stands(tokens[i].id, tokens[i].row, grants, keys)
  BY DEF IInv, TokenInv
<1>2. tokens[i] \in Token /\ Len(tokens) \in Nat
  <2> HIDE DEF Token
  <2>1. i \in 1..Len(tokens) /\ Len(tokens) \in Nat
    BY <1>1, LenProperties
  <2> QED
    BY <1>1, <2>1, ElementOfSeq
<1>3. now \in Nat /\ TokenTtl \in Nat
  BY Bounds DEF IInv, AskedInv
<1>4. PICK e \in Token : e = [tokens[i] EXCEPT !.exp = now + TokenTtl]
  <2>1. PICK old \in Token : old = tokens[i]
    BY <1>2
  <2>2. PICK exp \in Nat : exp = now + TokenTtl
    BY <1>3
  <2>3. [old EXCEPT !.exp = exp] \in Token
    OBVIOUS
  <2> QED
    BY <2>1, <2>2, <2>3
<1>5. e.id = tokens[i].id /\ e.row = tokens[i].row /\ e.exp = now + TokenTtl
  BY <1>2, <1>4
<1>6. PICK r \in Seq(Token) : r = RemoveAt(tokens, i)
  BY TokenTakenOut
<1>7. Len(r) = Len(tokens) - 1 /\ Len(r) \in Nat /\ DOMAIN r = 1..Len(r)
  BY <1>6, TokenTakenOut
<1>8. /\ \A x \in DOMAIN r : /\ Stands(r[x].id, r[x].row, grants, keys)
                             /\ r[x].exp = grants[r[x].id].used + TokenTtl
                             /\ r[x].id # tokens[i].id
                             /\ r[x].exp <= now + TokenTtl
      /\ \A x, y \in DOMAIN r : r[x].id = r[y].id => x = y
      /\ \A x, y \in DOMAIN r : x <= y => r[x].exp <= r[y].exp
  BY <1>6, TakenOutInv
<1> HIDE DEF Token
<1>9. /\ tokens' \in Seq(Token) /\ Len(tokens') = Len(r) + 1
      /\ DOMAIN tokens' = 1..(Len(r) + 1)
      /\ \A x \in 1..Len(r) : tokens'[x] = r[x]
      /\ tokens'[Len(r) + 1] = e
  <2>1. tokens' = Append(r, e)
    BY <1>4, <1>6 DEF Slid
  <2> QED
    BY <2>1, Appended
<1>10. ASSUME NEW x \in DOMAIN tokens'
       PROVE  x \in DOMAIN r \/ x = Len(r) + 1
  BY <1>7, <1>9
<1>11. \A n, row : Stands(n, row, grants, keys) => Stands(n, row, grants', keys)
  BY StandsLater
<1>12. \A x \in DOMAIN r : /\ Stands(r[x].id, r[x].row, grants', keys)
                           /\ r[x].exp = grants'[r[x].id].used + TokenTtl
  <2> TAKE x \in DOMAIN r
  <2>1. r[x].id \in DOMAIN grants
    BY <1>8 DEF Stands
  <2> QED
    BY <1>8, <1>11, <2>1
<1>13. Stands(e.id, e.row, grants', keys) /\ e.exp = grants'[e.id].used + TokenTtl
  BY <1>1, <1>5, <1>11
<1>14. \A x \in DOMAIN tokens' : /\ Stands(tokens'[x].id, tokens'[x].row, grants', keys)
                                 /\ tokens'[x].exp = grants'[tokens'[x].id].used + TokenTtl
  BY <1>7, <1>9, <1>10, <1>12, <1>13
<1>15. \A x, y \in DOMAIN tokens' : tokens'[x].id = tokens'[y].id => x = y
  BY <1>5, <1>7, <1>8, <1>9, <1>10
<1>16. \A x, y \in DOMAIN tokens' : x <= y => tokens'[x].exp <= tokens'[y].exp
  <2> TAKE x, y \in DOMAIN tokens'
  <2> HAVE x <= y
  <2>1. CASE y = Len(r) + 1
    <3>1. e.exp <= e.exp
      BY <1>3, <1>5
    <3> QED
      BY <1>5, <1>7, <1>8, <1>9, <1>10, <2>1, <3>1
  <2>2. CASE y \in DOMAIN r
    <3>1. x \in DOMAIN r
      BY <1>7, <1>10, <2>2
    <3> QED
      BY <1>7, <1>8, <1>9, <2>2, <3>1
  <2> QED
    BY <1>10, <2>1, <2>2
<1>17. Len(tokens') <= MaxSessions
  BY <1>1, <1>7, <1>9
<1> QED
  BY <1>9, <1>14, <1>15, <1>16, <1>17 DEF TokenInv, Token

LEMMA AuthorizeTokenIInv ==
  ASSUME IInv, NEW c \in Conn, NEW i \in DOMAIN tokens, AuthorizeToken(c, i)
  PROVE  IInv'
<1>1. UNCHANGED <<challenges, keys, wallets, enrolling, asked, now>>
  BY DEF AuthorizeToken, db
<1>2. RegistryInv' /\ AskedInv'
  BY <1>1 DEF IInv, RegistryInv, AskedInv
<1>3. Stands(tokens[i].id, tokens[i].row, grants, keys) /\ tokens[i].id \in DOMAIN grants
  BY DEF IInv, TokenInv, Stands
<1>4. CASE /\ tokens' = Slid(i)
           /\ grants' = [grants EXCEPT ![tokens[i].id].used = now]
           /\ Authorized(c, tokens[i].row, tokens[i].id)
  <2>1. /\ GrantInv' /\ ChallengeInv'
        /\ DOMAIN grants' = DOMAIN grants
        /\ \A n \in DOMAIN grants : /\ grants'[n].msg = grants[n].msg
                                    /\ n # tokens[i].id => grants'[n] = grants[n]
        /\ grants'[tokens[i].id].used = now
    BY <1>1, <1>3, <1>4, UsedStep
  <2>2. TokenInv'
    BY <1>1, <1>4, <2>1, SlidInv
  <2>3. tokens[i].id \in Nat /\ tokens[i].row \in Rows
    <3> DEFINE Token == [id: Nat, row: Rows, exp: Nat]
    <3>1. tokens \in Seq(Token)
      BY DEF IInv, TokenInv
    <3>2. tokens[i] \in Token
      <4> HIDE DEF Token
      <4>1. i \in 1..Len(tokens)
        BY <3>1, LenProperties
      <4> QED
        BY <3>1, <4>1, ElementOfSeq
    <3> QED
      BY <3>2
  <2>4. ConnInv'
    BY <1>1, <1>3, <1>4, <2>1, <2>3, AuthorizedStep
  <2> QED
    BY <1>2, <2>1, <2>2, <2>4 DEF IInv
<1>5. CASE tokens' = RemoveAt(tokens, i) /\ UNCHANGED <<grants, conns, cache>>
  <2> DEFINE r == RemoveAt(tokens, i)
  <2>1. /\ r \in Seq([id: Nat, row: Rows, exp: Nat]) /\ Len(r) = Len(tokens) - 1
    BY TokenTakenOut
  <2>2. /\ \A x \in DOMAIN r : /\ Stands(r[x].id, r[x].row, grants, keys)
                               /\ r[x].exp = grants[r[x].id].used + TokenTtl
        /\ \A x, y \in DOMAIN r : r[x].id = r[y].id => x = y
        /\ \A x, y \in DOMAIN r : x <= y => r[x].exp <= r[y].exp
    BY TakenOutInv
  <2>3. Len(r) <= MaxSessions
    <3>1. Len(tokens) <= MaxSessions /\ Len(tokens) \in Nat
      BY LenProperties DEF IInv, TokenInv
    <3> QED
      BY <2>1, <3>1, Bounds
  <2> HIDE DEF r
  <2>4. tokens' = r
    BY <1>5 DEF r
  <2>5. TokenInv'
    BY <1>1, <1>5, <2>1, <2>2, <2>3, <2>4 DEF TokenInv
  <2>6. ChallengeInv' /\ GrantInv' /\ ConnInv'
    BY <1>1, <1>5 DEF IInv, ChallengeInv, GrantInv, NonceSpentOnce, ConnInv
  <2> QED
    BY <1>2, <2>5, <2>6 DEF IInv
<1> QED
  BY <1>4, <1>5 DEF AuthorizeToken

LEMMA OnePart ==
  ASSUME NEW S, NEW e \in S
  PROVE  <<e>> \in Seq(S)
OBVIOUS

\* Whatever a miner types has a name and a rig.
LEMMA ParsedRow ==
  ASSUME NEW login \in Logins
  PROVE  Parsed(login) \in Rows
<1>1. login \in Seq(Part) \ {<<>>}
  <2>1. CASE login \in Account
    BY <2>1, ControlAssumption
  <2>2. ASSUME NEW a \in Account, NEW n \in Name, login = a \o n
        PROVE  login \in Seq(Part) \ {<<>>}
    <3>1. a \in Seq(Part) /\ n \in Seq(Part) /\ a # <<>>
      BY ControlAssumption
    <3>2. /\ a \o n \in Seq(Part) /\ Len(a \o n) = Len(a) + Len(n)
          /\ Len(a) \in Nat \ {0} /\ Len(n) \in Nat
      BY <3>1, ConcatProperties, LenProperties, EmptySeq
    <3>3. a \o n # <<>>
      BY <3>2, EmptySeq
    <3> QED
      BY <2>2, <3>2, <3>3
  <2> QED
    BY <2>1, <2>2 DEF Logins
<1>2. Head(login) \in Part /\ Tail(login) \in Seq(Part)
  BY <1>1, HeadTailProperties
<1>3. <<Head(login)>> \in Seq(Part) /\ <<"default">> \in Seq(Part)
  <2>1. "default" \in Part
    BY DEF Part
  <2> QED
    BY <1>2, <2>1, OnePart
<1> QED
  BY <1>2, <1>3 DEF Parsed, Row, Rows

LEMMA AuthorizeNameIInv ==
  ASSUME IInv, NEW c \in Conn, NEW login \in Logins, AuthorizeName(c, login)
  PROVE  IInv'
<1>1. UNCHANGED <<challenges, tokens, keys, wallets, enrolling, asked, grants, now>>
  BY DEF AuthorizeName, db
<1>2. ConnInv'
  <2>1. Parsed(login) \in Rows /\ Authorized(c, Parsed(login), 0)
    BY ParsedRow DEF AuthorizeName
  <2>2. \A n \in DOMAIN grants : n \in DOMAIN grants' /\ grants'[n].msg = grants[n].msg
    BY <1>1
  <2> QED
    BY <1>1, <2>1, <2>2, AuthorizedStep
<1>3. RegistryInv' /\ AskedInv' /\ ChallengeInv' /\ GrantInv' /\ TokenInv'
  BY <1>1 DEF IInv, RegistryInv, AskedInv, ChallengeInv, GrantInv, NonceSpentOnce, TokenInv
<1> QED
  BY <1>2, <1>3 DEF IInv

LEMMA DisconnectIInv ==
  ASSUME IInv, NEW c \in Conn, Disconnect(c)
  PROVE  IInv'
<1>1. UNCHANGED <<challenges, tokens, keys, wallets, enrolling, cache, asked, grants, now>>
  BY DEF Disconnect, db
<1>2. ConnInv'
  <2>1. \A d \in Conn : conns'[d] = conns[d] \/ conns'[d] = None
    BY DEF Disconnect, IInv, ConnInv
  <2>2. conns' \in [Conn -> [id: Rows, via: Nat] \cup {None}]
    BY DEF Disconnect, IInv, ConnInv
  <2> QED
    BY <1>1, <2>1, <2>2 DEF IInv, ConnInv
<1>3. RegistryInv' /\ AskedInv' /\ ChallengeInv' /\ GrantInv' /\ TokenInv'
  BY <1>1 DEF IInv, RegistryInv, AskedInv, ChallengeInv, GrantInv, NonceSpentOnce, TokenInv
<1> QED
  BY <1>2, <1>3 DEF IInv

\* A start finds the database, and no challenge, token or session.
LEMMA RestartIInv ==
  ASSUME IInv, Restart
  PROVE  IInv'
<1>1. UNCHANGED <<keys, wallets, enrolling, asked, grants, now>>
  BY DEF Restart, db
<1>2. /\ challenges' = <<>> /\ tokens' = <<>> /\ cache' = << >>
      /\ conns' = [c \in Conn |-> None]
  BY DEF Restart
<1>3. ChallengeInv' /\ TokenInv' /\ ConnInv'
  BY <1>2, Bounds DEF ChallengeInv, TokenInv, ConnInv
<1>4. RegistryInv' /\ AskedInv' /\ GrantInv'
  BY <1>1 DEF IInv, RegistryInv, AskedInv, GrantInv, NonceSpentOnce
<1> QED
  BY <1>3, <1>4 DEF IInv

LEMMA TickIInv ==
  ASSUME IInv, Tick
  PROVE  IInv'
<1>1. UNCHANGED <<challenges, tokens, keys, wallets, enrolling, cache, conns, asked, grants>>
  BY DEF Tick, db
<1>2. now \in Nat /\ now' = now + 1
  BY DEF Tick, IInv, AskedInv
<1>3. AskedInv'
  <2>1. \A n \in DOMAIN asked : asked[n].at <= now'
    <3> TAKE n \in DOMAIN asked
    <3>1. n \in 1..Len(asked) /\ asked \in Seq([who: Signer, at: Nat])
      BY LenProperties DEF IInv, AskedInv
    <3>2. asked[n] \in [who: Signer, at: Nat]
      BY <3>1, ElementOfSeq
    <3>3. asked[n].at \in Nat /\ asked[n].at <= now
      BY <3>2 DEF IInv, AskedInv
    <3> QED
      BY <1>2, <3>3
  <2> QED
    BY <1>1, <1>2, <2>1 DEF IInv, AskedInv
<1>4. GrantInv'
  <2>1. \A n \in DOMAIN grants : grants[n].used <= now'
    <3> TAKE n \in DOMAIN grants
    <3>1. grants[n].used \in Nat /\ grants[n].used <= now
      BY GrantTyped DEF IInv, GrantInv
    <3> QED
      BY <1>2, <3>1
  <2> QED
    BY <1>1, <2>1 DEF IInv, GrantInv, NonceSpentOnce
<1>5. RegistryInv' /\ ChallengeInv' /\ TokenInv' /\ ConnInv'
  BY <1>1 DEF IInv, RegistryInv, ChallengeInv, TokenInv, ConnInv
<1> QED
  BY <1>3, <1>4, <1>5 DEF IInv

LEMMA StutterIInv == IInv /\ UNCHANGED vars => IInv'
BY DEF vars, IInv, RegistryInv, AskedInv, ChallengeInv, GrantInv, NonceSpentOnce, TokenInv,
       ConnInv

\* Every action.
LEMMA NextIInv == IInv /\ [Next]_vars => IInv'
<1> SUFFICES ASSUME IInv, [Next]_vars
             PROVE  IInv'
  OBVIOUS
<1>1. ASSUME NEW who \in Key \cup Wallet, Challenge(who)
      PROVE  IInv'
  BY <1>1, ChallengeIInv DEF Signer
<1>2. ASSUME NEW n \in DOMAIN asked, NEW m \in Signed("attest", Key, n), Attest(m)
      PROVE  IInv'
  BY <1>2, AttestIInv
<1>3. ASSUME NEW n \in DOMAIN asked, NEW m \in Signed("bind", Wallet, n), BindWallet(m)
      PROVE  IInv'
  BY <1>3, BindWalletIInv
<1>4. ASSUME NEW a \in Account, CreateAccount(a)
      PROVE  IInv'
  BY <1>4, CreateAccountIInv
<1>5. ASSUME NEW a \in Account, NEW k \in Key, NEW name \in Name, EnrollLook(k, a, name)
      PROVE  IInv'
  BY <1>5, EnrollLookIInv
<1>6. ASSUME NEW e \in enrolling, EnrollInsert(e)
      PROVE  IInv'
  BY <1>6, EnrollInsertIInv
<1>7. ASSUME NEW c \in Conn, NEW i \in DOMAIN tokens, AuthorizeToken(c, i)
      PROVE  IInv'
  BY <1>7, AuthorizeTokenIInv
<1>8. ASSUME NEW c \in Conn, NEW login \in Logins, AuthorizeName(c, login)
      PROVE  IInv'
  BY <1>8, AuthorizeNameIInv
<1>9. ASSUME NEW c \in Conn, Disconnect(c)
      PROVE  IInv'
  BY <1>9, DisconnectIInv
<1> QED
  BY <1>1, <1>2, <1>3, <1>4, <1>5, <1>6, <1>7, <1>8, <1>9, RestartIInv, TickIInv,
     StutterIInv DEF Next

\* The stores stay in the order of expiry, what is in them was issued and not
\* yet spent, and every grant rests on its challenge.
THEOREM SpecIInv == Spec => []IInv
BY InitIInv, NextIInv, PTL DEF Spec

-----------------------------------------------------------------------------
(* What follows.                                                           *)

\* Every variable keeps its type, and the two stores their sizes, however many
\* challenges are asked for and tokens granted (challenges.ts:53-62, sessions.ts:
\* 46-57).
THEOREM SpecTypeOK == Spec => []TypeOK
<1>1. IInv => TypeOK
  <2> SUFFICES ASSUME IInv
               PROVE  TypeOK
    OBVIOUS
  <2>1. /\ \A i \in DOMAIN challenges : challenges[i].nonce \in DOMAIN asked
        /\ Len(challenges) <= MaxOutstanding
    BY DEF IInv, ChallengeInv, Outstanding
  <2>2. /\ \A i \in DOMAIN tokens : tokens[i].id \in DOMAIN grants
        /\ Len(tokens) <= MaxSessions
    BY DEF IInv, TokenInv, Stands
  <2>3. /\ \A k \in Key : keys[k] \in Rows \cup {None}
        /\ wallets \in [Account -> Wallet \cup {None, "absent"}]
        /\ enrolling \subseteq [key: Key, account: Account, name: Name]
    BY DEF IInv, RegistryInv
  <2>4. /\ \A l \in DOMAIN cache : cache[l] \in Rows
        /\ \A c \in Conn : conns[c] # None => conns[c].id \in Rows
    BY DEF IInv, ConnInv
  <2>5. \A n \in DOMAIN grants : grants[n].msg \in Message
    BY GrantTyped
  <2> QED
    BY <2>1, <2>2, <2>3, <2>4, <2>5 DEF TypeOK
<1> QED
  BY <1>1, SpecIInv, PTL

\* A challenge is good for one grant, however often and however late what was
\* signed arrives, and whatever was restarted meanwhile (challenges.ts:73-76).
THEOREM SpecNonceSpentOnce == Spec => []NonceSpentOnce
<1>1. IInv => NonceSpentOnce
  BY DEF IInv, GrantInv
<1> QED
  BY <1>1, SpecIInv, PTL

\* Every grant rests on a challenge issued to the same signer and in time, and
\* every token and session on the enrolment of the key that asked for it, which
\* no later command changes (control/server.ts:148-178).
THEOREM SpecGrantIsProven == Spec => []GrantIsProven
<1>1. IInv => GrantIsProven
  <2> SUFFICES ASSUME IInv
               PROVE  GrantIsProven
    OBVIOUS
  <2>1. \A n \in DOMAIN grants : Proven(grants[n], asked, keys)
    BY DEF IInv, GrantInv
  <2>2. \A i \in DOMAIN grants :
          LET m == grants[i].msg  q == asked[m.nonce] IN
          /\ m.valid /\ q.who = m.who
          /\ grants[i].at - q.at \in 0..(ChallengeTtl - 1)
          /\ m.kind = "attest" => keys[m.who] # None /\ keys[m.who].username = m.account
    BY <2>1 DEF Proven
  <2>3. \A i \in DOMAIN tokens : tokens[i].row = keys[grants[tokens[i].id].msg.who]
    BY DEF IInv, TokenInv, Stands
  <2>4. \A c \in Conn : conns[c] # None /\ conns[c].via # 0 =>
          conns[c].id = keys[grants[conns[c].via].msg.who]
    BY DEF IInv, ConnInv, Stands
  <2> QED
    BY <2>2, <2>3, <2>4 DEF GrantIsProven
<1> QED
  BY <1>1, SpecIInv, PTL

-----------------------------------------------------------------------------
(* Why a token is lost.                                                    *)

\* Starts are counted.
BootsInv == boots \in Nat

LEMMA SpecBootsInv == Spec => []BootsInv
<1>1. Init => BootsInv
  BY DEF Init, BootsInv
<1>2. [Next]_vars => boots' = boots \/ boots' = boots + 1
  BY DEF Next, vars, Challenge, Attest, BindWallet, CreateAccount, EnrollLook, EnrollInsert,
         AuthorizeToken, AuthorizeName, Disconnect, Restart, Tick
<1>3. BootsInv /\ [Next]_vars => BootsInv'
  BY <1>2 DEF BootsInv
<1> QED
  BY <1>1, <1>3, PTL DEF Spec

\* No two entries of the store hold the same token.
LEMMA HeldCount ==
  ASSUME IInv
  PROVE  Cardinality(Held) = Len(tokens)
<1> DEFINE f == [i \in 1..Len(tokens) |-> tokens[i].id]
<1>1. Len(tokens) \in Nat /\ DOMAIN tokens = 1..Len(tokens)
  BY LenProperties DEF IInv, TokenInv
<1>2. f \in Surjection(1..Len(tokens), Held)
  BY <1>1 DEF Held, Surjection
<1>3. f \in Injection(1..Len(tokens), Held)
  <2>1. f \in [1..Len(tokens) -> Held]
    BY <1>1 DEF Held
  <2>2. \A i, j \in DOMAIN tokens : tokens[i].id = tokens[j].id => i = j
    BY DEF IInv, TokenInv
  <2> QED
    BY <1>1, <2>1, <2>2 DEF Injection, IsInjective
<1> HIDE DEF f
<1>4. IsFiniteSet(1..Len(tokens)) /\ Cardinality(1..Len(tokens)) = Len(tokens)
  <2>1. 1 \in Int /\ Len(tokens) \in Int
    BY <1>1
  <2>2. /\ IsFiniteSet(1..Len(tokens))
        /\ Cardinality(1..Len(tokens)) = IF 1 > Len(tokens) THEN 0 ELSE Len(tokens) - 1 + 1
    BY <2>1, FS_Interval
  <2> QED
    BY <1>1, <2>2
<1> QED
  BY <1>2, <1>3, <1>4, FS_Surjection

\* What the entry of a token says of its grant.
LEMMA HeldUsed ==
  ASSUME IInv, NEW i \in DOMAIN tokens
  PROVE  /\ tokens[i].id \in DOMAIN grants
         /\ grants[tokens[i].id].used \in Nat
         /\ tokens[i].exp = grants[tokens[i].id].used + TokenTtl
         /\ now \in Nat /\ TokenTtl \in Nat
<1>1. tokens[i].id \in DOMAIN grants
  BY DEF IInv, TokenInv, Stands
<1> QED
  BY <1>1, GrantTyped, Bounds DEF IInv, TokenInv, AskedInv

\* A cause for which token n is lost, and what a login with it requires.
Cause(n) ==
  \/ now - grants[n].used >= TokenTtl
  \/ boots' # boots
  \/ /\ Cardinality(Held) = MaxSessions /\ Len(grants') > Len(grants)
     /\ \A o \in Held : grants[n].used <= grants[o].used

Leaves(n) ==
  /\ n \notin Held' => Cause(n)
  /\ grants'[n].used # grants[n].used => now - grants[n].used < TokenTtl

\* A step that leaves the store as it is.
LEMMA LeavesNone ==
  ASSUME IInv, tokens' = tokens, \A n \in DOMAIN grants : grants'[n] = grants[n]
  PROVE  \A n \in Held : Leaves(n)
<1>1. Held' = Held
  BY DEF Held
<1>2. \A n \in Held : n \in DOMAIN grants
  BY HeldUsed DEF Held
<1> QED
  BY <1>1, <1>2 DEF Leaves

\* A token granted drops the silent, or, of a full store, the first.
LEMMA AttestLeaves ==
  ASSUME IInv, IInv', NEW n \in DOMAIN asked, NEW m \in Signed("attest", Key, n), Attest(m)
  PROVE  \A x \in Held : Leaves(x)
<1>1. UNCHANGED <<keys, asked, now>> /\ challenges' = Spent(m)
  BY DEF Attest, db
<1>2. CASE UNCHANGED <<grants, tokens>>
  BY <1>2, LeavesNone
<1>3. CASE /\ Consumable(m) /\ m.valid /\ EnrolledAsClaimed(m) /\ grants' = Grant(m)
           /\ tokens' = Issued(tokens, MaxSessions,
                          [id |-> Len(grants) + 1, row |-> keys[m.who], exp |-> now + TokenTtl])
  <2> DEFINE Token == [id: Nat, row: Rows, exp: Nat]
  <2>1. m \in Message /\ m.kind = "attest" /\ m.who \in Key
    BY <1>3, SignedMessage DEF Signer
  <2>2. /\ Len(grants) \in Nat /\ DOMAIN grants = 1..Len(grants)
        /\ DOMAIN grants' = 1..(Len(grants) + 1)
        /\ \A i \in DOMAIN grants : grants'[i] = grants[i]
    BY <1>1, <1>3, <2>1, GrantStep
  <2>3. Len(grants') > Len(grants)
    <3>1. Len(grants') \in Nat /\ DOMAIN grants' = 1..Len(grants')
      BY LenProperties DEF IInv, GrantInv
    <3> QED
      BY <2>2, <3>1
  <2>4. PICK e \in Token :
           e = [id |-> Len(grants) + 1, row |-> keys[m.who], exp |-> now + TokenTtl]
    <3>1. keys[m.who] \in Rows
      BY <1>3, <2>1 DEF EnrolledAsClaimed, IInv, RegistryInv
    <3>2. now + TokenTtl \in Nat
      BY Bounds DEF IInv, AskedInv
    <3>3. [id |-> Len(grants) + 1, row |-> keys[m.who], exp |-> now + TokenTtl] \in Token
      BY <2>2, <3>1, <3>2
    <3> QED
      BY <3>3
  <2>5. tokens' = Issued(tokens, MaxSessions, e)
    BY <1>3, <2>4
  <2>6. tokens \in Seq(Token) /\ Len(tokens) <= MaxSessions
    BY DEF IInv, TokenInv
  <2> HIDE DEF Token
  <2>7. PICK t \in Seq(Token), k \in 0..Len(tokens) :
          /\ Issued(tokens, MaxSessions, e) = Append(t, e)
          /\ Dropped(t, tokens, k) /\ Len(t) < MaxSessions
          /\ \A i \in 1..k : Alive(tokens[i]) => k = Len(tokens) - MaxSessions + 1
    BY <2>6, Bounds, IssuedDrops
  <2>8. /\ Len(t) \in Nat /\ DOMAIN tokens' = 1..(Len(t) + 1)
        /\ \A i \in 1..Len(t) : tokens'[i] = t[i]
    BY <2>5, <2>7, Appended
  <2>9. /\ Len(tokens) \in Nat /\ DOMAIN tokens = 1..Len(tokens) /\ k \in Nat
        /\ Len(t) = Len(tokens) - k
        /\ \A i \in 1..Len(t) : t[i] = tokens[k + i]
    BY <2>6, <2>7, LenProperties DEF Dropped
  <2>10. ASSUME NEW i \in DOMAIN tokens, i > k
         PROVE  tokens[i].id \in Held'
    <3>1. i - k \in 1..Len(t) /\ k + (i - k) = i
      BY <2>9, <2>10
    <3>2. i - k \in DOMAIN tokens' /\ tokens'[i - k] = tokens[i]
      BY <2>8, <2>9, <3>1
    <3> QED
      BY <3>2 DEF Held
  <2>11. ASSUME NEW i \in DOMAIN tokens, i \in 1..k
         PROVE  Cause(tokens[i].id)
    <3>1. CASE ~Alive(tokens[i])
      <4>1. ~(grants[tokens[i].id].used + TokenTtl > now)
        BY <3>1, HeldUsed DEF Alive
      <4> QED
        BY <4>1, HeldUsed DEF Cause
    <3>2. CASE Alive(tokens[i])
      <4>1. k = Len(tokens) - MaxSessions + 1
        BY <2>7, <2>11, <3>2
      <4>2. k = 1 /\ i = 1 /\ Len(tokens) = MaxSessions
        <5>1. Len(tokens) \in Nat /\ MaxSessions \in Nat /\ Len(tokens) <= MaxSessions
          BY <2>6, <2>9, Bounds
        <5>2. k \in Nat /\ i \in 1..k
          BY <2>9, <2>11
        <5> QED
          BY <4>1, <5>1, <5>2
      <4>3. \A o \in Held : grants[tokens[i].id].used <= grants[o].used
        <5> TAKE o \in Held
        <5>1. PICK j \in DOMAIN tokens : o = tokens[j].id
          BY DEF Held
        <5>2. tokens[i].exp <= tokens[j].exp
          <6>1. 1 <= j /\ 1 \in DOMAIN tokens
            BY <2>9, <4>2
          <6> QED
            BY <4>2, <6>1 DEF IInv, TokenInv
        <5> QED
          BY <5>1, <5>2, HeldUsed
      <4>4. Cardinality(Held) = MaxSessions
        BY <4>2, HeldCount
      <4> QED
        BY <2>3, <4>3, <4>4 DEF Cause
    <3> QED
      BY <3>1, <3>2
  <2> TAKE x \in Held
  <2>12. PICK i \in DOMAIN tokens : x = tokens[i].id
    BY DEF Held
  <2>13. grants'[x] = grants[x]
    BY <2>2, <2>12, HeldUsed
  <2>14. x \notin Held' => Cause(x)
    <3>1. i \in 1..k \/ i > k
      BY <2>9
    <3> QED
      BY <2>10, <2>11, <2>12, <3>1
  <2> QED
    BY <2>13, <2>14 DEF Leaves
<1> QED
  BY <1>2, <1>3 DEF Attest

\* A login keeps every token but one that has been silent for too long.
LEMMA AuthorizeLeaves ==
  ASSUME IInv, NEW c \in Conn, NEW i \in DOMAIN tokens, AuthorizeToken(c, i)
  PROVE  \A x \in Held : Leaves(x)
<1> DEFINE Token == [id: Nat, row: Rows, exp: Nat]
<1>1. now' = now
  BY DEF AuthorizeToken
<1>2. /\ RemoveAt(tokens, i) \in Seq(Token)
      /\ Len(RemoveAt(tokens, i)) = Len(tokens) - 1
      /\ DOMAIN RemoveAt(tokens, i) = 1..Len(RemoveAt(tokens, i))
      /\ \A x \in DOMAIN RemoveAt(tokens, i) :
           LET y == IF x < i THEN x ELSE x + 1 IN
           y \in DOMAIN tokens /\ y # i /\ RemoveAt(tokens, i)[x] = tokens[y]
  BY TokenTakenOut
<1>3. PICK r : r = RemoveAt(tokens, i)
  OBVIOUS
<1>4. tokens \in Seq(Token)
  BY DEF IInv, TokenInv
<1>5. Len(tokens) \in Nat /\ DOMAIN tokens = 1..Len(tokens)
  <2> HIDE DEF Token
  <2> QED
    BY <1>4, LenProperties
<1>6. ASSUME NEW j \in DOMAIN tokens, j # i
      PROVE  \E x \in DOMAIN r : r[x] = tokens[j]
  <2> DEFINE x == IF j < i THEN j ELSE j - 1
  <2>1. x \in DOMAIN r /\ (IF x < i THEN x ELSE x + 1) = j
    BY <1>2, <1>3, <1>5, <1>6
  <2> HIDE DEF x
  <2> QED
    BY <1>2, <1>3, <2>1
<1>7. CASE /\ Alive(tokens[i]) /\ tokens' = Slid(i)
           /\ grants' = [grants EXCEPT ![tokens[i].id].used = now]
  <2>1. PICK e : e = [tokens[i] EXCEPT !.exp = now + TokenTtl]
    OBVIOUS
  <2>2. tokens[i] \in Token
    <3> HIDE DEF Token
    <3> QED
      BY <1>4, <1>5, ElementOfSeq
  <2>3. e.id = tokens[i].id /\ e \in Token
    <3>1. now + TokenTtl \in Nat
      BY HeldUsed
    <3> QED
      BY <2>1, <2>2, <3>1
  <2>4. tokens' = Append(r, e)
    BY <1>3, <1>7, <2>1 DEF Slid
  <2> HIDE DEF Token
  <2>5. /\ DOMAIN tokens' = 1..(Len(r) + 1) /\ DOMAIN r = 1..Len(r) /\ Len(r) \in Nat
        /\ \A x \in 1..Len(r) : tokens'[x] = r[x]
        /\ tokens'[Len(r) + 1] = e
    BY <1>2, <1>3, <2>3, <2>4, Appended
  <2>6. \A x \in DOMAIN r : x \in DOMAIN tokens' /\ tokens'[x] = r[x]
    BY <2>5
  <2> TAKE n \in Held
  <2>7. PICK j \in DOMAIN tokens : n = tokens[j].id
    BY DEF Held
  <2>8. n \in Held'
    <3>1. CASE j = i
      BY <2>3, <2>5, <2>7, <3>1 DEF Held
    <3>2. CASE j # i
      BY <1>6, <2>6, <2>7, <3>2 DEF Held
    <3> QED
      BY <3>1, <3>2
  <2>9. grants'[n].used # grants[n].used => now - grants[n].used < TokenTtl
    <3>1. n # tokens[i].id => grants'[n] = grants[n]
      BY <1>7, <2>7, HeldUsed
    <3>2. grants[tokens[i].id].used + TokenTtl > now
      BY <1>7, HeldUsed DEF Alive
    <3> QED
      BY <3>1, <3>2, HeldUsed
  <2> QED
    BY <2>8, <2>9 DEF Leaves
<1>8. CASE ~Alive(tokens[i]) /\ tokens' = r /\ UNCHANGED grants
  <2> TAKE n \in Held
  <2>1. PICK j \in DOMAIN tokens : n = tokens[j].id
    BY DEF Held
  <2>2. CASE j = i
    <3>1. ~(grants[n].used + TokenTtl > now)
      BY <1>8, <2>1, <2>2, HeldUsed DEF Alive
    <3> QED
      BY <1>8, <2>1, <3>1, HeldUsed DEF Leaves, Cause
  <2>3. CASE j # i
    BY <1>6, <1>8, <2>1, <2>3 DEF Leaves, Held
  <2> QED
    BY <2>2, <2>3
<1> QED
  BY <1>3, <1>7, <1>8 DEF AuthorizeToken

\* A token is lost only by silence for its ttl, by a restart, or as the one
\* unused for longest when the store is full; and after that silence no login
\* is good (sessions.ts:46-57, 79-83).
THEOREM SpecTokenLeavesForCause == Spec => TokenLeavesForCause
<1>1. ASSUME IInv, IInv', BootsInv, [Next]_vars
      PROVE  \A n \in Held : Leaves(n)
  <2>1. CASE /\ tokens' = tokens
             /\ grants' = grants \/ \E m : grants' = Grant(m)
    <3>1. \A n \in DOMAIN grants : grants'[n] = grants[n]
      <4>1. CASE grants' = grants
        BY <4>1
      <4>2. ASSUME NEW m, grants' = Grant(m)
            PROVE  \A n \in DOMAIN grants : grants'[n] = grants[n]
        <5>1. /\ grants \in Seq([msg: Message, at: Nat, used: Nat])
              /\ grants' \in Seq([msg: Message, at: Nat, used: Nat])
          BY <1>1 DEF IInv, GrantInv
        <5> QED
          BY <4>2, <5>1, LenProperties DEF Grant
      <4> QED
        BY <2>1, <4>1, <4>2
    <3> QED
      BY <1>1, <2>1, <3>1, LeavesNone
  <2>2. ASSUME NEW n \in DOMAIN asked, NEW m \in Signed("attest", Key, n), Attest(m)
        PROVE  \A x \in Held : Leaves(x)
    BY <1>1, <2>2, AttestLeaves
  <2>3. ASSUME NEW c \in Conn, NEW i \in DOMAIN tokens, AuthorizeToken(c, i)
        PROVE  \A x \in Held : Leaves(x)
    BY <1>1, <2>3, AuthorizeLeaves
  <2>4. CASE Restart
    <3>1. boots' # boots /\ grants' = grants
      BY <1>1, <2>4 DEF Restart, BootsInv
    <3> QED
      BY <3>1 DEF Leaves, Cause
  <2> QED
    BY <1>1, <2>1, <2>2, <2>3, <2>4
    DEF Next, vars, db, Challenge, BindWallet, CreateAccount, EnrollLook, EnrollInsert,
        AuthorizeName, Disconnect, Tick
<1>2. IInv /\ IInv' /\ BootsInv /\ [Next]_vars
      => [\A n \in Held :
            /\ n \notin Held' =>
                 \/ now - grants[n].used >= TokenTtl
                 \/ boots' # boots
                 \/ /\ Cardinality(Held) = MaxSessions /\ Len(grants') > Len(grants)
                    /\ \A o \in Held : grants[n].used <= grants[o].used
            /\ grants'[n].used # grants[n].used => now - grants[n].used < TokenTtl]_vars
  BY <1>1 DEF Leaves, Cause
<1> QED
  BY <1>2, SpecIInv, SpecBootsInv, PTL DEF Spec, TokenLeavesForCause

-----------------------------------------------------------------------------
(* Whose row a share lands on, where no account has a dot in its id.       *)

OneName(row) == row \in Rows /\ Len(row.username) = 1

LEMMA JoinedToOne ==
  ASSUME NEW S, NEW a \in Seq(S), NEW b \in Seq(S), Len(a) = 1
  PROVE  /\ Len(b) \in Nat /\ Len(a \o b) = 1 + Len(b)
         /\ \A i \in 1..(1 + Len(b)) : (a \o b)[i] = IF i <= 1 THEN a[i] ELSE b[i - 1]
<1>1. /\ Len(a \o b) = Len(a) + Len(b)
      /\ \A i \in 1..(Len(a) + Len(b)) :
           (a \o b)[i] = IF i <= Len(a) THEN a[i] ELSE b[i - Len(a)]
  BY ConcatProperties
<1>2. Len(b) \in Nat
  BY LenProperties
<1> QED
  BY <1>1, <1>2

\* Then a login tells whose it is.
LEMMA LoginTellsRow ==
  ASSUME NEW r, NEW s, OneName(r), OneName(s), Login(r) = Login(s)
  PROVE  r = s
<1>1. /\ r.username \in Seq(Part) /\ r.name \in Seq(Part)
      /\ s.username \in Seq(Part) /\ s.name \in Seq(Part)
      /\ Len(r.username) = 1 /\ Len(s.username) = 1
  BY DEF OneName, Rows
<1>2. PICK a, b, c, d \in Seq(Part) : a = r.username /\ b = r.name /\ c = s.username /\ d = s.name
  BY <1>1
<1>3. Len(a) = 1 /\ Len(c) = 1 /\ a \o b = c \o d
  BY <1>1, <1>2 DEF Login
<1>4. /\ Len(b) \in Nat /\ Len(d) \in Nat
      /\ Len(a \o b) = 1 + Len(b) /\ Len(c \o d) = 1 + Len(d)
      /\ \A i \in 1..(1 + Len(b)) : (a \o b)[i] = IF i <= 1 THEN a[i] ELSE b[i - 1]
      /\ \A i \in 1..(1 + Len(d)) : (c \o d)[i] = IF i <= 1 THEN c[i] ELSE d[i - 1]
  BY <1>3, JoinedToOne
<1>5. Len(b) = Len(d)
  BY <1>3, <1>4
<1>6. a = c
  <2>1. a[1] = c[1]
    BY <1>3, <1>4
  <2> QED
    BY <1>3, <2>1, SeqEqual
<1>7. b = d
  <2>1. ASSUME NEW i \in 1..Len(b)
        PROVE  b[i] = d[i]
    <3>1. i + 1 \in 1..(1 + Len(b)) /\ ~(i + 1 <= 1) /\ (i + 1) - 1 = i
      BY <1>4
    <3> QED
      BY <1>3, <1>4, <1>5, <3>1
  <2> QED
    BY <1>5, <2>1, SeqEqual
<1>8. /\ r = [username |-> r.username, name |-> r.name]
      /\ s = [username |-> s.username, name |-> s.name]
  BY DEF OneName, Rows
<1> QED
  BY <1>2, <1>6, <1>7, <1>8

\* Every row known has one part before its rig, and the rows remembered are
\* those of their logins.
OwnRowInv ==
  /\ \A k \in Key : keys[k] # None => OneName(keys[k])
  /\ \A c \in Conn : conns[c] # None => OneName(conns[c].id)
  /\ \A l \in DOMAIN cache : OneName(cache[l]) /\ Login(cache[l]) = l

\* A session authorized as someone with one part before the rig.
LEMMA AuthorizedOwnRow ==
  ASSUME IInv, OwnRowInv, NEW c \in Conn, NEW id, NEW via, OneName(id),
         Authorized(c, id, via), keys' = keys
  PROVE  OwnRowInv'
<1>1. conns \in [Conn -> [id: Rows, via: Nat] \cup {None}]
  BY DEF IInv, ConnInv
<1>2. CASE conns[c] = None
  <2>1. /\ conns' = [conns EXCEPT ![c] = [id |-> id, via |-> via]]
        /\ cache' = Remembered(id)
    BY <1>2 DEF Authorized
  <2>2. \A l \in DOMAIN cache' : OneName(cache'[l]) /\ Login(cache'[l]) = l
    BY <2>1 DEF OwnRowInv, Remembered
  <2>3. ASSUME NEW d \in Conn, conns'[d] # None
        PROVE  OneName(conns'[d].id)
    <3>1. CASE d = c
      <4>1. conns'[d] = [id |-> id, via |-> via]
        BY <1>1, <2>1, <3>1
      <4> QED
        BY <4>1
    <3>2. CASE d # c
      <4>1. conns'[d] = conns[d]
        BY <1>1, <2>1, <3>2
      <4> QED
        BY <2>3, <4>1 DEF OwnRowInv
    <3> QED
      BY <3>1, <3>2
  <2> QED
    BY <2>2, <2>3 DEF OwnRowInv
<1>3. CASE conns[c] # None
  <2>1. cache' = cache /\ (conns' = conns \/ conns' = [conns EXCEPT ![c] = None])
    BY <1>3 DEF Authorized
  <2>2. \A d \in Conn : conns'[d] = conns[d] \/ conns'[d] = None
    BY <1>1, <2>1
  <2> QED
    BY <2>1, <2>2 DEF OwnRowInv
<1> QED
  BY <1>2, <1>3

LEMMA InitOwnRow == Init => OwnRowInv
BY DEF Init, OwnRowInv

LEMMA NextOwnRow ==
  ASSUME \A a \in Account : Len(a) = 1, IInv, OwnRowInv, [Next]_vars
  PROVE  OwnRowInv'
<1>1. CASE UNCHANGED <<keys, conns, cache>>
  BY <1>1 DEF OwnRowInv
<1>2. ASSUME NEW e \in enrolling, EnrollInsert(e)
      PROVE  OwnRowInv'
  <2>1. e \in [key: Key, account: Account, name: Name]
    BY DEF IInv, RegistryInv
  <2>2. OneName(Row(e.account, e.name))
    BY <2>1, ControlAssumption DEF OneName, Row, Rows
  <2>3. \A k \in Key : keys'[k] = keys[k] \/ keys'[k] = Row(e.account, e.name)
    BY <1>2, <2>1 DEF EnrollInsert, IInv, RegistryInv
  <2>4. cache' = cache /\ conns' = conns
    BY <1>2 DEF EnrollInsert
  <2> QED
    BY <2>2, <2>3, <2>4 DEF OwnRowInv
<1>3. ASSUME NEW c \in Conn, NEW i \in DOMAIN tokens, AuthorizeToken(c, i)
      PROVE  OwnRowInv'
  <2>1. Stands(tokens[i].id, tokens[i].row, grants, keys)
    BY DEF IInv, TokenInv
  <2>2. Proven(grants[tokens[i].id], asked, keys)
    BY <2>1 DEF Stands, IInv, GrantInv
  <2>3. OneName(tokens[i].row)
    BY <2>1, <2>2 DEF Stands, Proven, OwnRowInv
  <2>4. keys' = keys
    BY <1>3 DEF AuthorizeToken, db
  <2> QED
    BY <1>3, <2>3, <2>4, AuthorizedOwnRow DEF AuthorizeToken, OwnRowInv
<1>4. ASSUME NEW c \in Conn, NEW login \in Logins, AuthorizeName(c, login)
      PROVE  OwnRowInv'
  <2>1. Parsed(login) \in Rows
    BY ParsedRow
  <2>2. Len(Parsed(login).username) = 1
    BY DEF Parsed, Row
  <2>3. keys' = keys
    BY <1>4 DEF AuthorizeName, db
  <2> QED
    BY <1>4, <2>1, <2>2, <2>3, AuthorizedOwnRow DEF AuthorizeName, OneName
<1>5. ASSUME NEW c \in Conn, Disconnect(c)
      PROVE  OwnRowInv'
  <2>1. /\ keys' = keys /\ cache' = cache
        /\ \A d \in Conn : conns'[d] = conns[d] \/ conns'[d] = None
    BY <1>5 DEF Disconnect, db, IInv, ConnInv
  <2> QED
    BY <2>1 DEF OwnRowInv
<1>6. CASE Restart
  <2>1. keys' = keys /\ cache' = << >> /\ conns' = [c \in Conn |-> None]
    BY <1>6 DEF Restart, db
  <2> QED
    BY <2>1 DEF OwnRowInv
<1> QED
  BY <1>1, <1>2, <1>3, <1>4, <1>5, <1>6
  DEF Next, vars, db, Challenge, Attest, BindWallet, CreateAccount, EnrollLook, Tick

\* Where no account id has a dot, every share lands on the row of the rig that
\* is connected, whatever connected before it (index.ts:37-50, 88-99).
THEOREM SpecCreditedToOwnRow ==
  ASSUME \A a \in Account : Len(a) = 1
  PROVE  Spec => []CreditedToOwnRow
<1>1. IInv /\ OwnRowInv /\ [Next]_vars => OwnRowInv'
  BY NextOwnRow
<1>2. OwnRowInv => CreditedToOwnRow
  <2> SUFFICES ASSUME OwnRowInv, NEW c \in Conn, conns[c] # None
               PROVE  RowFor(conns[c].id) = conns[c].id
    BY DEF CreditedToOwnRow
  <2>1. CASE Login(conns[c].id) \in DOMAIN cache
    <3>1. /\ OneName(cache[Login(conns[c].id)]) /\ OneName(conns[c].id)
          /\ Login(cache[Login(conns[c].id)]) = Login(conns[c].id)
      BY <2>1 DEF OwnRowInv
    <3>2. cache[Login(conns[c].id)] = conns[c].id
      BY <3>1, LoginTellsRow
    <3> QED
      BY <2>1, <3>2 DEF RowFor
  <2>2. CASE Login(conns[c].id) \notin DOMAIN cache
    BY <2>2 DEF RowFor
  <2> QED
    BY <2>1, <2>2
<1> QED
  BY <1>1, <1>2, InitOwnRow, SpecIInv, PTL DEF Spec
=============================================================================
