---------------------------- MODULE ProxyProofs -----------------------------
(* Proofs about Proxy, for any connections, workers, bounds and timeout.   *)
EXTENDS Proxy, SumProofs, SequenceTheorems, FiniteSetTheorems, TLAPS

-----------------------------------------------------------------------------
(* Types.                                                                  *)

AnyId == Nat \cup Id \cup {None}

Req == [method: {"authorize", "submit", "other"}, id: AnyId, share: Nat, line: Nat]

Msg == [kind: {"answer", "difficulty", "reconnect"}, id: AnyId, ok: BOOLEAN,
        value: Weight \cup {1}]

SesRec == [conn: Conn \cup {None}, upstream: {"null", "dialing", "ready", "closed"},
           identity: Worker \cup {None}, difficulty: Weight \cup {1}, ended: BOOLEAN,
           queued: Seq(Req), pending: SUBSET Nat, out: Seq(Req), answered: SUBSET Nat,
           down: Seq(Msg)]

Share == [session: Sessions, worker: Worker, key: AnyId, weight: Weight \cup {1}, at: Nat,
          verdict: BOOLEAN \cup {None}, outcome: Outcomes \cup {None}]

\* The variables but the books, whose weights are sums.
TypeInv ==
  /\ sock \in [Conn -> {"new", "open", "closed"}]
  /\ sessions \in [Conn -> 0..MaxSession]
  /\ ses \in [Sessions -> SesRec]
  /\ shares \in Seq(Share)
  /\ lines \in [Conn -> Nat]
  /\ now \in Nat
  /\ turn \in [side: {"none", "miner", "pool", "exited"}, at: Conn \cup Sessions \cup {None},
               left: Int]

LEMMA Bounds ==
  /\ None \notin Conn /\ None \notin Worker /\ None \notin Outcomes
  /\ MaxSession \in Nat /\ ChunkLines \in Nat \ {0}
BY ProxyAssumption

LEMMA InitTypeInv == Init => TypeInv
<1> SUFFICES ASSUME Init
             PROVE  TypeInv
  OBVIOUS
<1>1. NewSession \in SesRec
  BY DEF NewSession, SesRec
<1>2. NoTurn \in [side: {"none", "miner", "pool", "exited"},
                  at: Conn \cup Sessions \cup {None}, left: Int]
  BY DEF NoTurn
<1>3. ses \in [Sessions -> SesRec]
  BY <1>1 DEF Init
<1>4. shares \in Seq(Share)
  BY EmptySeq DEF Init
<1> QED
  BY <1>2, <1>3, <1>4, Bounds DEF Init, TypeInv

-----------------------------------------------------------------------------
(* What a step does to one session.                                        *)

LEMMA SesUpdated ==
  ASSUME TypeInv, NEW s \in Sessions, NEW x \in SesRec, ses' = [ses EXCEPT ![s] = x]
  PROVE  /\ ses' \in [Sessions -> SesRec] /\ ses'[s] = x
         /\ \A t \in Sessions : t # s => ses'[t] = ses[t]
BY DEF TypeInv

LEMMA EndedRec ==
  ASSUME NEW v \in SesRec
  PROVE  /\ Ended(v) \in SesRec /\ Ended(v).ended = TRUE
         /\ Ended(v).upstream = IF v.upstream = "null" THEN "null" ELSE "closed"
         /\ Ended(v).conn = v.conn /\ Ended(v).identity = v.identity
         /\ Ended(v).difficulty = v.difficulty /\ Ended(v).pending = v.pending
         /\ Ended(v).queued = v.queued /\ Ended(v).out = v.out
         /\ Ended(v).answered = v.answered /\ Ended(v).down = v.down
BY DEF Ended, SesRec

\* Sent(v, x, m): session v became x by relaying m or holding it for the dial.
Sent(v, x, m) ==
  \/ x.upstream = "ready" /\ x.out = Append(v.out, m) /\ x.queued = v.queued
  \/ /\ x.upstream # "ready" /\ Len(v.queued) < MaxQueued
     /\ x.queued = Append(v.queued, m) /\ x.out = v.out

Same(v, x) == x.out = v.out /\ x.queued = v.queued

\* The upstream socket is as it was, or is being dialed now.
Up(v, x) == x.upstream = v.upstream \/ (v.upstream = "null" /\ x.upstream = "dialing")

\* Nothing else of the session changed.
Rest(v, x) == /\ x.conn = v.conn /\ x.identity = v.identity /\ x.pending = v.pending
              /\ x.difficulty = v.difficulty /\ x.ended = v.ended
              /\ x.answered = v.answered /\ x.down = v.down

LEMMA ForwardShape ==
  ASSUME NEW s, NEW v \in SesRec, NEW m \in Req, Forward(s, v, m)
  PROVE  \E x \in SesRec : /\ Rest(v, x) /\ Up(v, x)
                           /\ \/ Keep(s, x) /\ Sent(v, x, m)
                              \/ End(s, x) /\ Same(v, x)
<1> DEFINE u == [v EXCEPT !.upstream = IF @ = "null" THEN "dialing" ELSE @]
<1>1. u \in SesRec /\ Rest(v, u) /\ Up(v, u) /\ Same(v, u)
  BY DEF SesRec, Rest, Up, Same
<1>2. CASE u.upstream = "ready" /\ Keep(s, [u EXCEPT !.out = Append(@, m)])
  <2>1. PICK q \in Seq(Req) : q = Append(u.out, m)
    <3>1. u.out \in Seq(Req)
      BY <1>1 DEF SesRec
    <3> HIDE DEF u
    <3> QED
      BY <3>1, AppendProperties
  <2>2. PICK x : x = [u EXCEPT !.out = q]
    OBVIOUS
  <2> HIDE DEF u
  <2>3. x \in SesRec /\ x.upstream = u.upstream /\ x.out = q /\ x.queued = u.queued /\ Rest(u, x)
    BY <1>1, <2>2 DEF SesRec, Rest
  <2>4. Keep(s, x)
    BY <1>2, <2>1, <2>2
  <2>5. Rest(v, x) /\ Up(v, x) /\ Sent(v, x, m)
    BY <1>1, <1>2, <2>1, <2>3 DEF Rest, Up, Same, Sent
  <2> QED
    BY <2>3, <2>4, <2>5
<1>3. CASE /\ u.upstream # "ready" /\ Len(u.queued) < MaxQueued
           /\ Keep(s, [u EXCEPT !.queued = Append(@, m)])
  <2>1. PICK q \in Seq(Req) : q = Append(u.queued, m)
    <3>1. u.queued \in Seq(Req)
      BY <1>1 DEF SesRec
    <3> HIDE DEF u
    <3> QED
      BY <3>1, AppendProperties
  <2>2. PICK x : x = [u EXCEPT !.queued = q]
    OBVIOUS
  <2> HIDE DEF u
  <2>3. x \in SesRec /\ x.upstream = u.upstream /\ x.queued = q /\ x.out = u.out /\ Rest(u, x)
    BY <1>1, <2>2 DEF SesRec, Rest
  <2>4. Keep(s, x)
    BY <1>3, <2>1, <2>2
  <2>5. Rest(v, x) /\ Up(v, x) /\ Sent(v, x, m)
    BY <1>1, <1>3, <2>1, <2>3 DEF Rest, Up, Same, Sent
  <2> QED
    BY <2>3, <2>4, <2>5
<1>4. CASE End(s, u)
  BY <1>1, <1>4
<1> QED
  BY <1>2, <1>3, <1>4 DEF Forward

\* Keep and End leave the other sessions alone.
LEMMA KeptOrEnded ==
  ASSUME TypeInv, NEW s \in Sessions, NEW x \in SesRec, Keep(s, x) \/ End(s, x)
  PROVE  /\ ses' \in [Sessions -> SesRec]
         /\ \A t \in Sessions : t # s => ses'[t] = ses[t]
         /\ Keep(s, x) => ses'[s] = x
         /\ End(s, x) => ses'[s] = IF x.ended THEN x ELSE Ended(x)
         /\ sock' \in [Conn -> {"new", "open", "closed"}]
         /\ sessions' \in [Conn -> 0..MaxSession]
<1>1. s \in 0..MaxSession
  BY Bounds DEF Sessions
<1>2. CASE Keep(s, x)
  <2>1. ses' = [ses EXCEPT ![s] = x]
    BY <1>2 DEF Keep
  <2>2. /\ ses' \in [Sessions -> SesRec] /\ ses'[s] = x
        /\ \A t \in Sessions : t # s => ses'[t] = ses[t]
    BY <2>1, SesUpdated
  <2>3. End(s, x) => ses'[s] = IF x.ended THEN x ELSE Ended(x)
    <3>1. CASE x.ended
      BY <2>2, <3>1
    <3>2. ASSUME ~x.ended, End(s, x)
          PROVE  ses'[s] = Ended(x)
      <4>1. ses' = [ses EXCEPT ![s] = Ended(x)]
        BY <3>2 DEF End
      <4> QED
        BY <4>1, EndedRec, SesUpdated
    <3> QED
      BY <3>1, <3>2
  <2>4. /\ sock' \in [Conn -> {"new", "open", "closed"}]
        /\ sessions' \in [Conn -> 0..MaxSession]
    BY <1>1, <1>2 DEF Keep, TypeInv
  <2> QED
    BY <2>2, <2>3, <2>4
<1>3. CASE End(s, x) /\ ~Keep(s, x)
  <2>1. /\ ~x.ended /\ ses' = [ses EXCEPT ![s] = Ended(x)]
        /\ sock' = [sock EXCEPT ![x.conn] = "closed"]
        /\ sessions' = [sessions EXCEPT ![x.conn] = IF sock[x.conn] = "open" THEN 0 ELSE s]
    BY <1>3 DEF End
  <2>2. /\ ses' \in [Sessions -> SesRec] /\ ses'[s] = Ended(x)
        /\ \A t \in Sessions : t # s => ses'[t] = ses[t]
    BY <2>1, EndedRec, SesUpdated
  <2>3. /\ sock' \in [Conn -> {"new", "open", "closed"}]
        /\ sessions' \in [Conn -> 0..MaxSession]
    <3>1. PICK n \in 0..MaxSession : n = IF sock[x.conn] = "open" THEN 0 ELSE s
      BY <1>1, Bounds
    <3>2. sessions' = [sessions EXCEPT ![x.conn] = n]
      BY <2>1, <3>1
    <3> QED
      BY <2>1, <3>2 DEF TypeInv
  <2> QED
    BY <1>3, <2>1, <2>2, <2>3
<1> QED
  BY <1>2, <1>3

\* The ways a line of the miner ends: nothing is sent, m is sent or held, or
\* the session ends.
Quiet(s, x) == Keep(s, x) /\ Same(ses[s], x) /\ x.upstream = ses[s].upstream
Relays(s, x, m) == ~x.ended /\ Up(ses[s], x) /\ Keep(s, x) /\ Sent(ses[s], x, m)
Ends(s, x) == ~x.ended /\ Up(ses[s], x) /\ End(s, x) /\ Same(ses[s], x)

\* What a session knows of its miner changes only by these.
NoSubmit(s, x, m) ==
  /\ x.identity = ses[s].identity /\ x.pending = ses[s].pending
  /\ UNCHANGED <<shares, books>>
  /\ m.method = "other" /\ m.share = 0
  /\ Quiet(s, x) \/ Relays(s, x, m) \/ Ends(s, x)

Login(s, x, m) ==
  /\ x.identity \in Worker /\ ses[s].identity \in {None, x.identity}
  /\ x.pending = ses[s].pending
  /\ UNCHANGED <<shares, books>>
  /\ m.method = "authorize" /\ m.share = 0
  /\ Relays(s, x, m) \/ Ends(s, x)

Refused(s, x, late) ==
  /\ x.identity = ses[s].identity
  /\ late \subseteq ses[s].pending /\ x.pending = ses[s].pending \ late
  /\ shares' = Marked(late, "unresolved") /\ books' = Book(late, "unresolved")
  /\ Quiet(s, x) \/ Ends(s, x)

NewShare(s, id) ==
  [session |-> s, worker |-> ses[s].identity, key |-> id, weight |-> ses[s].difficulty,
   at |-> now, verdict |-> None, outcome |-> None]

Submitted(s, x, late, m) ==
  /\ ses[s].identity # None /\ x.identity = ses[s].identity
  /\ late \subseteq ses[s].pending
  /\ ~(Cardinality(ses[s].pending \ late) >= MaxPending)
  /\ x.pending = (ses[s].pending \ late) \cup {Len(shares) + 1}
  /\ shares' = Append(Marked(late, "unresolved"), NewShare(s, m.id))
  /\ books' = Book(late, "unresolved")
  /\ m.method = "submit" /\ m.share = Len(shares) + 1
  /\ Relays(s, x, m) \/ Ends(s, x)

\* The session of connection c, or the first that is free.
Chosen(c, s) == IF sessions[c] # 0 THEN s = sessions[c]
                ELSE ses[s].conn = None /\ \A t \in 1..(s - 1) : ses[t].conn # None

MinerStep(c, s, x, late, m) ==
  /\ Chosen(c, s)
  /\ x.conn = c /\ x.ended = ses[s].ended /\ x.difficulty = ses[s].difficulty
  /\ x.answered = ses[s].answered /\ x.down = ses[s].down
  /\ m.line = lines[c] + 1 /\ m.id \in NextIds(c) \cup {None}
  /\ \/ NoSubmit(s, x, m)
     \/ Login(s, x, m)
     \/ Refused(s, x, late)
     \/ Submitted(s, x, late, m)

LEMMA RequestReq ==
  ASSUME TypeInv, NEW c \in Conn, NEW method \in {"authorize", "submit", "other"},
         NEW id \in NextIds(c) \cup {None}, NEW n \in Nat
  PROVE  /\ Request(method, id, n, c) \in Req
         /\ Request(method, id, n, c).method = method /\ Request(method, id, n, c).id = id
         /\ Request(method, id, n, c).share = n
         /\ Request(method, id, n, c).line = lines[c] + 1
<1>1. lines[c] \in Nat /\ id \in AnyId
  BY DEF TypeInv, NextIds, AnyId
<1> QED
  BY <1>1 DEF Request, Req

LEMMA MinerLineShape ==
  ASSUME TypeInv, NEW c \in Conn, MinerLine(c)
  PROVE  \E s \in Sessions, x \in SesRec, late \in SUBSET Nat, m \in Req :
           MinerStep(c, s, x, late, m)
<1>1. PICK s \in Sessions :
         /\ Chosen(c, s)
         /\ LET v == [ses[s] EXCEPT !.conn = c] IN
            IF v.ended THEN Keep(s, v) /\ UNCHANGED <<shares, books>>
            ELSE \/ \E id \in NextIds(c), w \in Worker \cup {None} : Authorize(s, v, c, id, w)
                 \/ \E id \in NextIds(c) \cup {None} : Submit(s, v, c, id)
                 \/ \E id \in NextIds(c) :
                      /\ Forward(s, v, Request("other", id, 0, c))
                      /\ UNCHANGED <<shares, books>>
  BY DEF MinerLine, Chosen
<1>2. PICK v : v = [ses[s] EXCEPT !.conn = c]
  OBVIOUS
<1>3. /\ v \in SesRec /\ v.conn = c /\ v.ended = ses[s].ended
      /\ v.difficulty = ses[s].difficulty /\ v.answered = ses[s].answered
      /\ v.down = ses[s].down /\ v.identity = ses[s].identity
      /\ v.pending = ses[s].pending /\ v.upstream = ses[s].upstream
      /\ v.out = ses[s].out /\ v.queued = ses[s].queued
  BY <1>2 DEF TypeInv, SesRec
<1>4. Len(shares) \in Nat
  BY LenProperties DEF TypeInv
<1>5. PICK o \in Req : /\ o.method = "other" /\ o.share = 0 /\ o.line = lines[c] + 1
                       /\ o.id = None
  BY RequestReq
<1>6. CASE Keep(s, v) /\ UNCHANGED <<shares, books>>
  <2>1. NoSubmit(s, v, o)
    BY <1>3, <1>5, <1>6 DEF NoSubmit, Quiet, Same
  <2> QED
    BY <1>1, <1>3, <1>5, <2>1 DEF MinerStep
<1>7. CASE ~v.ended /\ End(s, v) /\ UNCHANGED <<shares, books>>
  <2>1. NoSubmit(s, v, o)
    BY <1>3, <1>5, <1>7 DEF NoSubmit, Ends, Same, Up
  <2> QED
    BY <1>1, <1>3, <1>5, <2>1 DEF MinerStep
<1>8. ASSUME ~v.ended, NEW id \in NextIds(c),
             Forward(s, v, Request("other", id, 0, c)), UNCHANGED <<shares, books>>
      PROVE  \E z \in Sessions, x \in SesRec, late \in SUBSET Nat, m \in Req :
               MinerStep(c, z, x, late, m)
  <2>1. PICK m \in Req : /\ m = Request("other", id, 0, c) /\ m.method = "other" /\ m.id = id
                         /\ m.share = 0 /\ m.line = lines[c] + 1
    BY RequestReq
  <2>2. PICK x \in SesRec : /\ Rest(v, x) /\ Up(v, x)
                            /\ (Keep(s, x) /\ Sent(v, x, m)) \/ (End(s, x) /\ Same(v, x))
    BY <1>3, <1>8, <2>1, ForwardShape
  <2>3. Relays(s, x, m) \/ Ends(s, x)
    BY <1>3, <1>8, <2>2 DEF Relays, Ends, Rest, Up, Sent, Same
  <2>4. NoSubmit(s, x, m)
    BY <1>3, <1>8, <2>1, <2>2, <2>3 DEF NoSubmit, Rest
  <2> QED
    BY <1>1, <1>3, <2>1, <2>2, <2>4 DEF MinerStep, Rest
<1>9. ASSUME ~v.ended, NEW id \in NextIds(c), NEW w \in Worker, ~SecondLogin(v, w),
             Forward(s, [v EXCEPT !.identity = w], Request("authorize", id, 0, c)),
             UNCHANGED <<shares, books>>
      PROVE  \E z \in Sessions, x \in SesRec, late \in SUBSET Nat, m \in Req :
               MinerStep(c, z, x, late, m)
  <2>1. PICK m \in Req : /\ m = Request("authorize", id, 0, c) /\ m.method = "authorize"
                         /\ m.id = id /\ m.share = 0 /\ m.line = lines[c] + 1
    BY RequestReq
  <2>2. PICK u : u = [v EXCEPT !.identity = w]
    OBVIOUS
  <2>3. /\ u \in SesRec /\ u.conn = c /\ u.ended = ses[s].ended
        /\ u.difficulty = ses[s].difficulty /\ u.answered = ses[s].answered
        /\ u.down = ses[s].down /\ u.identity = w
        /\ u.pending = ses[s].pending /\ u.upstream = ses[s].upstream
        /\ u.out = ses[s].out /\ u.queued = ses[s].queued
    BY <1>3, <2>2 DEF SesRec
  <2>4. PICK x \in SesRec : /\ Rest(u, x) /\ Up(u, x)
                            /\ (Keep(s, x) /\ Sent(u, x, m)) \/ (End(s, x) /\ Same(u, x))
    BY <1>9, <2>1, <2>2, <2>3, ForwardShape
  <2>5. Relays(s, x, m) \/ Ends(s, x)
    BY <1>3, <1>9, <2>3, <2>4 DEF Relays, Ends, Rest, Up, Sent, Same
  <2>6. Login(s, x, m)
    BY <1>3, <1>9, <2>1, <2>3, <2>4, <2>5 DEF Login, Rest, SecondLogin
  <2> QED
    BY <1>1, <1>3, <2>1, <2>3, <2>4, <2>6 DEF MinerStep, Rest
<1>10. ASSUME ~v.ended, NEW id \in NextIds(c) \cup {None}, Submit(s, v, c, id)
       PROVE  \E z \in Sessions, x \in SesRec, late \in SUBSET Nat, m \in Req :
               MinerStep(c, z, x, late, m)
  <2>1. PICK late : late = Expired(v)
    OBVIOUS
  <2>2. late \subseteq ses[s].pending /\ late \in SUBSET Nat
    BY <1>3, <2>1 DEF Expired, SesRec
  <2>3. PICK u : u = Drop(v, late)
    OBVIOUS
  <2>4. /\ u \in SesRec /\ u.conn = c /\ u.ended = ses[s].ended
        /\ u.difficulty = ses[s].difficulty /\ u.answered = ses[s].answered
        /\ u.down = ses[s].down /\ u.identity = ses[s].identity
        /\ u.pending = ses[s].pending \ late /\ u.upstream = ses[s].upstream
        /\ u.out = ses[s].out /\ u.queued = ses[s].queued
    BY <1>3, <2>3 DEF SesRec, Drop
  <2>5. CASE v.identity = None /\ Keep(s, v) /\ UNCHANGED <<shares, books>>
    BY <1>6, <2>5
  <2>6. CASE /\ books' = Book(late, "unresolved") /\ shares' = Marked(late, "unresolved")
             /\ Keep(s, u) \/ End(s, u)
    <3>1. Quiet(s, u) \/ Ends(s, u)
      BY <1>3, <1>10, <2>4, <2>6 DEF Quiet, Ends, Same, Up
    <3>2. Refused(s, u, late)
      BY <2>2, <2>4, <2>6, <3>1 DEF Refused
    <3> QED
      BY <1>1, <1>5, <2>2, <2>4, <3>2 DEF MinerStep
  <2>7. CASE /\ v.identity # None /\ books' = Book(late, "unresolved") /\ ~Full(u)
             /\ shares' = Append(Marked(late, "unresolved"),
                  [session |-> s, worker |-> v.identity, key |-> id,
                   weight |-> v.difficulty, at |-> now, verdict |-> None,
                   outcome |-> None])
             /\ Forward(s, [u EXCEPT !.pending = @ \cup {Len(shares) + 1}],
                        Request("submit", id, Len(shares) + 1, c))
    <3>1. PICK m \in Req : /\ m = Request("submit", id, Len(shares) + 1, c)
                           /\ m.method = "submit" /\ m.id = id
                           /\ m.share = Len(shares) + 1 /\ m.line = lines[c] + 1
      BY <1>4, RequestReq
    <3>2. PICK y : y = [u EXCEPT !.pending = @ \cup {Len(shares) + 1}]
      OBVIOUS
    <3>3. /\ y \in SesRec /\ y.conn = c /\ y.ended = ses[s].ended
          /\ y.difficulty = ses[s].difficulty /\ y.answered = ses[s].answered
          /\ y.down = ses[s].down /\ y.identity = ses[s].identity
          /\ y.pending = (ses[s].pending \ late) \cup {Len(shares) + 1}
          /\ y.upstream = ses[s].upstream
          /\ y.out = ses[s].out /\ y.queued = ses[s].queued
      <4>1. PICK p \in SUBSET Nat : p = u.pending \cup {Len(shares) + 1}
        <5>1. u.pending \in SUBSET Nat
          BY <2>4 DEF SesRec
        <5>2. u.pending \cup {Len(shares) + 1} \in SUBSET Nat
          BY <1>4, <5>1
        <5> QED
          BY <5>2
      <4>2. y = [u EXCEPT !.pending = p]
        BY <3>2, <4>1
      <4> QED
        BY <2>4, <4>1, <4>2 DEF SesRec
    <3>4. PICK x \in SesRec : /\ Rest(y, x) /\ Up(y, x)
                              /\ (Keep(s, x) /\ Sent(y, x, m)) \/ (End(s, x) /\ Same(y, x))
      BY <2>7, <3>1, <3>2, <3>3, ForwardShape
    <3>5. Relays(s, x, m) \/ Ends(s, x)
      BY <1>3, <1>10, <3>3, <3>4 DEF Relays, Ends, Rest, Up, Sent, Same
    <3>6. Submitted(s, x, late, m)
      BY <1>3, <2>2, <2>4, <2>7, <3>1, <3>3, <3>4, <3>5 DEF Submitted, Rest, NewShare, Full
    <3> QED
      BY <1>1, <2>2, <3>1, <3>3, <3>4, <3>6 DEF MinerStep, Rest
  <2> QED
    BY <1>10, <2>1, <2>3, <2>5, <2>6, <2>7 DEF Submit
<1>11. CASE v.ended
  BY <1>1, <1>2, <1>6, <1>11
<1>12. CASE ~v.ended
  <2>1. CASE \E id \in NextIds(c), w \in Worker \cup {None} : Authorize(s, v, c, id, w)
    <3>1. PICK id \in NextIds(c), w \in Worker \cup {None} : Authorize(s, v, c, id, w)
      BY <2>1
    <3>2. CASE w = None \/ SecondLogin(v, w)
      BY <1>6, <1>7, <1>9, <1>12, <3>1, <3>2 DEF Authorize
    <3>3. CASE w # None /\ ~SecondLogin(v, w)
      BY <1>9, <1>12, <3>1, <3>3 DEF Authorize
    <3> QED
      BY <3>2, <3>3
  <2> QED
    BY <1>1, <1>2, <1>8, <1>10, <1>12, <2>1
<1> QED
  BY <1>11, <1>12

-----------------------------------------------------------------------------
(* Types are preserved.                                                    *)

\* What the event loop does with its turn.
LEMMA LineTurn ==
  ASSUME TypeInv, NEW side \in {"miner", "pool"}, NEW at \in Conn \cup Sessions,
         NEW mayStart, NEW available, Line(side, at, mayStart, available)
  PROVE  /\ turn' \in [side: {"none", "miner", "pool", "exited"},
                       at: Conn \cup Sessions \cup {None}, left: Int]
         /\ turn'.side = "none" \/ (turn'.side = side /\ turn'.at = at)
         /\ mayStart \/ (turn.side = side /\ turn.at = at)
<1> DEFINE T == [side: {"none", "miner", "pool", "exited"},
                 at: Conn \cup Sessions \cup {None}, left: Int]
<1>1. turn \in T
  BY DEF TypeInv
<1>2. NoTurn \in T /\ NoTurn.side = "none"
  BY DEF NoTurn
<1>3. CASE mayStart /\ \E more \in 0..(ChunkLines - 1) :
             turn' = IF more = 0 THEN NoTurn ELSE [side |-> side, at |-> at, left |-> more]
  <2>1. PICK more \in Int :
           turn' = IF more = 0 THEN NoTurn ELSE [side |-> side, at |-> at, left |-> more]
    BY <1>3, Bounds
  <2> QED
    BY <1>2, <1>3, <2>1
<1>4. CASE /\ turn.side = side /\ turn.at = at
           /\ turn' = IF turn.left = 1 THEN NoTurn ELSE [turn EXCEPT !.left = @ - 1]
  <2>1. turn.left - 1 \in Int
    BY <1>1
  <2>2. CASE turn.left = 1
    BY <1>2, <1>4, <2>2
  <2>3. CASE turn.left # 1
    <3>1. PICK left \in Int : left = turn.left - 1
      BY <2>1
    <3>2. turn' = [turn EXCEPT !.left = left]
      BY <1>4, <2>3, <3>1
    <3> QED
      BY <1>1, <1>4, <3>2
  <2> QED
    BY <2>2, <2>3
<1> QED
  BY <1>3, <1>4 DEF Line

LEMMA MarkedShares ==
  ASSUME TypeInv, NEW S, NEW o \in Outcomes
  PROVE  /\ Marked(S, o) \in Seq(Share) /\ Len(Marked(S, o)) = Len(shares)
         /\ Len(shares) \in Nat /\ DOMAIN shares = 1..Len(shares)
         /\ DOMAIN Marked(S, o) = DOMAIN shares
         /\ \A n \in DOMAIN shares :
              /\ shares[n] \in Share
              /\ Marked(S, o)[n] = IF n \in S THEN [shares[n] EXCEPT !.outcome = o]
                                   ELSE shares[n]
<1>1. Len(shares) \in Nat /\ DOMAIN shares = 1..Len(shares) /\ shares \in Seq(Share)
  BY LenProperties DEF TypeInv
<1>2. \A n \in 1..Len(shares) : shares[n] \in Share
  <2> HIDE DEF Share
  <2> QED
    BY <1>1, ElementOfSeq
<1>3. \A n \in 1..Len(shares) : [shares[n] EXCEPT !.outcome = o] \in Share
  <2> TAKE n \in 1..Len(shares)
  <2>1. PICK h \in Share : h = shares[n]
    BY <1>2
  <2>2. [h EXCEPT !.outcome = o] \in Share
    BY DEF Share
  <2> QED
    BY <2>1, <2>2
<1>4. Marked(S, o) \in [1..Len(shares) -> Share]
  BY <1>1, <1>2, <1>3 DEF Marked
<1>5. Marked(S, o) \in Seq(Share) /\ Len(Marked(S, o)) = Len(shares)
  BY <1>1, <1>4, SeqDef, LenProperties
<1> QED
  BY <1>1, <1>2, <1>5 DEF Marked

LEMMA MinerType ==
  ASSUME TypeInv, NEW c \in Conn, MinerLine(c)
  PROVE  TypeInv'
<1>1. PICK s \in Sessions, x \in SesRec, late \in SUBSET Nat, m \in Req :
         MinerStep(c, s, x, late, m)
  BY MinerLineShape
<1>2. Keep(s, x) \/ End(s, x)
  BY <1>1 DEF MinerStep, NoSubmit, Login, Refused, Submitted, Quiet, Relays, Ends
<1>3. /\ ses' \in [Sessions -> SesRec]
      /\ sock' \in [Conn -> {"new", "open", "closed"}]
      /\ sessions' \in [Conn -> 0..MaxSession]
  BY <1>2, KeptOrEnded
<1>4. shares' \in Seq(Share)
  <2>1. CASE UNCHANGED shares
    BY <2>1 DEF TypeInv
  <2>2. Marked(late, "unresolved") \in Seq(Share)
    BY MarkedShares DEF Outcomes
  <2>3. CASE Submitted(s, x, late, m)
    <3>1. NewShare(s, m.id) \in Share
      <4>1. ses[s] \in SesRec /\ ses[s].identity # None /\ m.id \in AnyId /\ now \in Nat
        BY <2>3 DEF Submitted, TypeInv, Req
      <4> QED
        BY <4>1 DEF SesRec, NewShare, Share
    <3>2. shares' = Append(Marked(late, "unresolved"), NewShare(s, m.id))
      BY <2>3 DEF Submitted
    <3> HIDE DEF Share
    <3> QED
      BY <2>2, <3>1, <3>2, AppendProperties
  <2> QED
    BY <1>1, <2>1, <2>2, <2>3 DEF MinerStep, NoSubmit, Login, Refused
<1>5. lines' \in [Conn -> Nat] /\ now' \in Nat
  <2>1. PICK k \in Nat : k = lines[c] + 1
    BY DEF TypeInv
  <2>2. lines' = [lines EXCEPT ![c] = k]
    BY <2>1 DEF MinerLine
  <2> QED
    BY <2>2 DEF TypeInv, MinerLine
<1>6. turn' \in [side: {"none", "miner", "pool", "exited"},
                 at: Conn \cup Sessions \cup {None}, left: Int]
  BY LineTurn DEF MinerLine
<1> QED
  BY <1>3, <1>4, <1>5, <1>6 DEF TypeInv

\* A line of the pool.
PoolStep(s, x, m, done) ==
  /\ ses[s].down # <<>> /\ m = Head(ses[s].down) /\ x.down = Tail(ses[s].down)
  /\ done = Resolved(ses[s], m) /\ done \subseteq ses[s].pending
  /\ x.pending = ses[s].pending \ done
  /\ x.conn = ses[s].conn /\ x.identity = ses[s].identity /\ x.ended = ses[s].ended
  /\ x.upstream = ses[s].upstream /\ x.answered = ses[s].answered
  /\ Same(ses[s], x)
  /\ Keep(s, x) \/ End(s, x)
  /\ \E o \in {"accepted", "rejected"} :
       /\ o = IF m.kind = "answer" /\ m.ok THEN "accepted" ELSE "rejected"
       /\ shares' = Marked(done, o) /\ books' = Book(done, o)
  /\ UNCHANGED <<lines, now, stopping>>

LEMMA PoolLineShape ==
  ASSUME TypeInv, NEW s \in Sessions, PoolLine(s)
  PROVE  \E x \in SesRec, m \in Msg, done \in SUBSET Nat : PoolStep(s, x, m, done)
<1>1. PICK v \in SesRec : v = ses[s]
  BY DEF TypeInv
<1>2. v.down # <<>> /\ v.down \in Seq(Msg)
  BY <1>1 DEF PoolLine, SesRec
<1>3. PICK m \in Msg, rest \in Seq(Msg) : m = Head(v.down) /\ rest = Tail(v.down)
  <2> HIDE DEF Msg
  <2> QED
    BY <1>2, HeadTailProperties
<1>4. PICK done : done = Resolved(v, m)
  OBVIOUS
<1>5. done \in SUBSET Nat /\ done \subseteq v.pending
  BY <1>4 DEF Resolved, SesRec
<1>6. PICK r : r = [v EXCEPT !.down = rest]
  OBVIOUS
<1>7. /\ r \in SesRec /\ r.down = rest /\ r.pending = v.pending /\ r.conn = v.conn
      /\ r.identity = v.identity /\ r.ended = v.ended /\ r.upstream = v.upstream
      /\ r.answered = v.answered /\ Same(v, r)
  BY <1>6 DEF SesRec, Same
<1>8. /\ \/ m.kind = "reconnect" /\ End(s, r)
         \/ m.kind = "difficulty" /\ Keep(s, [r EXCEPT !.difficulty = m.value])
         \/ m.kind = "answer" /\ Keep(s, Drop(r, done))
      /\ books' = Book(done, IF m.kind = "answer" /\ m.ok THEN "accepted" ELSE "rejected")
      /\ shares' = Marked(done, IF m.kind = "answer" /\ m.ok THEN "accepted" ELSE "rejected")
      /\ UNCHANGED <<lines, now, stopping>>
  BY <1>1, <1>3, <1>4, <1>6 DEF PoolLine
<1>9. PICK x \in SesRec :
        /\ x.down = rest /\ x.conn = v.conn /\ x.pending = v.pending \ done
        /\ x.identity = v.identity /\ x.ended = v.ended /\ x.upstream = v.upstream
        /\ x.answered = v.answered /\ Same(v, x)
        /\ Keep(s, x) \/ End(s, x)
  <2>1. CASE m.kind = "reconnect" /\ End(s, r)
    <3>1. done = {}
      BY <1>4, <2>1 DEF Resolved
    <3> QED
      BY <1>7, <2>1, <3>1
  <2>2. CASE m.kind = "difficulty" /\ Keep(s, [r EXCEPT !.difficulty = m.value])
    <3>1. done = {}
      BY <1>4, <2>2 DEF Resolved
    <3>2. m.value \in Weight \cup {1}
      BY DEF Msg
    <3>3. PICK y : y = [r EXCEPT !.difficulty = m.value]
      OBVIOUS
    <3>4. /\ y \in SesRec /\ y.down = rest /\ y.pending = v.pending /\ y.conn = v.conn
          /\ y.identity = v.identity /\ y.ended = v.ended /\ y.upstream = v.upstream
          /\ y.answered = v.answered /\ Same(v, y)
      BY <1>7, <3>2, <3>3 DEF SesRec, Same
    <3> QED
      BY <2>2, <3>1, <3>3, <3>4
  <2>3. CASE m.kind = "answer" /\ Keep(s, Drop(r, done))
    <3>1. PICK y : y = Drop(r, done)
      OBVIOUS
    <3>2. /\ y \in SesRec /\ y.down = rest /\ y.pending = v.pending \ done /\ y.conn = v.conn
          /\ y.identity = v.identity /\ y.ended = v.ended /\ y.upstream = v.upstream
          /\ y.answered = v.answered /\ Same(v, y)
      BY <1>7, <3>1 DEF SesRec, Same, Drop
    <3> QED
      BY <2>3, <3>1, <3>2
  <2> QED
    BY <1>8, <2>1, <2>2, <2>3
<1> QED
  BY <1>1, <1>2, <1>3, <1>4, <1>5, <1>8, <1>9 DEF PoolStep

LEMMA PoolType ==
  ASSUME TypeInv, NEW s \in Sessions, PoolLine(s)
  PROVE  TypeInv'
<1>1. PICK x \in SesRec, m \in Msg, done \in SUBSET Nat : PoolStep(s, x, m, done)
  BY PoolLineShape
<1>2. /\ ses' \in [Sessions -> SesRec]
      /\ sock' \in [Conn -> {"new", "open", "closed"}]
      /\ sessions' \in [Conn -> 0..MaxSession]
  BY <1>1, KeptOrEnded DEF PoolStep
<1>3. shares' \in Seq(Share)
  BY <1>1, MarkedShares DEF PoolStep, Outcomes
<1>4. turn' \in [side: {"none", "miner", "pool", "exited"},
                 at: Conn \cup Sessions \cup {None}, left: Int]
  BY LineTurn DEF PoolLine
<1> QED
  BY <1>1, <1>2, <1>3, <1>4 DEF TypeInv, PoolStep

\* Only the queue, the messages sent and the state of the upstream socket change.
Flush(s, x) ==
  /\ ses[s].upstream = "dialing" /\ x.upstream = "ready"
  /\ x.out = ses[s].out \o ses[s].queued /\ x.queued = <<>>
  /\ Rest(ses[s], x)
  /\ ses' = [ses EXCEPT ![s] = x]

LEMMA ConnectedShape ==
  ASSUME TypeInv, NEW s \in Sessions, Connected(s)
  PROVE  \E x \in SesRec : Flush(s, x)
<1>1. PICK v \in SesRec : v = ses[s]
  BY DEF TypeInv
<1>2. PICK q \in Seq(Req) : q = v.out \o v.queued
  <2>1. v.out \in Seq(Req) /\ v.queued \in Seq(Req)
    BY <1>1 DEF SesRec
  <2> HIDE DEF Req
  <2> QED
    BY <2>1, ConcatProperties
<1>3. PICK x : x = [v EXCEPT !.out = q, !.queued = <<>>, !.upstream = "ready"]
  OBVIOUS
<1>4. [Flushed(v) EXCEPT !.upstream = "ready"] = x
  BY <1>1, <1>2, <1>3 DEF Flushed, SesRec
<1>5. <<>> \in Seq(Req)
  BY EmptySeq
<1>6. /\ x \in SesRec /\ x.upstream = "ready" /\ x.out = q /\ x.queued = <<>> /\ Rest(v, x)
  BY <1>3, <1>5 DEF SesRec, Rest
<1> QED
  BY <1>1, <1>2, <1>4, <1>6 DEF Connected, Flush

\* The pool says d.
Says(s, x, d) ==
  /\ ses[s].upstream = "ready" /\ x.upstream = "ready"
  /\ x.down = Append(ses[s].down, d)
  /\ x.conn = ses[s].conn /\ x.identity = ses[s].identity /\ x.pending = ses[s].pending
  /\ x.difficulty = ses[s].difficulty /\ x.ended = ses[s].ended
  /\ Same(ses[s], x)
  /\ ses' = [ses EXCEPT ![s] = x]

LEMMA AnswersShape ==
  ASSUME TypeInv, NEW s \in Sessions, NEW i \in DOMAIN ses[s].out, NEW ok \in BOOLEAN,
         PoolAnswers(s, i, ok)
  PROVE  \E x \in SesRec, d \in Msg, m \in Req :
           /\ Says(s, x, d) /\ x.answered = ses[s].answered \cup {i}
           /\ m = ses[s].out[i] /\ d.kind = "answer" /\ d.id = m.id /\ d.ok = ok
           /\ i \in Nat /\ i \notin ses[s].answered
           /\ shares' = IF m.share = 0 THEN shares ELSE [shares EXCEPT ![m.share].verdict = ok]
<1>1. PICK v \in SesRec : v = ses[s]
  BY DEF TypeInv
<1>2. v.out \in Seq(Req) /\ v.down \in Seq(Msg)
  BY DEF SesRec
<1>3. PICK m \in Req : m = v.out[i] /\ i \in Nat
  <2> HIDE DEF Req
  <2> QED
    BY <1>1, <1>2, ElementOfSeq, LenProperties
<1>4. PICK d : d = [kind |-> "answer", id |-> m.id, ok |-> ok, value |-> 1]
  OBVIOUS
<1>5. d \in Msg /\ d.kind = "answer" /\ d.id = m.id /\ d.ok = ok
  BY <1>4 DEF Msg, Req
<1>6. PICK q \in Seq(Msg) : q = Append(v.down, d)
  <2> HIDE DEF Msg
  <2> QED
    BY <1>2, <1>5, AppendProperties
<1>7. PICK a \in SUBSET Nat : a = v.answered \cup {i}
  BY <1>3 DEF SesRec
<1>8. PICK x : x = [v EXCEPT !.answered = a, !.down = q]
  OBVIOUS
<1>9. /\ x \in SesRec /\ x.answered = a /\ x.down = q /\ x.conn = v.conn
      /\ x.identity = v.identity /\ x.pending = v.pending /\ x.difficulty = v.difficulty
      /\ x.ended = v.ended /\ x.upstream = v.upstream /\ Same(v, x)
  BY <1>8 DEF SesRec, Same
<1>10. ses' = [ses EXCEPT ![s] = x]
  BY <1>1, <1>3, <1>4, <1>6, <1>7, <1>8 DEF PoolAnswers, TypeInv, SesRec
<1>11. /\ ses[s].upstream = "ready" /\ i \notin ses[s].answered
       /\ shares' = IF m.share = 0 THEN shares ELSE [shares EXCEPT ![m.share].verdict = ok]
  BY <1>1, <1>3 DEF PoolAnswers
<1> QED
  BY <1>1, <1>3, <1>5, <1>6, <1>7, <1>9, <1>10, <1>11 DEF Says

LEMMA PushesShape ==
  ASSUME TypeInv, NEW s \in Sessions, NEW kind \in {"difficulty", "reconnect"},
         NEW value \in Weight \cup {1}, PoolPushes(s, kind, value)
  PROVE  \E x \in SesRec, d \in Msg :
           Says(s, x, d) /\ x.answered = ses[s].answered /\ d.kind # "answer"
<1>1. PICK v \in SesRec : v = ses[s]
  BY DEF TypeInv
<1>2. PICK d : d = [kind |-> kind, id |-> None, ok |-> FALSE, value |-> value]
  OBVIOUS
<1>3. d \in Msg /\ d.kind # "answer"
  BY <1>2 DEF Msg, AnyId
<1>4. PICK q \in Seq(Msg) : q = Append(v.down, d)
  <2>1. v.down \in Seq(Msg)
    BY DEF SesRec
  <2> HIDE DEF Msg
  <2> QED
    BY <1>3, <2>1, AppendProperties
<1>5. PICK x : x = [v EXCEPT !.down = q]
  OBVIOUS
<1>6. /\ x \in SesRec /\ x.answered = v.answered /\ x.down = q /\ x.conn = v.conn
      /\ x.identity = v.identity /\ x.pending = v.pending /\ x.difficulty = v.difficulty
      /\ x.ended = v.ended /\ x.upstream = v.upstream /\ Same(v, x)
  BY <1>5 DEF SesRec, Same
<1>7. ses' = [ses EXCEPT ![s] = x]
  BY <1>1, <1>2, <1>4, <1>5 DEF PoolPushes, TypeInv, SesRec
<1>8. ses[s].upstream = "ready"
  BY DEF PoolPushes
<1> QED
  BY <1>1, <1>3, <1>4, <1>6, <1>7, <1>8 DEF Says

\* The miner of connection c is gone: the session in the map ends.
LEMMA HangUpShape ==
  ASSUME TypeInv, NEW c \in Conn, HangUp(c)
  PROVE  /\ ses' \in [Sessions -> SesRec]
         /\ \A t \in Sessions : ses'[t] = IF t = sessions[c] /\ ~ses[t].ended
                                          THEN Ended(ses[t]) ELSE ses[t]
<1>1. CASE sessions[c] = 0
  BY <1>1, Bounds DEF HangUp, TypeInv, Sessions
<1>2. CASE sessions[c] # 0
  <2>1. PICK s \in Sessions : s = sessions[c]
    BY <1>2, Bounds DEF TypeInv, Sessions
  <2>2. PICK x : x = IF ses[s].ended THEN ses[s] ELSE Ended(ses[s])
    OBVIOUS
  <2>3. x \in SesRec
    BY <2>2, EndedRec DEF TypeInv
  <2>4. ses' = [ses EXCEPT ![s] = x]
    BY <1>2, <2>1, <2>2 DEF HangUp, TypeInv
  <2> QED
    BY <2>1, <2>2, <2>3, <2>4, SesUpdated
<1> QED
  BY <1>1, <1>2

LEMMA OthersType ==
  ASSUME TypeInv,
         \/ \E s \in Sessions :
              \/ Connected(s) \/ UpstreamGone(s)
              \/ \E i \in DOMAIN ses[s].out, ok \in BOOLEAN : PoolAnswers(s, i, ok)
              \/ \E d \in Weight : PoolPushes(s, "difficulty", d)
              \/ PoolPushes(s, "reconnect", 1)
         \/ \E c \in Conn : Accept(c) \/ HangUp(c)
         \/ Tick \/ Signal \/ Exit \/ UNCHANGED vars
  PROVE  TypeInv'
<1>1. ASSUME NEW s \in Sessions, Connected(s)
      PROVE  TypeInv'
  <2>1. ses' \in [Sessions -> SesRec]
    BY <1>1, ConnectedShape, SesUpdated DEF Flush
  <2> QED
    BY <1>1, <2>1 DEF Connected, TypeInv
<1>2. ASSUME NEW s \in Sessions, UpstreamGone(s)
      PROVE  TypeInv'
  <2>1. /\ ses' \in [Sessions -> SesRec]
        /\ sock' \in [Conn -> {"new", "open", "closed"}]
        /\ sessions' \in [Conn -> 0..MaxSession]
    <3>1. ses[s] \in SesRec /\ End(s, ses[s])
      BY <1>2 DEF UpstreamGone, TypeInv
    <3> QED
      BY <3>1, KeptOrEnded
  <2> QED
    BY <1>2, <2>1 DEF UpstreamGone, TypeInv
<1>3. ASSUME NEW s \in Sessions, NEW i \in DOMAIN ses[s].out, NEW ok \in BOOLEAN,
             PoolAnswers(s, i, ok)
      PROVE  TypeInv'
  <2>1. PICK m \in Req :
          /\ ses' \in [Sessions -> SesRec]
          /\ shares' = IF m.share = 0 THEN shares ELSE [shares EXCEPT ![m.share].verdict = ok]
    BY <1>3, AnswersShape, SesUpdated DEF Says
  <2>2. shares' \in Seq(Share)
    <3>1. CASE shares' = shares
      BY <3>1 DEF TypeInv
    <3>2. CASE shares' = [shares EXCEPT ![m.share].verdict = ok]
      <4>1. PICK n \in Nat : n = m.share
        BY DEF Req
      <4>2. Len(shares) \in Nat /\ shares \in [1..Len(shares) -> Share]
        BY LenProperties DEF TypeInv
      <4>3. \A h \in Share : [h EXCEPT !.verdict = ok] \in Share
        BY DEF Share
      <4>4. shares' \in [1..Len(shares) -> Share]
        BY <3>2, <4>1, <4>2, <4>3
      <4> QED
        BY <4>2, <4>4, SeqDef
    <3> QED
      BY <2>1, <3>1, <3>2
  <2> QED
    BY <1>3, <2>1, <2>2 DEF PoolAnswers, TypeInv
<1>4. ASSUME NEW s \in Sessions, NEW kind \in {"difficulty", "reconnect"},
             NEW value \in Weight \cup {1}, PoolPushes(s, kind, value)
      PROVE  TypeInv'
  <2>1. ses' \in [Sessions -> SesRec]
    BY <1>4, PushesShape, SesUpdated DEF Says
  <2> QED
    BY <1>4, <2>1 DEF PoolPushes, TypeInv
<1>5. ASSUME NEW c \in Conn, Accept(c)
      PROVE  TypeInv'
  BY <1>5 DEF Accept, TypeInv
<1>6. ASSUME NEW c \in Conn, HangUp(c)
      PROVE  TypeInv'
  <2>1. ses' \in [Sessions -> SesRec]
    BY <1>6, HangUpShape
  <2>2. sessions' \in [Conn -> 0..MaxSession]
    BY <1>6, Bounds DEF HangUp, TypeInv
  <2> QED
    BY <1>6, <2>1, <2>2 DEF HangUp, TypeInv
<1>7. CASE Tick
  BY <1>7 DEF Tick, TypeInv
<1>8. CASE Signal \/ UNCHANGED vars
  BY <1>8 DEF Signal, vars, TypeInv
<1>9. CASE Exit
  BY <1>9 DEF Exit, Exited, TypeInv
<1> QED
  BY <1>1, <1>2, <1>3, <1>4, <1>5, <1>6, <1>7, <1>8, <1>9

\* Sessions, sockets, shares and messages keep their types, for any connections,
\* workers, weights and limits (session.ts:62-101, index.ts:60-105).
THEOREM SpecTypeInv == Spec => []TypeInv
<1>1. Init => TypeInv
  BY InitTypeInv
<1>2. TypeInv /\ [Next]_vars => TypeInv'
  BY MinerType, PoolType, OthersType DEF Next
<1> QED
  BY <1>1, <1>2, PTL DEF Spec

-----------------------------------------------------------------------------
(* Every share is booked once.                                             *)

\* A session waits for its own open submits only.
PendingInv ==
  \A s \in Sessions : \A n \in ses[s].pending :
    n \in DOMAIN shares /\ shares[n].session = s /\ shares[n].outcome = None

BooksInv == DOMAIN books = Worker /\ \A w \in Worker : DOMAIN books[w] = Outcomes \cup {"weight"}

BookInv == PendingInv /\ BooksInv /\ EveryShareOnce

LEMMA CountedFinite ==
  ASSUME TypeInv, NEW w, NEW o
  PROVE  IsFiniteSet(Counted(w, o))
<1>1. Len(shares) \in Nat /\ DOMAIN shares = 1..Len(shares)
  BY LenProperties DEF TypeInv
<1>2. IsFiniteSet(1..Len(shares))
  BY <1>1, FS_Interval
<1> QED
  BY <1>1, <1>2, FS_Subset DEF Counted

\* A session books some of its open submits, and may have a new one.
Settles(s, done, o, new) ==
  /\ done \subseteq ses[s].pending /\ books' = Book(done, o)
  /\ \/ /\ shares' = Marked(done, o)
        /\ ses'[s].pending = ses[s].pending \ done
     \/ /\ shares' = Append(Marked(done, o), new)
        /\ new \in Share
        /\ new.session = s /\ new.worker = ses[s].identity /\ new.outcome = None
        /\ ses'[s].pending = (ses[s].pending \ done) \cup {Len(shares) + 1}

LEMMA SettledShares ==
  ASSUME TypeInv, NEW s, NEW done, NEW o \in Outcomes, NEW new,
         Settles(s, done, o, new)
  PROVE  /\ DOMAIN shares = 1..Len(shares) /\ Len(shares) \in Nat
         /\ \A n \in DOMAIN shares :
              /\ n \in DOMAIN shares' /\ shares[n] \in Share
              /\ shares'[n] = IF n \in done THEN [shares[n] EXCEPT !.outcome = o]
                              ELSE shares[n]
         /\ \A n \in DOMAIN shares' \ DOMAIN shares :
              /\ n = Len(shares) + 1 /\ shares'[n] = new
              /\ new.session = s /\ new.worker = ses[s].identity /\ new.outcome = None
              /\ ses'[s].pending = (ses[s].pending \ done) \cup {n}
         /\ ses'[s].pending \subseteq (ses[s].pending \ done) \cup (DOMAIN shares' \ DOMAIN shares)
         /\ ses[s].pending \ done \subseteq ses'[s].pending
<1>1. PICK q \in Seq(Share) : q = Marked(done, o)
  BY MarkedShares
<1>2. /\ Len(q) = Len(shares) /\ DOMAIN q = DOMAIN shares
      /\ Len(shares) \in Nat /\ DOMAIN shares = 1..Len(shares)
      /\ \A n \in DOMAIN shares :
           /\ shares[n] \in Share
           /\ q[n] = IF n \in done THEN [shares[n] EXCEPT !.outcome = o] ELSE shares[n]
  BY <1>1, MarkedShares
<1>3. CASE shares' = q /\ ses'[s].pending = ses[s].pending \ done
  BY <1>2, <1>3
<1>4. CASE /\ shares' = Append(q, new) /\ new \in Share
           /\ new.session = s /\ new.worker = ses[s].identity /\ new.outcome = None
           /\ ses'[s].pending = (ses[s].pending \ done) \cup {Len(shares) + 1}
  <2>1. /\ DOMAIN shares' = 1..(Len(shares) + 1)
        /\ \A n \in DOMAIN shares : shares'[n] = q[n]
        /\ shares'[Len(shares) + 1] = new
    <3> HIDE DEF Share
    <3>1. /\ Append(q, new) \in Seq(Share) /\ Len(Append(q, new)) = Len(q) + 1
          /\ \A n \in 1..Len(q) : Append(q, new)[n] = q[n]
          /\ Append(q, new)[Len(q) + 1] = new
      BY <1>4, AppendProperties
    <3>2. DOMAIN Append(q, new) = 1..(Len(q) + 1)
      BY <3>1, LenProperties
    <3> QED
      BY <1>2, <1>4, <3>1, <3>2
  <2>2. DOMAIN shares \subseteq DOMAIN shares' /\ DOMAIN shares' \ DOMAIN shares = {Len(shares) + 1}
    BY <1>2, <2>1
  <2> QED
    BY <1>2, <1>4, <2>1, <2>2
<1> QED
  BY <1>1, <1>3, <1>4 DEF Settles

\* What a worker has among the shares booked.
OfWorker(done, w) == {n \in done : shares[n].worker = w}

LEMMA SettledSets ==
  ASSUME TypeInv, BookInv, NEW s \in Sessions, NEW done, NEW o \in Outcomes, NEW new,
         Settles(s, done, o, new), NEW w \in Worker, NEW p \in Outcomes
  PROVE  /\ Counted(w, p)' = IF p = o THEN Counted(w, p) \cup OfWorker(done, w) ELSE Counted(w, p)
         /\ Counted(w, p) \cap OfWorker(done, w) = {} /\ OfWorker(done, w) \subseteq DOMAIN shares
         /\ IsFiniteSet(Counted(w, p)) /\ IsFiniteSet(OfWorker(done, w))
<1>1. /\ \A n \in DOMAIN shares :
           /\ n \in DOMAIN shares' /\ shares[n] \in Share
           /\ shares'[n] = IF n \in done THEN [shares[n] EXCEPT !.outcome = o] ELSE shares[n]
      /\ \A n \in DOMAIN shares' \ DOMAIN shares : shares'[n].outcome = None
  <2>1. \A n \in DOMAIN shares :
          /\ n \in DOMAIN shares' /\ shares[n] \in Share
          /\ shares'[n] = IF n \in done THEN [shares[n] EXCEPT !.outcome = o] ELSE shares[n]
    BY SettledShares
  <2>2. \A n \in DOMAIN shares' \ DOMAIN shares : shares'[n] = new /\ new.outcome = None
    BY SettledShares
  <2> QED
    BY <2>1, <2>2
<1>2. \A n \in done : n \in DOMAIN shares /\ shares[n].outcome = None
  BY DEF BookInv, PendingInv, Settles
<1>3. \A n \in DOMAIN shares : /\ shares'[n].worker = shares[n].worker
                               /\ shares'[n].outcome = IF n \in done THEN o ELSE shares[n].outcome
  BY <1>1 DEF Share
<1>4. Counted(w, p)' = IF p = o THEN Counted(w, p) \cup OfWorker(done, w) ELSE Counted(w, p)
  BY <1>1, <1>2, <1>3, Bounds DEF Counted, OfWorker
<1>5. Counted(w, p) \cap OfWorker(done, w) = {} /\ OfWorker(done, w) \subseteq DOMAIN shares
  BY <1>2, Bounds DEF Counted, OfWorker
<1>6. IsFiniteSet(Counted(w, p)) /\ IsFiniteSet(OfWorker(done, w))
  <2>1. Len(shares) \in Nat /\ DOMAIN shares = 1..Len(shares)
    BY SettledShares
  <2>2. IsFiniteSet(1..Len(shares)) /\ OfWorker(done, w) \subseteq 1..Len(shares)
    BY <1>5, <2>1, FS_Interval
  <2> QED
    BY <2>2, CountedFinite, FS_Subset
<1> QED
  BY <1>4, <1>5, <1>6

LEMMA SettledBooks ==
  ASSUME BookInv, NEW s, NEW done, NEW o \in Outcomes, NEW new, Settles(s, done, o, new),
         NEW w \in Worker
  PROVE  /\ \A p \in Outcomes :
              books'[w][p] = IF p = o THEN books[w][p] + Cardinality(OfWorker(done, w)) ELSE books[w][p]
         /\ books'[w]["weight"] = books[w]["weight"] + Gain(OfWorker(done, w), o)
<1>1. "weight" \notin Outcomes
  BY DEF Outcomes
<1>2. DOMAIN books[w] = Outcomes \cup {"weight"}
  BY DEF BookInv, BooksInv
<1>3. books'[w] = [books[w] EXCEPT ![o] = @ + Cardinality(OfWorker(done, w)),
                                   !["weight"] = @ + Gain(OfWorker(done, w), o)]
  BY DEF Settles, Book, OfWorker
<1> QED
  BY <1>1, <1>2, <1>3

LEMMA SettledCounted ==
  ASSUME TypeInv, BookInv, NEW s \in Sessions, NEW done, NEW o \in Outcomes, NEW new,
         Settles(s, done, o, new)
  PROVE  \A w \in Worker, p \in Outcomes : books'[w][p] = Cardinality(Counted(w, p)')
<1> TAKE w \in Worker, p \in Outcomes
<1>1. /\ Counted(w, p)' = IF p = o THEN Counted(w, p) \cup OfWorker(done, w) ELSE Counted(w, p)
      /\ Counted(w, p) \cap OfWorker(done, w) = {}
      /\ IsFiniteSet(Counted(w, p)) /\ IsFiniteSet(OfWorker(done, w))
  BY SettledSets
<1>2. Cardinality(Counted(w, p) \cup OfWorker(done, w)) =
        Cardinality(Counted(w, p)) + Cardinality(OfWorker(done, w))
  <2>1. Cardinality({}) = 0
    BY FS_EmptySet
  <2>2. Cardinality(Counted(w, p)) \in Nat /\ Cardinality(OfWorker(done, w)) \in Nat
    BY <1>1, FS_CardinalityType
  <2>3. Cardinality(Counted(w, p) \cap OfWorker(done, w)) = 0
    BY <1>1, <2>1
  <2>4. Cardinality(Counted(w, p) \cup OfWorker(done, w)) =
          Cardinality(Counted(w, p)) + Cardinality(OfWorker(done, w))
            - Cardinality(Counted(w, p) \cap OfWorker(done, w))
    BY <1>1, FS_Union
  <2> QED
    BY <2>2, <2>3, <2>4
<1>3. books'[w][p] = IF p = o THEN books[w][p] + Cardinality(OfWorker(done, w)) ELSE books[w][p]
  <2>1. \A q \in Outcomes :
          books'[w][q] = IF q = o THEN books[w][q] + Cardinality(OfWorker(done, w)) ELSE books[w][q]
    BY SettledBooks
  <2> QED
    BY <2>1
<1>4. books[w][p] = Cardinality(Counted(w, p))
  BY DEF BookInv, EveryShareOnce, BookedOnce
<1> QED
  BY <1>1, <1>2, <1>3, <1>4

\* The weight every submit was relayed with.
Weights == [n \in DOMAIN shares |-> shares[n].weight]

LEMMA WeightsInt ==
  ASSUME TypeInv
  PROVE  \A n \in DOMAIN shares : Weights[n] \in Int /\ Weights[n] = shares[n].weight
<1> TAKE n \in DOMAIN shares
<1>1. shares[n] \in Share
  <2> HIDE DEF Share
  <2> QED
    BY ElementOfSeq, LenProperties DEF TypeInv
<1> QED
  <2>1. Weight \cup {1} \subseteq Int
    BY ProxyAssumption
  <2>2. shares[n].weight \in Weight \cup {1}
    BY <1>1 DEF Share
  <2> QED
    BY <2>1, <2>2 DEF Weights

LEMMA GainOfAccepted ==
  ASSUME TypeInv, NEW S \in SUBSET DOMAIN shares, IsFiniteSet(S)
  PROVE  Gain(S, "accepted") = Sum(Weights, S)
<1>1. PICK g : g = [n \in S |-> WeightOf(n)]
  OBVIOUS
<1>2. \A n \in S : Weights[n] \in Int /\ g[n] = Weights[n]
  BY <1>1, WeightsInt DEF WeightOf
<1>3. Sum(g, S) = Sum(Weights, S)
  BY <1>2, SumSame
<1> QED
  BY <1>1, <1>3 DEF Gain

\* The weight of the accepted shares grows by that of the ones just accepted.
LEMMA SettledWeighed ==
  ASSUME TypeInv, BookInv, NEW s \in Sessions, NEW done, NEW o \in Outcomes, NEW new,
         Settles(s, done, o, new)
  PROVE  WeighedOnce'
<1> SUFFICES ASSUME NEW w \in Worker
             PROVE  books'[w]["weight"] =
                      Sum([n \in DOMAIN shares |-> shares[n].weight]', Counted(w, "accepted")')
  BY DEF WeighedOnce
<1>1. "accepted" \in Outcomes
  BY DEF Outcomes
<1>2. PICK mine, old, f, g : /\ mine = OfWorker(done, w) /\ old = Counted(w, "accepted")
                             /\ f = Weights /\ g = [n \in DOMAIN shares |-> shares[n].weight]'
  OBVIOUS
<1>3. /\ Counted(w, "accepted")' = IF "accepted" = o THEN old \cup mine ELSE old
      /\ old \cap mine = {} /\ mine \subseteq DOMAIN shares /\ old \subseteq DOMAIN shares
      /\ IsFiniteSet(old) /\ IsFiniteSet(mine)
  <2>1. old \subseteq DOMAIN shares
    BY <1>2 DEF Counted
  <2> QED
    BY <1>1, <1>2, <2>1, SettledSets
<1>4. books'[w]["weight"] = books[w]["weight"] + Gain(mine, o)
  BY <1>2, SettledBooks
<1>5. books[w]["weight"] = Sum(f, old)
  BY <1>2 DEF BookInv, EveryShareOnce, WeighedOnce, Weights
<1>6. \A n \in DOMAIN shares : f[n] \in Int /\ g[n] = f[n]
  <2>1. \A n \in DOMAIN shares : f[n] \in Int /\ f[n] = shares[n].weight
    BY <1>2, WeightsInt
  <2>2. \A n \in DOMAIN shares :
          /\ n \in DOMAIN shares' /\ shares[n] \in Share
          /\ shares'[n] = IF n \in done THEN [shares[n] EXCEPT !.outcome = o] ELSE shares[n]
    BY SettledShares
  <2>3. \A n \in DOMAIN shares : shares'[n].weight = shares[n].weight
    BY <2>2 DEF Share
  <2> QED
    BY <1>2, <2>1, <2>2, <2>3
<1>7. Sum(f, old) \in Int
  BY <1>3, <1>6, SumType
<1>8. CASE o = "accepted"
  <2>1. IsFiniteSet(old \cup mine)
    BY <1>3, FS_Union
  <2>2. Sum(g, old \cup mine) = Sum(f, old \cup mine)
    BY <1>3, <1>6, <2>1, SumSame
  <2>3. Sum(f, old \cup mine) = Sum(f, old) + Sum(f, mine)
    BY <1>3, <1>6, SumDisjoint
  <2>4. Gain(mine, o) = Sum(f, mine)
    BY <1>2, <1>3, <1>8, GainOfAccepted
  <2> QED
    BY <1>2, <1>3, <1>4, <1>5, <1>8, <2>2, <2>3, <2>4
<1>9. CASE o # "accepted"
  <2>1. Gain(mine, o) = 0
    BY <1>9 DEF Gain
  <2>2. Sum(g, old) = Sum(f, old)
    BY <1>3, <1>6, SumSame
  <2> QED
    BY <1>2, <1>3, <1>4, <1>5, <1>7, <1>9, <2>1, <2>2
<1> QED
  BY <1>8, <1>9

LEMMA SettledInv ==
  ASSUME TypeInv, BookInv, NEW s \in Sessions, NEW done, NEW o \in Outcomes, NEW new,
         Settles(s, done, o, new), ses'[s].identity = ses[s].identity,
         \A t \in Sessions : t # s => ses'[t] = ses[t]
  PROVE  BookInv'
<1>1. /\ DOMAIN shares = 1..Len(shares) /\ Len(shares) \in Nat
      /\ \A n \in DOMAIN shares :
           /\ n \in DOMAIN shares' /\ shares[n] \in Share
           /\ shares'[n] = IF n \in done THEN [shares[n] EXCEPT !.outcome = o] ELSE shares[n]
      /\ \A n \in DOMAIN shares' \ DOMAIN shares :
           /\ n = Len(shares) + 1 /\ shares'[n] = new
           /\ new.session = s /\ new.worker = ses[s].identity /\ new.outcome = None
           /\ ses'[s].pending = (ses[s].pending \ done) \cup {n}
      /\ ses'[s].pending \subseteq (ses[s].pending \ done) \cup (DOMAIN shares' \ DOMAIN shares)
      /\ ses[s].pending \ done \subseteq ses'[s].pending
  BY SettledShares
<1>2. \A n \in DOMAIN shares :
        /\ shares'[n].worker = shares[n].worker /\ shares'[n].session = shares[n].session
        /\ shares'[n].outcome = IF n \in done THEN o ELSE shares[n].outcome
        /\ shares[n].session \in Sessions
  BY <1>1 DEF Share
<1>3. o # None /\ done \subseteq ses[s].pending
  BY Bounds DEF Settles
<1>4. \A t \in Sessions : \A n \in ses[t].pending :
        n \in DOMAIN shares /\ shares[n].session = t /\ shares[n].outcome = None
  BY DEF BookInv, PendingInv
<1>5. PendingInv'
  <2> SUFFICES ASSUME NEW t \in Sessions, NEW n \in ses'[t].pending
               PROVE  n \in DOMAIN shares' /\ shares'[n].session = t /\ shares'[n].outcome = None
    BY DEF PendingInv
  <2>1. CASE t # s
    <3>1. n \in DOMAIN shares /\ shares[n].session = t /\ shares[n].outcome = None
      BY <1>4, <2>1
    <3>2. n \notin done
      BY <1>3, <1>4, <2>1, <3>1
    <3> QED
      BY <1>1, <1>2, <3>1, <3>2
  <2>2. CASE t = s
    <3>1. CASE n \in DOMAIN shares
      <4>1. n \in ses[s].pending \ done
        BY <1>1, <2>2, <3>1
      <4>2. shares[n].session = s /\ shares[n].outcome = None /\ n \notin done
        BY <1>4, <4>1
      <4>3. n \in DOMAIN shares'
        BY <1>1, <3>1
      <4>4. shares'[n].session = shares[n].session /\ shares'[n].outcome = shares[n].outcome
        BY <1>2, <3>1, <4>2
      <4> QED
        BY <2>2, <4>2, <4>3, <4>4
    <3>2. CASE n \notin DOMAIN shares
      <4>1. n \in DOMAIN shares' \ DOMAIN shares
        BY <1>1, <1>4, <2>2, <3>2
      <4> QED
        BY <1>1, <2>2, <4>1
    <3> QED
      BY <3>1, <3>2
  <2> QED
    BY <2>1, <2>2
<1>6. BooksInv'
  BY DEF Settles, Book, BookInv, BooksInv
<1>7. BookedOnce'
  <2>1. ASSUME NEW n \in DOMAIN shares'
        PROVE  /\ shares'[n].outcome = None <=> n \in ses'[shares'[n].session].pending
               /\ shares'[n].worker = ses'[shares'[n].session].identity
    <3>1. CASE n \in DOMAIN shares
      <4>1. /\ shares[n].outcome = None <=> n \in ses[shares[n].session].pending
            /\ shares[n].worker = ses[shares[n].session].identity
        BY <3>1 DEF BookInv, EveryShareOnce, BookedOnce
      <4>2. shares'[n].worker = ses'[shares'[n].session].identity
        BY <1>2, <3>1, <4>1
      <4>3. CASE shares[n].session # s
        BY <1>2, <1>3, <1>4, <3>1, <4>1, <4>2, <4>3
      <4>4. CASE shares[n].session = s
        <5>1. n \in ses'[s].pending <=> n \in ses[s].pending \ done
          BY <1>1, <3>1
        <5> QED
          BY <1>2, <1>3, <3>1, <4>1, <4>2, <4>4, <5>1
      <4> QED
        BY <4>3, <4>4
    <3>2. CASE n \notin DOMAIN shares
      BY <1>1, <3>2
    <3> QED
      BY <3>1, <3>2
  <2>2. \A w \in Worker, p \in Outcomes : books'[w][p] = Cardinality(Counted(w, p)')
    BY SettledCounted
  <2> QED
    BY <2>1, <2>2 DEF BookedOnce
<1>8. WeighedOnce'
  BY SettledWeighed
<1> QED
  BY <1>5, <1>6, <1>7, <1>8 DEF BookInv, EveryShareOnce

\* Steps that book nothing and open nothing.
LEMMA BooksKept ==
  ASSUME TypeInv, BookInv, UNCHANGED books,
         DOMAIN shares' = DOMAIN shares,
         \A n \in DOMAIN shares : /\ shares'[n].session = shares[n].session
                                  /\ shares'[n].worker = shares[n].worker
                                  /\ shares'[n].outcome = shares[n].outcome
                                  /\ shares'[n].weight = shares[n].weight,
         \A t \in Sessions : /\ ses'[t].pending = ses[t].pending
                             /\ \/ ses'[t].identity = ses[t].identity
                                \/ ses[t].identity = None
  PROVE  BookInv'
<1>1. \A n \in DOMAIN shares : shares[n].session \in Sessions /\ shares[n].worker \in Worker
  <2> TAKE n \in DOMAIN shares
  <2>1. shares[n] \in Share
    <3> HIDE DEF Share
    <3> QED
      BY ElementOfSeq, LenProperties DEF TypeInv
  <2> QED
    BY <2>1 DEF Share
<1>2. PendingInv'
  BY DEF BookInv, PendingInv
<1>3. BooksInv'
  BY DEF BookInv, BooksInv
<1>4. \A w \in Worker, p \in Outcomes : Counted(w, p)' = Counted(w, p)
  BY DEF Counted
<1>5. BookedOnce'
  <2>1. ASSUME NEW n \in DOMAIN shares'
        PROVE  /\ shares'[n].outcome = None <=> n \in ses'[shares'[n].session].pending
               /\ shares'[n].worker = ses'[shares'[n].session].identity
    <3>1. n \in DOMAIN shares
      BY <2>1
    <3>2. /\ shares[n].outcome = None <=> n \in ses[shares[n].session].pending
          /\ shares[n].worker = ses[shares[n].session].identity
      BY <3>1 DEF BookInv, EveryShareOnce, BookedOnce
    <3> QED
      BY <1>1, <3>1, <3>2, Bounds
  <2>2. \A w \in Worker, p \in Outcomes : books'[w][p] = Cardinality(Counted(w, p)')
    BY <1>4 DEF BookInv, EveryShareOnce, BookedOnce
  <2> QED
    BY <2>1, <2>2 DEF BookedOnce
<1>6. WeighedOnce'
  <2> SUFFICES ASSUME NEW w \in Worker
               PROVE  books'[w]["weight"] =
                        Sum([n \in DOMAIN shares |-> shares[n].weight]', Counted(w, "accepted")')
    BY DEF WeighedOnce
  <2>1. "accepted" \in Outcomes
    BY DEF Outcomes
  <2>2. PICK old, f, g : /\ old = Counted(w, "accepted") /\ f = Weights
                         /\ g = [n \in DOMAIN shares |-> shares[n].weight]'
    OBVIOUS
  <2>3. IsFiniteSet(old) /\ old \subseteq DOMAIN shares
    <3>1. IsFiniteSet(Counted(w, "accepted"))
      BY CountedFinite
    <3>2. Counted(w, "accepted") \subseteq DOMAIN shares
      BY DEF Counted
    <3> QED
      BY <2>2, <3>1, <3>2
  <2>4. \A n \in DOMAIN shares : f[n] \in Int /\ g[n] = f[n]
    BY <2>2, WeightsInt DEF Weights
  <2>5. Sum(g, old) = Sum(f, old)
    BY <2>3, <2>4, SumSame
  <2>6. books[w]["weight"] = Sum(f, old)
    BY <2>2 DEF BookInv, EveryShareOnce, WeighedOnce, Weights
  <2> QED
    BY <1>4, <2>1, <2>2, <2>5, <2>6
<1> QED
  BY <1>2, <1>3, <1>5, <1>6 DEF BookInv, EveryShareOnce

\* What a line leaves behind in the session.
LEMMA AfterLine ==
  ASSUME TypeInv, NEW s \in Sessions, NEW x \in SesRec, Keep(s, x) \/ End(s, x)
  PROVE  /\ \A t \in Sessions : t # s => ses'[t] = ses[t]
         /\ ses'[s].conn = x.conn /\ ses'[s].identity = x.identity
         /\ ses'[s].pending = x.pending /\ ses'[s].difficulty = x.difficulty
         /\ ses'[s].out = x.out /\ ses'[s].queued = x.queued
         /\ ses'[s].answered = x.answered /\ ses'[s].down = x.down
         /\ Keep(s, x) => ses'[s].ended = x.ended /\ ses'[s].upstream = x.upstream
         /\ ~Keep(s, x) => /\ ~x.ended /\ ses'[s].ended = TRUE
                           /\ ses'[s].upstream = IF x.upstream = "null" THEN "null" ELSE "closed"
<1>1. CASE Keep(s, x)
  BY <1>1, KeptOrEnded DEF SesRec
<1>2. CASE End(s, x) /\ ~Keep(s, x)
  <2>1. ~x.ended
    BY <1>2 DEF End
  <2>2. PICK y : y = Ended(x)
    OBVIOUS
  <2>3. ses'[s] = y /\ \A t \in Sessions : t # s => ses'[t] = ses[t]
    BY <1>2, <2>1, <2>2, KeptOrEnded
  <2>4. /\ y.ended = TRUE /\ y.upstream = IF x.upstream = "null" THEN "null" ELSE "closed"
        /\ y.conn = x.conn /\ y.identity = x.identity
        /\ y.difficulty = x.difficulty /\ y.pending = x.pending
        /\ y.queued = x.queued /\ y.out = x.out
        /\ y.answered = x.answered /\ y.down = x.down
    BY <2>2, EndedRec
  <2> QED
    BY <1>2, <2>1, <2>3, <2>4
<1> QED
  BY <1>1, <1>2

LEMMA MinerBook ==
  ASSUME TypeInv, BookInv, NEW c \in Conn, MinerLine(c)
  PROVE  BookInv'
<1>1. PICK s \in Sessions, x \in SesRec, late \in SUBSET Nat, m \in Req :
         MinerStep(c, s, x, late, m)
  BY MinerLineShape
<1>2. Keep(s, x) \/ End(s, x)
  BY <1>1 DEF MinerStep, NoSubmit, Login, Refused, Submitted, Quiet, Relays, Ends
<1>3. /\ \A t \in Sessions : t # s => ses'[t] = ses[t]
      /\ ses'[s].identity = x.identity /\ ses'[s].pending = x.pending
  BY <1>2, AfterLine
<1>4. CASE NoSubmit(s, x, m) \/ Login(s, x, m)
  BY <1>3, <1>4, BooksKept DEF NoSubmit, Login
<1>5. "unresolved" \in Outcomes
  BY DEF Outcomes
<1>6. CASE Refused(s, x, late)
  <2>2. Settles(s, late, "unresolved", None)
    BY <1>3, <1>6 DEF Refused, Settles
  <2> QED
    BY <1>3, <1>5, <1>6, <2>2, SettledInv DEF Refused
<1>7. CASE Submitted(s, x, late, m)
  <2>1. NewShare(s, m.id) \in Share
    <3>1. ses[s] \in SesRec /\ ses[s].identity # None /\ m.id \in AnyId /\ now \in Nat
      BY <1>7 DEF Submitted, TypeInv, Req
    <3> QED
      BY <3>1 DEF SesRec, NewShare, Share
  <2>2. PICK h \in Share : h = NewShare(s, m.id)
    BY <2>1
  <2>3. h.session = s /\ h.worker = ses[s].identity /\ h.outcome = None
    BY <2>2 DEF NewShare
  <2>4. Settles(s, late, "unresolved", h)
    BY <1>3, <1>7, <2>2, <2>3 DEF Submitted, Settles
  <2> QED
    BY <1>3, <1>5, <1>7, <2>4, SettledInv DEF Submitted
<1> QED
  BY <1>1, <1>4, <1>6, <1>7 DEF MinerStep

LEMMA PoolBook ==
  ASSUME TypeInv, BookInv, NEW s \in Sessions, PoolLine(s)
  PROVE  BookInv'
<1>1. PICK x \in SesRec, m \in Msg, done \in SUBSET Nat : PoolStep(s, x, m, done)
  BY PoolLineShape
<1>2. PICK o \in {"accepted", "rejected"} : shares' = Marked(done, o) /\ books' = Book(done, o)
  BY <1>1 DEF PoolStep
<1>3. o \in Outcomes
  BY DEF Outcomes
<1>4. /\ \A t \in Sessions : t # s => ses'[t] = ses[t]
      /\ ses'[s].identity = x.identity /\ ses'[s].pending = x.pending
  BY <1>1, AfterLine DEF PoolStep
<1>5. Settles(s, done, o, None)
  BY <1>1, <1>2, <1>4 DEF PoolStep, Settles
<1> QED
  BY <1>1, <1>3, <1>4, <1>5, SettledInv DEF PoolStep

LEMMA OthersBook ==
  ASSUME TypeInv, BookInv,
         \/ \E s \in Sessions :
              \/ Connected(s) \/ UpstreamGone(s)
              \/ \E i \in DOMAIN ses[s].out, ok \in BOOLEAN : PoolAnswers(s, i, ok)
              \/ \E d \in Weight : PoolPushes(s, "difficulty", d)
              \/ PoolPushes(s, "reconnect", 1)
         \/ \E c \in Conn : Accept(c) \/ HangUp(c)
         \/ Tick \/ Signal \/ Exit \/ UNCHANGED vars
  PROVE  BookInv'
<1>1. ASSUME NEW s \in Sessions, Connected(s)
      PROVE  BookInv'
  <2>1. PICK x \in SesRec : Flush(s, x)
    BY <1>1, ConnectedShape
  <2>2. \A t \in Sessions : /\ ses'[t].pending = ses[t].pending
                            /\ ses'[t].identity = ses[t].identity
    BY <2>1, SesUpdated DEF Flush, Rest
  <2> QED
    BY <1>1, <2>2, BooksKept DEF Connected
<1>2. ASSUME NEW s \in Sessions, UpstreamGone(s)
      PROVE  BookInv'
  <2>1. ses[s] \in SesRec
    BY DEF TypeInv
  <2>2. \A t \in Sessions : /\ ses'[t].pending = ses[t].pending
                            /\ ses'[t].identity = ses[t].identity
    <3>1. End(s, ses[s])
      BY <1>2 DEF UpstreamGone
    <3>2. /\ \A t \in Sessions : t # s => ses'[t] = ses[t]
          /\ ses'[s].pending = ses[s].pending /\ ses'[s].identity = ses[s].identity
      BY <2>1, <3>1, AfterLine
    <3> QED
      BY ONLY <3>2
  <2> QED
    BY <1>2, <2>2, BooksKept DEF UpstreamGone
<1>3. ASSUME NEW s \in Sessions, NEW i \in DOMAIN ses[s].out, NEW ok \in BOOLEAN,
             PoolAnswers(s, i, ok)
      PROVE  BookInv'
  <2>1. PICK x \in SesRec, d \in Msg, m \in Req :
          /\ Says(s, x, d)
          /\ shares' = IF m.share = 0 THEN shares ELSE [shares EXCEPT ![m.share].verdict = ok]
    BY <1>3, AnswersShape
  <2>2. \A t \in Sessions : /\ ses'[t].pending = ses[t].pending
                            /\ ses'[t].identity = ses[t].identity
    BY <2>1, SesUpdated DEF Says
  <2>3. /\ DOMAIN shares' = DOMAIN shares
        /\ \A n \in DOMAIN shares : /\ shares'[n].session = shares[n].session
                                     /\ shares'[n].worker = shares[n].worker
                                     /\ shares'[n].outcome = shares[n].outcome
                                     /\ shares'[n].weight = shares[n].weight
    <3>1. PICK k \in Nat : k = m.share
      BY DEF Req
    <3>2. \A n \in DOMAIN shares : shares[n] \in Share
      <4> HIDE DEF Share
      <4> QED
        BY ElementOfSeq, LenProperties DEF TypeInv
    <3>3. CASE shares' = [shares EXCEPT ![k].verdict = ok]
      <4>1. \A h \in Share : /\ [h EXCEPT !.verdict = ok].session = h.session
                             /\ [h EXCEPT !.verdict = ok].worker = h.worker
                             /\ [h EXCEPT !.verdict = ok].outcome = h.outcome
                             /\ [h EXCEPT !.verdict = ok].weight = h.weight
        BY DEF Share
      <4>2. DOMAIN shares' = DOMAIN shares
        BY <3>3
      <4>3. \A n \in DOMAIN shares :
              shares'[n] = IF n = k THEN [shares[n] EXCEPT !.verdict = ok] ELSE shares[n]
        BY <3>3
      <4> QED
        BY <3>2, <4>1, <4>2, <4>3
    <3> QED
      BY <2>1, <3>1, <3>3
  <2>4. UNCHANGED books
    BY <1>3 DEF PoolAnswers
  <2> QED
    BY <2>2, <2>3, <2>4, BooksKept
<1>4. ASSUME NEW s \in Sessions, NEW kind \in {"difficulty", "reconnect"},
             NEW value \in Weight \cup {1}, PoolPushes(s, kind, value)
      PROVE  BookInv'
  <2>1. PICK x \in SesRec, d \in Msg : Says(s, x, d)
    BY <1>4, PushesShape
  <2>2. \A t \in Sessions : /\ ses'[t].pending = ses[t].pending
                            /\ ses'[t].identity = ses[t].identity
    BY <2>1, SesUpdated DEF Says
  <2> QED
    BY <1>4, <2>2, BooksKept DEF PoolPushes
<1>5. ASSUME NEW c \in Conn, HangUp(c)
      PROVE  BookInv'
  <2>1. \A t \in Sessions : /\ ses'[t].pending = ses[t].pending
                            /\ ses'[t].identity = ses[t].identity
    <3> TAKE t \in Sessions
    <3>1. ses[t] \in SesRec
      BY DEF TypeInv
    <3>2. Ended(ses[t]).pending = ses[t].pending /\ Ended(ses[t]).identity = ses[t].identity
      BY <3>1, EndedRec
    <3>3. ses'[t] = Ended(ses[t]) \/ ses'[t] = ses[t]
      BY <1>5, HangUpShape
    <3> QED
      BY <3>2, <3>3
  <2> QED
    BY <1>5, <2>1, BooksKept DEF HangUp
<1>6. ASSUME UNCHANGED <<ses, shares, books>>
      PROVE  BookInv'
  BY <1>6, BooksKept
<1> QED
  BY <1>1, <1>2, <1>3, <1>4, <1>5, <1>6 DEF Accept, Tick, Signal, Exit, vars

LEMMA InitBook == Init => BookInv
<1> SUFFICES ASSUME Init
             PROVE  BookInv
  OBVIOUS
<1>1. PendingInv /\ BooksInv /\ DOMAIN shares = {}
  BY EmptySeq DEF Init, PendingInv, BooksInv, NewSession
<1>2. Cardinality({}) = 0
  BY FS_EmptySet
<1>3. \A w \in Worker : \A p \in Outcomes \cup {"weight"} : books[w][p] = 0
  BY DEF Init
<1>4. \A w \in Worker, p \in Outcomes : Counted(w, p) = {}
  BY <1>1 DEF Counted
<1>5. BookedOnce
  BY <1>1, <1>2, <1>3, <1>4 DEF BookedOnce
<1>6. WeighedOnce
  BY <1>3, <1>4, SumEmpty DEF WeighedOnce, Outcomes
<1> QED
  BY <1>1, <1>5, <1>6 DEF BookInv, EveryShareOnce

\* Every share the proxy relayed is either waiting in its session or counted
\* once, for the worker its connection authorized as, and the worker's weight is
\* the sum of what the pool asked for when each accepted share was sent, in any
\* run, with any number of connections, workers and difficulties
\* (session.ts:40-43, 110-147, 254).
THEOREM SpecEveryShareOnce == Spec => []EveryShareOnce
<1>1. TypeInv /\ BookInv /\ [Next]_vars => BookInv'
  BY MinerBook, PoolBook, OthersBook DEF Next
<1>2. BookInv => EveryShareOnce
  BY DEF BookInv
<1> QED
  BY <1>1, <1>2, InitBook, SpecTypeInv, PTL DEF Spec

-----------------------------------------------------------------------------
(* The two sockets of a session.                                           *)

Alive ==
  \A s \in Sessions : /\ ses[s].ended => ~Live(s)
                      /\ ses[s].upstream = "closed" => ses[s].ended
                      /\ ses[s].conn = None => ses[s] = NewSession

\* Sessions are taken in order.
Used == \A s, t \in Sessions : t < s /\ ses[s].conn # None => ses[t].conn # None

\* What index.ts's map holds.
Mapped ==
  \A c \in Conn : sessions[c] # 0 =>
    /\ ses[sessions[c]].conn = c
    /\ sock[c] = "open" => ~ses[sessions[c]].ended
    /\ sock[c] = "closed" => ~First(sessions[c])

Socked ==
  \A s \in Sessions : ses[s].conn # None =>
    /\ sock[ses[s].conn] # "new"
    /\ sock[ses[s].conn] = "open" => sessions[ses[s].conn] = s
    /\ Live(s) /\ First(s) => sock[ses[s].conn] = "open"
    /\ ~ses[s].ended => sessions[ses[s].conn] = s

\* A chunk is being handled only for a connection that was accepted.
Turned ==
  turn.side = "miner" =>
    /\ turn.at \in Conn /\ sock[turn.at] # "new"
    /\ \E s \in Sessions : ses[s].conn = turn.at

LinkInv == Alive /\ Used /\ Mapped /\ Socked /\ Turned

\* Session s is connection c's, or is the new session it gets.
Owner(s, c) ==
  /\ c \in Conn /\ sock[c] # "new"
  /\ \/ ses[s].conn = c /\ (sessions[c] = s \/ ses[s].ended)
     \/ /\ ses[s].conn = None /\ sessions[c] = 0
        /\ \A t \in 1..(s - 1) : ses[t].conn # None
        /\ sock[c] = "open" \/ \E t \in Sessions : ses[t].conn = c

\* A line handled by session s, which becomes x.
Handled(s, x) ==
  /\ Keep(s, x) \/ End(s, x)
  /\ Owner(s, x.conn) /\ x.ended = ses[s].ended /\ Up(ses[s], x)
  /\ x.ended => x.upstream = ses[s].upstream

LEMMA HandledFacts ==
  ASSUME TypeInv, LinkInv, NEW s \in Sessions, NEW x \in SesRec, Handled(s, x)
  PROVE  /\ \A t \in Sessions : t # s => ses'[t] = ses[t]
         /\ ses'[s].conn = x.conn
         /\ \A t \in Sessions : t # s /\ ses[t].conn # None /\ First(t)' => First(t)
         /\ First(s)' /\ sock[x.conn] = "closed" => ses[s].ended \/ sessions[x.conn] # s
         /\ First(s)' /\ sock[x.conn] = "closed" => ses[s].conn = x.conn
         /\ First(s)' /\ ses[s].conn = x.conn => First(s)
<1> DEFINE c == x.conn
<1>1. (\A t \in Sessions : t # s => ses'[t] = ses[t]) /\ ses'[s].conn = c
  BY AfterLine DEF Handled
<1>2. Owner(s, c)
  BY DEF Handled
<1>3. Sessions = 1..MaxSession /\ MaxSession \in Nat
  BY Bounds DEF Sessions
<1>4. ASSUME NEW t \in Sessions, t # s, ses[t].conn # None, First(t)'
      PROVE  First(t)
  <2>1. CASE ses[s].conn = c
    <3>1. \A u \in Sessions : ses'[u].conn = ses[u].conn
      BY <1>1, <2>1
    <3>2. 1..(t - 1) \subseteq Sessions
      BY <1>3
    <3> QED
      BY <1>4, <3>1, <3>2 DEF First
  <2>2. CASE ses[s].conn = None
    <3>1. t < s
      BY <1>3, <1>4, <2>2 DEF LinkInv, Used
    <3>2. \A u \in 1..(t - 1) : u \in Sessions /\ u # s
      BY <1>3, <3>1
    <3>3. ses'[t].conn = ses[t].conn /\ \A u \in 1..(t - 1) : ses'[u].conn = ses[u].conn
      BY <1>1, <1>4, <3>2
    <3> QED
      BY <1>4, <3>3 DEF First
  <2> QED
    BY <1>2, <2>1, <2>2 DEF Owner
<1>5. ASSUME First(s)', ses[s].conn = c
      PROVE  First(s)
  <2>1. \A u \in Sessions : ses'[u].conn = ses[u].conn
    BY <1>1, <1>5
  <2>2. 1..(s - 1) \subseteq Sessions
    BY <1>3
  <2> QED
    BY <1>5, <2>1, <2>2 DEF First
<1>6. ASSUME First(s)', sock[c] = "closed"
      PROVE  ses[s].conn = c
  <2> SUFFICES ASSUME ses[s].conn = None, \E t \in Sessions : ses[t].conn = c
               PROVE  FALSE
    BY <1>2, <1>6 DEF Owner
  <2>1. PICK t \in Sessions : ses[t].conn = c
    OBVIOUS
  <2>2. c # None
    BY <1>2, Bounds DEF Owner
  <2>3. t # s /\ t < s
    BY <1>3, <2>1, <2>2 DEF LinkInv, Used
  <2>4. t \in 1..(s - 1) /\ ses'[t].conn = c
    BY <1>1, <1>3, <2>1, <2>3
  <2> QED
    BY <1>1, <1>6, <2>4 DEF First
<1>7. ASSUME First(s)', sock[c] = "closed", sessions[c] = s
      PROVE  ses[s].ended
  <2>1. First(s)
    BY <1>5, <1>6, <1>7
  <2>2. c \in Conn /\ s # 0
    BY <1>2, <1>3 DEF Owner
  <2> QED
    BY <1>7, <2>1, <2>2 DEF LinkInv, Mapped
<1> QED
  BY <1>1, <1>4, <1>5, <1>6, <1>7

LEMMA HandledLink ==
  ASSUME TypeInv, LinkInv, NEW s \in Sessions, NEW x \in SesRec, Handled(s, x),
         \/ turn'.side # "miner"
         \/ turn'.side = "miner" /\ turn'.at = x.conn
  PROVE  LinkInv'
<1>1. PICK c \in Conn : c = x.conn
  BY DEF Handled, Owner
<1>2. /\ \A t \in Sessions : t # s => ses'[t] = ses[t]
      /\ ses'[s].conn = c
      /\ \A t \in Sessions : t # s /\ ses[t].conn # None /\ First(t)' => First(t)
      /\ First(s)' /\ sock[c] = "closed" => ses[s].conn = c
      /\ First(s)' /\ ses[s].conn = c => First(s)
  BY <1>1, HandledFacts
<1>3. /\ sock[c] # "new" /\ c # None
      /\ \/ ses[s].conn = c /\ (sessions[c] = s \/ ses[s].ended)
         \/ /\ ses[s].conn = None /\ sessions[c] = 0
            /\ \A t \in 1..(s - 1) : ses[t].conn # None
      /\ x.ended = ses[s].ended /\ Up(ses[s], x)
      /\ x.ended => x.upstream = ses[s].upstream
      /\ Keep(s, x) \/ End(s, x)
  BY <1>1, Bounds DEF Handled, Owner
<1>4. Sessions = 1..MaxSession /\ MaxSession \in Nat
  BY Bounds DEF Sessions
<1>5. /\ Keep(s, x) => ses'[s].ended = x.ended /\ ses'[s].upstream = x.upstream
      /\ ~Keep(s, x) => /\ ~x.ended /\ ses'[s].ended = TRUE
                        /\ ses'[s].upstream = IF x.upstream = "null" THEN "null" ELSE "closed"
  BY <1>3, AfterLine
<1>6. Keep(s, x) => /\ sock' = sock
                    /\ sessions' = IF x.ended THEN sessions ELSE [sessions EXCEPT ![c] = s]
  BY <1>1 DEF Keep
<1>7. ~Keep(s, x) => /\ sock' = [sock EXCEPT ![c] = "closed"]
                     /\ sessions' = [sessions EXCEPT ![c] = IF sock[c] = "open" THEN 0 ELSE s]
  BY <1>1, <1>3 DEF End
<1>8. /\ \A b \in Conn : b # c => sock'[b] = sock[b] /\ sessions'[b] = sessions[b]
      /\ ~Keep(s, x) => /\ sock'[c] = "closed"
                        /\ sessions'[c] = IF sock[c] = "open" THEN 0 ELSE s
      /\ Keep(s, x) => /\ sock'[c] = sock[c]
                       /\ sessions'[c] = IF x.ended THEN sessions[c] ELSE s
  BY <1>6, <1>7 DEF TypeInv
\* Another session of the same connection is over, and its socket is closed.
<1>9. ASSUME NEW t \in Sessions, t # s, ses[t].conn = c
      PROVE  /\ ses[s].ended \/ (ses[t].ended /\ sock[c] # "open")
             /\ sock[c] = "open" => sessions[c] = t
             /\ ~ses[t].ended => sessions[c] = t
  BY <1>3, <1>4, <1>9 DEF LinkInv, Socked
<1>10. Alive'
  <2> SUFFICES ASSUME NEW t \in Sessions
               PROVE  /\ ses'[t].ended => ~Live(t)'
                      /\ ses'[t].upstream = "closed" => ses'[t].ended
                      /\ ses'[t].conn = None => ses'[t] = NewSession
    BY DEF Alive
  <2>1. /\ ses[t].ended => ~Live(t)
        /\ ses[t].upstream = "closed" => ses[t].ended
        /\ ses[t].conn = None => ses[t] = NewSession
    BY DEF LinkInv, Alive
  <2>2. CASE t # s
    BY <1>2, <2>1, <2>2 DEF Live
  <2>3. CASE t = s
    BY <1>2, <1>3, <1>5, <2>1, <2>3 DEF Live, Up
  <2> QED
    BY <2>2, <2>3
<1>11. Used'
  <2> SUFFICES ASSUME NEW u \in Sessions, NEW t \in Sessions, t < u, ses'[u].conn # None
               PROVE  ses'[t].conn # None
    BY DEF Used
  <2>1. ses[u].conn # None => ses[t].conn # None
    BY DEF LinkInv, Used
  <2>2. CASE t = s
    BY <1>2, <1>3, <2>2
  <2>3. CASE t # s /\ u # s
    BY <1>2, <2>1, <2>3
  <2>4. CASE t # s /\ u = s
    <3>1. t \in 1..(s - 1)
      BY <1>4, <2>4
    <3> QED
      BY <1>2, <1>3, <2>1, <2>4, <3>1
  <2> QED
    BY <2>2, <2>3, <2>4
<1>12. Mapped'
  <2>0. sessions' \in [Conn -> 0..MaxSession]
    BY <1>3, KeptOrEnded
  <2> SUFFICES ASSUME NEW b \in Conn, NEW t \in Sessions, t = sessions'[b]
               PROVE  /\ ses'[t].conn = b
                      /\ sock'[b] = "open" => ~ses'[t].ended
                      /\ sock'[b] = "closed" => ~First(t)'
    BY <1>4, <2>0 DEF Mapped, First
  <2>1. CASE b # c \/ (Keep(s, x) /\ x.ended)
    <3>1. sessions'[b] = sessions[b] /\ sock'[b] = sock[b]
      BY <1>8, <2>1
    <3>2. t = sessions[b] /\ t # 0
      BY <1>4, <3>1
    <3>3. /\ ses[t].conn = b /\ (sock[b] = "open" => ~ses[t].ended)
          /\ sock[b] = "closed" => ~First(t)
      BY <1>4, <3>1, <3>2 DEF LinkInv, Mapped
    <3>4. b # None
      BY Bounds
    <3>5. CASE t # s
      BY <1>2, <3>1, <3>2, <3>3, <3>4, <3>5
    <3>6. CASE t = s
      <4>1. b = c /\ Keep(s, x) /\ x.ended
        BY <1>3, <2>1, <3>3, <3>4, <3>6
      <4> QED
        BY <1>2, <1>3, <1>5, <3>1, <3>2, <3>3, <3>6, <4>1
    <3> QED
      BY <3>5, <3>6
  <2>2. CASE b = c /\ ~(Keep(s, x) /\ x.ended)
    <3>1. t = s
      BY <1>4, <1>8, <2>2
    <3>2. CASE Keep(s, x)
      <4>1. sock[c] = "closed" => ~First(s)'
        <5> SUFFICES ASSUME sock[c] = "closed", First(s)'
                     PROVE  FALSE
          OBVIOUS
        <5>1. ses[s].conn = c /\ First(s) /\ sessions[c] = s /\ s # 0
          BY <1>2, <1>3, <1>4, <2>2, <3>2
        <5> QED
          BY <5>1 DEF LinkInv, Mapped
      <4> QED
        BY <1>2, <1>5, <1>8, <2>2, <3>1, <3>2, <4>1
    <3>3. CASE ~Keep(s, x)
      <4>1. sock[c] = "closed"
        BY <1>3, <1>4, <1>8, <2>2, <3>1, <3>3 DEF TypeInv
      <4>2. ~First(s)'
        <5> SUFFICES ASSUME First(s)'
                     PROVE  FALSE
          OBVIOUS
        <5>1. ses[s].conn = c /\ First(s) /\ sessions[c] = s /\ s # 0
          BY <1>2, <1>3, <1>4, <1>5, <3>3, <4>1
        <5> QED
          BY <4>1, <5>1 DEF LinkInv, Mapped
      <4> QED
        BY <1>2, <1>8, <2>2, <3>1, <3>3, <4>2
    <3> QED
      BY <3>2, <3>3
  <2> QED
    BY <2>1, <2>2
<1>13. Socked'
  <2> SUFFICES ASSUME NEW t \in Sessions, ses'[t].conn # None
               PROVE  /\ sock'[ses'[t].conn] # "new"
                      /\ sock'[ses'[t].conn] = "open" => sessions'[ses'[t].conn] = t
                      /\ Live(t)' /\ First(t)' => sock'[ses'[t].conn] = "open"
                      /\ ~ses'[t].ended => sessions'[ses'[t].conn] = t
    BY DEF Socked
  <2>1. CASE t # s
    <3>1. ses'[t] = ses[t] /\ (First(t)' => First(t)) /\ (Live(t)' <=> Live(t))
      BY <1>2, <2>1 DEF Live
    <3>2. PICK b \in Conn : b = ses[t].conn
      BY <3>1 DEF TypeInv, SesRec
    <3>3. /\ sock[b] # "new" /\ (sock[b] = "open" => sessions[b] = t)
          /\ Live(t) /\ First(t) => sock[b] = "open"
          /\ ~ses[t].ended => sessions[b] = t
          /\ ses[t].ended => ~Live(t)
      BY <3>1, <3>2 DEF LinkInv, Socked, Alive
    <3>4. CASE b # c \/ (Keep(s, x) /\ x.ended)
      BY <1>8, <3>1, <3>2, <3>3, <3>4
    <3>5. CASE b = c /\ ~(Keep(s, x) /\ x.ended)
      <4>1. ses[t].ended /\ sock[c] # "open" /\ sock'[c] # "open" /\ sock'[c] # "new"
        BY <1>3, <1>5, <1>8, <1>9, <2>1, <3>2, <3>5
      <4> QED
        BY <3>1, <3>2, <3>3, <3>5, <4>1
    <3> QED
      BY <3>4, <3>5
  <2>2. CASE t = s
    <3>1. CASE ~Keep(s, x)
      <4>1. ~Live(s)'
        BY <1>5, <3>1 DEF Live
      <4> QED
        BY <1>2, <1>5, <1>8, <2>2, <3>1, <4>1
    <3>2. CASE Keep(s, x) /\ x.ended
      <4>1. ses[s].conn = c /\ ses[s].ended /\ ~Live(s)
        <5>1. ses[s].conn = None => ~ses[s].ended
          BY DEF LinkInv, Alive, NewSession
        <5> QED
          BY <1>3, <3>2, <5>1 DEF LinkInv, Alive
      <4>2. ~Live(s)'
        BY <1>3, <1>5, <3>2, <4>1 DEF Live
      <4>3. sock[c] = "open" => sessions[c] = s
        BY <1>3, <4>1 DEF LinkInv, Socked
      <4> QED
        BY <1>2, <1>3, <1>5, <1>8, <2>2, <3>2, <4>2, <4>3
    <3>3. CASE Keep(s, x) /\ ~x.ended
      <4>1. First(s)' => sock[c] = "open"
        <5> SUFFICES ASSUME First(s)', sock[c] # "open"
                     PROVE  FALSE
          OBVIOUS
        <5>1. sock[c] = "closed"
          BY <1>3 DEF TypeInv
        <5>2. ses[s].conn = c /\ First(s) /\ sessions[c] = s /\ s # 0
          BY <1>2, <1>3, <1>4, <3>3, <5>1
        <5> QED
          BY <5>1, <5>2 DEF LinkInv, Mapped
      <4> QED
        BY <1>2, <1>3, <1>5, <1>8, <2>2, <3>3, <4>1
    <3> QED
      BY <3>1, <3>2, <3>3
  <2> QED
    BY <2>1, <2>2
<1>14. Turned'
  BY <1>1, <1>2, <1>3, <1>8 DEF Turned
<1> QED
  BY <1>10, <1>11, <1>12, <1>13, <1>14 DEF LinkInv

\* The session of connection c, with the socket it has.
LEMMA ChosenOwner ==
  ASSUME TypeInv, LinkInv, NEW c \in Conn, NEW s \in Sessions, MinerLine(c), Chosen(c, s)
  PROVE  Owner(s, c)
<1>1. sock[c] = "open" \/ (turn.side = "miner" /\ turn.at = c)
  BY LineTurn DEF MinerLine
<1>2. sock[c] # "new"
  BY <1>1 DEF LinkInv, Turned
<1>3. CASE sessions[c] # 0
  BY <1>2, <1>3 DEF Chosen, LinkInv, Mapped, Owner
<1>4. CASE sessions[c] = 0
  BY <1>1, <1>2, <1>4 DEF Chosen, LinkInv, Turned, Owner
<1> QED
  BY <1>3, <1>4

LEMMA MinerLink ==
  ASSUME TypeInv, LinkInv, NEW c \in Conn, MinerLine(c)
  PROVE  LinkInv'
<1>1. PICK s \in Sessions, x \in SesRec, late \in SUBSET Nat, m \in Req :
         MinerStep(c, s, x, late, m)
  BY MinerLineShape
<1>2. Keep(s, x) \/ End(s, x)
  BY <1>1 DEF MinerStep, NoSubmit, Login, Refused, Submitted, Quiet, Relays, Ends
<1>3. Up(ses[s], x) /\ (x.ended => x.upstream = ses[s].upstream)
  BY <1>1 DEF MinerStep, NoSubmit, Login, Refused, Submitted, Quiet, Relays, Ends, Up
<1>4. Owner(s, x.conn)
  BY <1>1, ChosenOwner DEF MinerStep
<1>5. Handled(s, x)
  BY <1>1, <1>2, <1>3, <1>4 DEF Handled, MinerStep
<1>6. turn'.side # "miner" \/ (turn'.side = "miner" /\ turn'.at = x.conn)
  BY <1>1, LineTurn DEF MinerLine, MinerStep
<1> QED
  BY <1>5, <1>6, HandledLink

\* A session that was taken has its connection in the map until it is over.
LEMMA TakenOwner ==
  ASSUME TypeInv, LinkInv, NEW s \in Sessions, ses[s] # NewSession
  PROVE  Owner(s, ses[s].conn)
<1>1. ses[s].conn # None /\ ses[s].conn \in Conn
  BY DEF LinkInv, Alive, TypeInv, SesRec
<1> QED
  BY <1>1 DEF LinkInv, Socked, Owner

LEMMA PoolLink ==
  ASSUME TypeInv, LinkInv, NEW s \in Sessions, PoolLine(s)
  PROVE  LinkInv'
<1>1. PICK x \in SesRec, m \in Msg, done \in SUBSET Nat : PoolStep(s, x, m, done)
  BY PoolLineShape
<1>2. ses[s] # NewSession
  BY <1>1 DEF PoolStep, NewSession
<1>3. Owner(s, x.conn)
  BY <1>1, <1>2, TakenOwner DEF PoolStep
<1>4. Handled(s, x)
  BY <1>1, <1>3 DEF Handled, PoolStep, Up
<1>5. turn'.side # "miner"
  BY LineTurn DEF PoolLine
<1> QED
  BY <1>4, <1>5, HandledLink

\* Steps that leave the connections and the sockets alone.
LEMMA LinkKept ==
  ASSUME TypeInv, LinkInv, UNCHANGED <<sock, sessions>>,
         turn' = turn \/ turn'.side # "miner",
         \A t \in Sessions : \/ ses'[t] = ses[t]
                             \/ /\ ses'[t].conn = ses[t].conn /\ ses'[t].ended = ses[t].ended
                                /\ Live(t) /\ Live(t)'
  PROVE  LinkInv'
<1>1. Sessions = 1..MaxSession /\ MaxSession \in Nat
  BY Bounds DEF Sessions
<1>2. \A t \in Sessions : ses'[t].conn = ses[t].conn /\ ses'[t].ended = ses[t].ended
  OBVIOUS
<1>3. \A t \in Sessions : Live(t)' <=> Live(t)
  BY DEF Live
<1>4. \A t \in Sessions : First(t)' <=> First(t)
  <2> TAKE t \in Sessions
  <2>1. 1..(t - 1) \subseteq Sessions
    BY <1>1
  <2> QED
    BY <1>2, <2>1 DEF First
<1>5. Alive'
  <2> SUFFICES ASSUME NEW t \in Sessions
               PROVE  /\ ses'[t].ended => ~Live(t)'
                      /\ ses'[t].upstream = "closed" => ses'[t].ended
                      /\ ses'[t].conn = None => ses'[t] = NewSession
    BY DEF Alive
  <2>1. /\ ses[t].ended => ~Live(t)
        /\ ses[t].upstream = "closed" => ses[t].ended
        /\ ses[t].conn = None => ses[t] = NewSession
    BY DEF LinkInv, Alive
  <2>2. CASE ses'[t] = ses[t]
    BY <1>3, <2>1, <2>2
  <2>3. CASE Live(t) /\ Live(t)'
    <3>1. ses[t].conn # None
      BY <2>1, <2>3 DEF Live, NewSession
    <3> QED
      BY <1>2, <2>1, <2>3, <3>1 DEF Live
  <2> QED
    BY <2>2, <2>3
<1>6. Used'
  BY <1>2 DEF LinkInv, Used
<1>7. Mapped'
  <2>0. sessions' \in [Conn -> 0..MaxSession]
    BY DEF TypeInv
  <2> SUFFICES ASSUME NEW b \in Conn, NEW t \in Sessions, t = sessions'[b]
               PROVE  /\ ses'[t].conn = b
                      /\ sock'[b] = "open" => ~ses'[t].ended
                      /\ sock'[b] = "closed" => ~First(t)'
    BY <1>1, <2>0 DEF Mapped, First
  <2>1. t # 0 /\ t = sessions[b]
    BY <1>1
  <2>2. /\ ses[t].conn = b /\ (sock[b] = "open" => ~ses[t].ended)
        /\ sock[b] = "closed" => ~First(t)
    BY <2>1 DEF LinkInv, Mapped
  <2> QED
    BY <1>2, <1>4, <2>2
<1>8. Socked'
  <2> SUFFICES ASSUME NEW t \in Sessions, ses'[t].conn # None
               PROVE  /\ sock[ses'[t].conn] # "new"
                      /\ sock[ses'[t].conn] = "open" => sessions[ses'[t].conn] = t
                      /\ Live(t)' /\ First(t)' => sock[ses'[t].conn] = "open"
                      /\ ~ses'[t].ended => sessions[ses'[t].conn] = t
    BY DEF Socked
  <2> QED
    BY <1>2, <1>3, <1>4 DEF LinkInv, Socked
<1>9. Turned'
  BY <1>2 DEF LinkInv, Turned
<1> QED
  BY <1>5, <1>6, <1>7, <1>8, <1>9 DEF LinkInv

LEMMA HangUpLink ==
  ASSUME TypeInv, LinkInv, NEW c \in Conn, HangUp(c)
  PROVE  LinkInv'
<1>1. Sessions = 1..MaxSession /\ MaxSession \in Nat /\ c # None
  BY Bounds DEF Sessions
<1>2. \A t \in Sessions :
        /\ ses'[t].conn = ses[t].conn
        /\ t = sessions[c] => ses'[t].ended /\ ~Live(t)'
        /\ t # sessions[c] => ses'[t] = ses[t]
        /\ ses'[t].upstream = "closed" => ses'[t].ended
        /\ ses'[t].ended => ~Live(t)'
        /\ Live(t)' => Live(t)
        /\ ~ses'[t].ended => ~ses[t].ended
  <2> TAKE t \in Sessions
  <2>1. /\ Ended(ses[t]).conn = ses[t].conn /\ Ended(ses[t]).ended = TRUE
        /\ Ended(ses[t]).upstream = IF ses[t].upstream = "null" THEN "null" ELSE "closed"
    BY EndedRec DEF TypeInv
  <2>2. ses'[t] = IF t = sessions[c] /\ ~ses[t].ended THEN Ended(ses[t]) ELSE ses[t]
    BY HangUpShape
  <2>3. /\ ses[t].ended => ~Live(t)
        /\ ses[t].upstream = "closed" => ses[t].ended
    BY DEF LinkInv, Alive
  <2>4. CASE t = sessions[c] /\ ~ses[t].ended
    <3>1. PICK y : y = Ended(ses[t])
      OBVIOUS
    <3>2. /\ ses'[t] = y /\ y.conn = ses[t].conn /\ y.ended = TRUE
          /\ y.upstream = IF ses[t].upstream = "null" THEN "null" ELSE "closed"
      BY <2>1, <2>2, <2>4, <3>1
    <3> QED
      BY <2>4, <3>2 DEF Live
  <2>5. CASE ~(t = sessions[c] /\ ~ses[t].ended)
    BY <2>2, <2>3, <2>5 DEF Live
  <2> QED
    BY <2>4, <2>5
<1>3. \A t \in Sessions : First(t)' <=> First(t)
  <2> TAKE t \in Sessions
  <2>1. 1..(t - 1) \subseteq Sessions
    BY <1>1
  <2> QED
    BY <1>2, <2>1 DEF First
<1>4. /\ sock'[c] = "closed" /\ sock[c] = "open" /\ sessions'[c] = 0 /\ turn'.side # "miner"
      /\ \A b \in Conn : b # c => sock'[b] = sock[b] /\ sessions'[b] = sessions[b]
  BY DEF HangUp, TypeInv, NoTurn
<1>5. Alive'
  <2> SUFFICES ASSUME NEW t \in Sessions
               PROVE  ses'[t].conn = None => ses'[t] = NewSession
    BY <1>2 DEF Alive
  <2>1. ses[t].conn = None => ses[t] = NewSession
    BY DEF LinkInv, Alive
  <2>2. t = sessions[c] => ses[t].conn = c
    BY <1>1 DEF LinkInv, Mapped
  <2> QED
    BY <1>1, <1>2, <2>1, <2>2
<1>6. Used'
  BY <1>2 DEF LinkInv, Used
<1>7. Mapped'
  <2>0. sessions' \in [Conn -> 0..MaxSession]
    BY <1>1 DEF HangUp, TypeInv
  <2> SUFFICES ASSUME NEW b \in Conn, NEW t \in Sessions, t = sessions'[b]
               PROVE  /\ ses'[t].conn = b
                      /\ sock'[b] = "open" => ~ses'[t].ended
                      /\ sock'[b] = "closed" => ~First(t)'
    BY <1>1, <2>0 DEF Mapped, First
  <2>1. b # c /\ t = sessions[b] /\ t # 0 /\ sock'[b] = sock[b]
    BY <1>1, <1>4
  <2>2. /\ ses[t].conn = b /\ (sock[b] = "open" => ~ses[t].ended)
        /\ sock[b] = "closed" => ~First(t)
    BY <2>1 DEF LinkInv, Mapped
  <2>3. t # sessions[c]
    BY <1>1, <2>1, <2>2 DEF LinkInv, Mapped
  <2> QED
    BY <1>2, <1>3, <2>1, <2>2, <2>3
<1>8. Socked'
  <2> SUFFICES ASSUME NEW t \in Sessions, ses'[t].conn # None
               PROVE  /\ sock'[ses'[t].conn] # "new"
                      /\ sock'[ses'[t].conn] = "open" => sessions'[ses'[t].conn] = t
                      /\ Live(t)' /\ First(t)' => sock'[ses'[t].conn] = "open"
                      /\ ~ses'[t].ended => sessions'[ses'[t].conn] = t
    BY DEF Socked
  <2>1. PICK b \in Conn : b = ses[t].conn /\ b = ses'[t].conn
    BY <1>2 DEF TypeInv, SesRec
  <2>2. /\ sock[b] # "new" /\ (sock[b] = "open" => sessions[b] = t)
        /\ Live(t) /\ First(t) => sock[b] = "open"
        /\ ~ses[t].ended => sessions[b] = t
    BY <1>2, <2>1 DEF LinkInv, Socked
  <2>3. CASE b = c
    BY <1>2, <1>4, <2>1, <2>2, <2>3
  <2>4. CASE b # c
    BY <1>2, <1>3, <1>4, <2>1, <2>2, <2>4
  <2> QED
    BY <2>3, <2>4
<1>9. Turned'
  BY <1>4 DEF Turned
<1> QED
  BY <1>5, <1>6, <1>7, <1>8, <1>9 DEF LinkInv

LEMMA AcceptLink ==
  ASSUME TypeInv, LinkInv, NEW c \in Conn, Accept(c)
  PROVE  LinkInv'
<1>1. Sessions = 1..MaxSession /\ MaxSession \in Nat
  BY Bounds DEF Sessions
<1>2. /\ sock[c] = "new" /\ ses' = ses /\ sessions' = sessions /\ turn'.side # "miner"
      /\ \A b \in Conn : b # c => sock'[b] = sock[b]
  BY DEF Accept, NoTurn, TypeInv
<1>3. \A t \in Sessions : ses[t].conn # c
  BY <1>2, Bounds DEF LinkInv, Socked
<1>4. sessions[c] = 0
  <2> SUFFICES ASSUME NEW t \in Sessions, t = sessions[c]
               PROVE  FALSE
    BY <1>1 DEF TypeInv
  <2> QED
    BY <1>1, <1>3 DEF LinkInv, Mapped
<1>5. Alive' /\ Used' /\ Turned'
  BY <1>2 DEF LinkInv, Alive, Live, Used, Turned
<1>6. Mapped'
  <2>0. sessions' \in [Conn -> 0..MaxSession]
    BY <1>2 DEF TypeInv
  <2> SUFFICES ASSUME NEW b \in Conn, NEW t \in Sessions, t = sessions'[b]
               PROVE  /\ ses'[t].conn = b
                      /\ sock'[b] = "open" => ~ses'[t].ended
                      /\ sock'[b] = "closed" => ~First(t)'
    BY <1>1, <2>0 DEF Mapped, First
  <2>1. t # 0 /\ b # c /\ t = sessions[b]
    BY <1>1, <1>2, <1>4
  <2> QED
    BY <1>2, <2>1 DEF LinkInv, Mapped, First
<1>7. Socked'
  <2> SUFFICES ASSUME NEW t \in Sessions, ses[t].conn # None
               PROVE  /\ sock'[ses[t].conn] # "new"
                      /\ sock'[ses[t].conn] = "open" => sessions[ses[t].conn] = t
                      /\ Live(t) /\ First(t) => sock'[ses[t].conn] = "open"
                      /\ ~ses[t].ended => sessions[ses[t].conn] = t
    BY <1>2 DEF Socked, Live, First
  <2>1. PICK b \in Conn : b = ses[t].conn /\ b # c
    BY <1>3 DEF TypeInv, SesRec
  <2> QED
    BY <1>2, <2>1 DEF LinkInv, Socked
<1> QED
  BY <1>5, <1>6, <1>7 DEF LinkInv

LEMMA OthersLink ==
  ASSUME TypeInv, LinkInv,
         \/ \E s \in Sessions :
              \/ Connected(s) \/ UpstreamGone(s)
              \/ \E i \in DOMAIN ses[s].out, ok \in BOOLEAN : PoolAnswers(s, i, ok)
              \/ \E d \in Weight : PoolPushes(s, "difficulty", d)
              \/ PoolPushes(s, "reconnect", 1)
         \/ \E c \in Conn : Accept(c) \/ HangUp(c)
         \/ Tick \/ Signal \/ Exit \/ UNCHANGED vars
  PROVE  LinkInv'
<1>1. ASSUME NEW s \in Sessions, Connected(s)
      PROVE  LinkInv'
  <2>1. PICK x \in SesRec : Flush(s, x)
    BY <1>1, ConnectedShape
  <2>2. \A t \in Sessions : \/ ses'[t] = ses[t]
                            \/ /\ ses'[t].conn = ses[t].conn /\ ses'[t].ended = ses[t].ended
                               /\ Live(t) /\ Live(t)'
    BY <2>1, SesUpdated DEF Flush, Rest, Live
  <2> QED
    BY <1>1, <2>2, LinkKept DEF Connected
<1>2. ASSUME NEW s \in Sessions, UpstreamGone(s)
      PROVE  LinkInv'
  <2>1. ses[s] \in SesRec
    BY DEF TypeInv
  <2>2. ses[s] # NewSession
    BY <1>2 DEF UpstreamGone, Live, NewSession
  <2>3. Handled(s, ses[s])
    BY <1>2, <2>2, TakenOwner DEF UpstreamGone, Handled, Up
  <2>4. turn'.side # "miner"
    <3>1. turn' = NoTurn
      BY <1>2 DEF UpstreamGone
    <3> QED
      BY ONLY <3>1 DEF NoTurn
  <2> QED
    BY <2>1, <2>3, <2>4, HandledLink
<1>3. ASSUME NEW s \in Sessions, NEW i \in DOMAIN ses[s].out, NEW ok \in BOOLEAN,
             PoolAnswers(s, i, ok)
      PROVE  LinkInv'
  <2>1. PICK x \in SesRec, d \in Msg, m \in Req :
          /\ Says(s, x, d)
          /\ shares' = IF m.share = 0 THEN shares ELSE [shares EXCEPT ![m.share].verdict = ok]
    BY <1>3, AnswersShape
  <2>2. \A t \in Sessions : \/ ses'[t] = ses[t]
                            \/ /\ ses'[t].conn = ses[t].conn /\ ses'[t].ended = ses[t].ended
                               /\ Live(t) /\ Live(t)'
    BY <2>1, SesUpdated DEF Says, Live
  <2> QED
    BY <1>3, <2>2, LinkKept DEF PoolAnswers
<1>4. ASSUME NEW s \in Sessions, NEW kind \in {"difficulty", "reconnect"},
             NEW value \in Weight \cup {1}, PoolPushes(s, kind, value)
      PROVE  LinkInv'
  <2>1. PICK x \in SesRec, d \in Msg : Says(s, x, d)
    BY <1>4, PushesShape
  <2>2. \A t \in Sessions : \/ ses'[t] = ses[t]
                            \/ /\ ses'[t].conn = ses[t].conn /\ ses'[t].ended = ses[t].ended
                               /\ Live(t) /\ Live(t)'
    BY <2>1, SesUpdated DEF Says, Live
  <2> QED
    BY <1>4, <2>2, LinkKept DEF PoolPushes
<1>5. ASSUME UNCHANGED <<sock, sessions, ses>>, turn' = turn \/ turn'.side # "miner"
      PROVE  LinkInv'
  BY <1>5, LinkKept
<1>6. Exited.side # "miner"
  BY DEF Exited
<1> QED
  BY <1>1, <1>2, <1>3, <1>4, <1>5, <1>6, HangUpLink, AcceptLink DEF Tick, Signal, Exit, vars

LEMMA InitLink == Init => LinkInv
<1> SUFFICES ASSUME Init
             PROVE  LinkInv
  OBVIOUS
<1>1. \A s \in Sessions : ses[s] = NewSession
  BY DEF Init
<1>2. NewSession.conn = None /\ NewSession.ended = FALSE /\ NewSession.upstream = "null"
  BY DEF NewSession
<1>3. Alive
  BY <1>1, <1>2 DEF Alive, Live
<1>4. Used /\ Socked
  BY <1>1, <1>2 DEF Used, Socked
<1>5. Mapped /\ Turned
  BY DEF Init, Mapped, Turned, NoTurn
<1> QED
  BY <1>3, <1>4, <1>5 DEF LinkInv

\* The upstream socket of a connection's first session never outlives the
\* miner's, and no miner is left connected to a session that is over, for any
\* number of connections, sessions and lines in a chunk (index.ts:138-140,
\* session.ts:197-202, 343-350).
THEOREM SpecPaired == Spec => []Paired
<1>1. TypeInv /\ LinkInv /\ [Next]_vars => LinkInv'
  BY MinerLink, PoolLink, OthersLink DEF Next
<1>2. TypeInv /\ LinkInv => Paired
  <2> SUFFICES ASSUME TypeInv, LinkInv
               PROVE  Paired
    OBVIOUS
  <2>1. ASSUME NEW s \in Sessions, Live(s), First(s)
        PROVE  sock[ses[s].conn] = "open" /\ ~ses[s].ended
    <3>1. ses[s].conn # None
      BY <2>1 DEF LinkInv, Alive, Live, NewSession
    <3> QED
      BY <2>1, <3>1 DEF LinkInv, Alive, Socked
  <2>2. ASSUME NEW c \in Conn, NEW t \in Sessions, t = sessions[c], sock[c] = "open", t # 0
        PROVE  ~ses[t].ended /\ ses[t].upstream # "closed"
    BY <2>2 DEF LinkInv, Alive, Mapped
  <2>3. \A c \in Conn : sessions[c] # 0 => sessions[c] \in Sessions
    BY Bounds DEF TypeInv, Sessions
  <2> QED
    BY <2>1, <2>2, <2>3 DEF Paired
<1> QED
  BY <1>1, <1>2, InitLink, SpecTypeInv, PTL DEF Spec

-----------------------------------------------------------------------------
(* The order of the requests.                                              *)

\* What a session relayed and what it holds for the dial.
All(v) == v.out \o v.queued

LEMMA AllType ==
  ASSUME NEW v \in SesRec
  PROVE  /\ All(v) \in Seq(Req) /\ DOMAIN All(v) = 1..Len(All(v)) /\ Len(All(v)) \in Nat
         /\ \A i \in DOMAIN All(v) : All(v)[i] \in Req
<1>1. v.out \in Seq(Req) /\ v.queued \in Seq(Req)
  BY DEF SesRec
<1>2. PICK q : q = All(v)
  OBVIOUS
<1> HIDE DEF Req
<1>3. q \in Seq(Req)
  BY <1>1, <1>2, ConcatProperties DEF All
<1>4. DOMAIN q = 1..Len(q) /\ Len(q) \in Nat /\ \A i \in DOMAIN q : q[i] \in Req
  BY <1>3, LenProperties, ElementOfSeq
<1> QED
  BY <1>2, <1>3, <1>4

LEMMA AllSent ==
  ASSUME NEW v \in SesRec, NEW x \in SesRec, NEW m \in Req, Up(v, x), Sent(v, x, m),
         v.upstream = "ready" => v.queued = <<>>
  PROVE  /\ All(x) = Append(All(v), m)
         /\ x.upstream = "ready" => x.queued = <<>>
<1>1. v.out \in Seq(Req) /\ v.queued \in Seq(Req) /\ x.out \in Seq(Req) /\ x.queued \in Seq(Req)
  BY DEF SesRec
<1>2. CASE x.upstream = "ready" /\ x.out = Append(v.out, m) /\ x.queued = v.queued
  <2>1. v.queued = <<>> /\ x.queued = <<>>
    BY <1>2 DEF Up
  <2>2. v.out \o <<>> = v.out /\ x.out \o <<>> = x.out
    <3> HIDE DEF Req
    <3> QED
      BY <1>1, ConcatEmptySeq
  <2> QED
    BY <1>2, <2>1, <2>2 DEF All
<1>3. CASE x.upstream # "ready" /\ x.queued = Append(v.queued, m) /\ x.out = v.out
  <2>1. PICK a \in Seq(Req), b \in Seq(Req), r \in Req : a = v.out /\ b = v.queued /\ r = m
    BY <1>1
  <2>2. a \o Append(b, r) = Append(a \o b, r)
    <3> HIDE DEF Req
    <3>1. <<r>> \in Seq(Req)
      OBVIOUS
    <3>2. Append(b, r) = b \o <<r>>
      BY AppendIsConcat
    <3>3. a \o b \in Seq(Req)
      BY ConcatProperties
    <3>4. Append(a \o b, r) = (a \o b) \o <<r>>
      BY <3>3, AppendIsConcat
    <3> QED
      BY <3>1, <3>2, <3>4, ConcatAssociative
  <2> QED
    BY <1>3, <2>1, <2>2 DEF All
<1> QED
  BY <1>2, <1>3 DEF Sent

LinesBelow(all, k) == \A i \in DOMAIN all : all[i].line <= k

\* S holds the numbers of the session's shares.
Orderly(v, all, S) ==
  /\ v.upstream = "ready" => v.queued = <<>>
  /\ \A i, j \in DOMAIN all : i < j => all[i].line < all[j].line
  /\ \A j \in DOMAIN all : all[j].method = "submit" =>
       \E i \in 1..(j - 1) : all[i].method = "authorize"
  /\ ~v.ended /\ v.identity # None => \E i \in DOMAIN all : all[i].method = "authorize"
  /\ ~v.ended => \A n \in S : \E i \in DOMAIN all : all[i].share = n

Mine(s) == {n \in DOMAIN shares : shares[n].session = s}

OrderInv ==
  \A s \in Sessions :
    /\ Orderly(ses[s], All(ses[s]), Mine(s))
    /\ ses[s].conn # None => LinesBelow(All(ses[s]), lines[ses[s].conn])

LEMMA OrderlySame ==
  ASSUME NEW v, NEW x, NEW all, NEW S, NEW T, Orderly(v, all, S), v.ended => x.ended,
         x.ended \/ (x.identity = v.identity /\ T \subseteq S),
         x.upstream = "ready" => x.queued = <<>>
  PROVE  Orderly(x, all, T)
BY DEF Orderly

LEMMA Appended ==
  ASSUME NEW all \in Seq(Req), NEW m \in Req
  PROVE  /\ Append(all, m) \in Seq(Req)
         /\ DOMAIN all = 1..Len(all) /\ Len(all) \in Nat
         /\ DOMAIN Append(all, m) = 1..(Len(all) + 1)
         /\ \A i \in 1..Len(all) : Append(all, m)[i] = all[i] /\ all[i] \in Req
         /\ Append(all, m)[Len(all) + 1] = m
<1> HIDE DEF Req
<1>1. /\ Append(all, m) \in Seq(Req) /\ Len(Append(all, m)) = Len(all) + 1
      /\ \A i \in 1..Len(all) : Append(all, m)[i] = all[i]
      /\ Append(all, m)[Len(all) + 1] = m
  BY AppendProperties
<1>2. DOMAIN Append(all, m) = 1..(Len(all) + 1)
  BY <1>1, LenProperties
<1>3. DOMAIN all = 1..Len(all) /\ Len(all) \in Nat /\ \A i \in 1..Len(all) : all[i] \in Req
  BY LenProperties, ElementOfSeq
<1> QED
  BY <1>1, <1>2, <1>3

LEMMA OrderlySent ==
  ASSUME NEW v, NEW x, NEW all \in Seq(Req), NEW m \in Req, NEW S, NEW T, NEW k \in Nat,
         Orderly(v, all, S), LinesBelow(all, k), m.line = k + 1,
         T \subseteq S \cup {m.share}, v.ended => x.ended,
         x.identity = v.identity \/ m.method = "authorize",
         m.method = "submit" => ~v.ended /\ v.identity # None,
         x.upstream = "ready" => x.queued = <<>>
  PROVE  Orderly(x, Append(all, m), T) /\ LinesBelow(Append(all, m), k + 1)
<1>1. PICK q : q = Append(all, m)
  OBVIOUS
<1>2. PICK l \in Nat : l = Len(all)
  BY LenProperties
<1>3. /\ DOMAIN all = 1..l /\ DOMAIN q = 1..(l + 1)
      /\ \A i \in 1..l : q[i] = all[i] /\ all[i] \in Req
      /\ q[l + 1] = m
  BY <1>1, <1>2, Appended
<1>4. \A i \in 1..l : all[i].line \in Nat /\ all[i].line <= k
  BY <1>3 DEF LinesBelow, Req
<1>5. LinesBelow(q, k + 1)
  <2> SUFFICES ASSUME NEW i \in 1..(l + 1)
               PROVE  q[i].line <= k + 1
    BY <1>3 DEF LinesBelow
  <2> QED
    BY <1>3, <1>4
<1>6. \A i, j \in 1..(l + 1) : i < j => q[i].line < q[j].line
  <2> SUFFICES ASSUME NEW i \in 1..(l + 1), NEW j \in 1..(l + 1), i < j
               PROVE  q[i].line < q[j].line
    OBVIOUS
  <2>1. i \in 1..l
    OBVIOUS
  <2>2. CASE j = l + 1
    BY <1>3, <1>4, <2>1, <2>2
  <2>3. CASE j # l + 1
    <3>1. j \in 1..l
      BY <2>3
    <3> QED
      BY <1>3, <2>1, <3>1 DEF Orderly
  <2> QED
    BY <2>2, <2>3
<1>7. ASSUME NEW j \in 1..(l + 1), q[j].method = "submit"
      PROVE  \E i \in 1..(j - 1) : q[i].method = "authorize"
  <2>1. CASE j = l + 1
    <3>1. PICK i \in 1..l : all[i].method = "authorize"
      BY <1>3, <1>7, <2>1 DEF Orderly
    <3>2. i \in 1..(j - 1)
      BY <2>1
    <3> QED
      BY <1>3, <3>1, <3>2
  <2>2. CASE j # l + 1
    <3>1. j \in 1..l
      BY <2>2
    <3>2. all[j].method = "submit"
      BY <1>3, <1>7, <3>1
    <3>3. PICK i \in 1..(j - 1) : all[i].method = "authorize"
      BY <1>3, <3>1, <3>2 DEF Orderly
    <3>4. i \in 1..l
      BY <3>1
    <3> QED
      BY <1>3, <3>3, <3>4
  <2> QED
    BY <2>1, <2>2
<1>8. ASSUME ~x.ended, x.identity # None
      PROVE  \E i \in 1..(l + 1) : q[i].method = "authorize"
  <2>1. CASE m.method = "authorize"
    BY <1>3, <2>1
  <2>2. CASE m.method # "authorize"
    <3>1. PICK i \in 1..l : all[i].method = "authorize"
      BY <1>3, <1>8, <2>2 DEF Orderly
    <3>2. i \in 1..(l + 1)
      OBVIOUS
    <3> QED
      BY <1>3, <3>1, <3>2
  <2> QED
    BY <2>1, <2>2
<1>9. ASSUME ~x.ended, NEW n \in T
      PROVE  \E i \in 1..(l + 1) : q[i].share = n
  <2>1. CASE n = m.share
    BY <1>3, <2>1
  <2>2. CASE n \in S
    <3>1. PICK i \in 1..l : all[i].share = n
      BY <1>3, <1>9, <2>2 DEF Orderly
    <3>2. i \in 1..(l + 1)
      OBVIOUS
    <3> QED
      BY <1>3, <3>1, <3>2
  <2> QED
    BY <1>9, <2>1, <2>2
<1>10. Orderly(x, q, T)
  BY <1>3, <1>6, <1>7, <1>8, <1>9 DEF Orderly
<1> QED
  BY <1>1, <1>5, <1>10

LEMMA SharesType == TypeInv => \A n \in DOMAIN shares : shares[n] \in Share
<1> HIDE DEF Share
<1> QED
  BY ElementOfSeq, LenProperties DEF TypeInv

LEMMA MineMarked ==
  ASSUME TypeInv, NEW S, NEW o \in Outcomes, shares' = Marked(S, o)
  PROVE  \A t : Mine(t)' = Mine(t)
<1>1. DOMAIN shares' = DOMAIN shares
  BY MarkedShares
<1>2. \A n \in DOMAIN shares : shares'[n].session = shares[n].session
  <2> TAKE n \in DOMAIN shares
  <2>1. PICK r \in Share : r = shares[n]
    BY SharesType
  <2>2. shares'[n] = IF n \in S THEN [r EXCEPT !.outcome = o] ELSE r
    BY <2>1, MarkedShares
  <2> QED
    BY <2>1, <2>2 DEF Share
<1> QED
  BY <1>1, <1>2 DEF Mine

LEMMA MineAppended ==
  ASSUME TypeInv, NEW S, NEW o \in Outcomes, NEW h \in Share,
         shares' = Append(Marked(S, o), h)
  PROVE  /\ \A t : t # h.session => Mine(t)' = Mine(t)
         /\ Mine(h.session)' = Mine(h.session) \cup {Len(shares) + 1}
         /\ Len(shares) + 1 \notin DOMAIN shares
<1>1. PICK q \in Seq(Share) : q = Marked(S, o)
  BY MarkedShares
<1>2. /\ Len(q) = Len(shares) /\ DOMAIN shares = 1..Len(shares) /\ Len(shares) \in Nat
      /\ \A n \in DOMAIN shares :
           q[n] = IF n \in S THEN [shares[n] EXCEPT !.outcome = o] ELSE shares[n]
  BY <1>1, MarkedShares
<1>3. \A n \in DOMAIN shares : q[n].session = shares[n].session
  BY <1>2, SharesType DEF Share
<1>4. /\ DOMAIN Append(q, h) = 1..(Len(q) + 1)
      /\ \A n \in 1..Len(q) : Append(q, h)[n] = q[n]
      /\ Append(q, h)[Len(q) + 1] = h
  <2> HIDE DEF Share
  <2>1. Append(q, h) \in Seq(Share) /\ Len(Append(q, h)) = Len(q) + 1
    BY AppendProperties
  <2>2. DOMAIN Append(q, h) = 1..(Len(q) + 1)
    BY <2>1, LenProperties
  <2> QED
    BY <2>2, AppendProperties
<1>5. /\ DOMAIN shares' = 1..(Len(shares) + 1)
      /\ \A n \in DOMAIN shares : shares'[n].session = shares[n].session
      /\ shares'[Len(shares) + 1].session = h.session
  BY <1>1, <1>2, <1>3, <1>4
<1>6. /\ Len(shares) + 1 \notin DOMAIN shares
      /\ 1..(Len(shares) + 1) = DOMAIN shares \cup {Len(shares) + 1}
  BY <1>2
<1>7. \A t : Mine(t)' = Mine(t) \cup IF h.session = t THEN {Len(shares) + 1} ELSE {}
  BY <1>5, <1>6 DEF Mine
<1> QED
  BY <1>6, <1>7

\* Lines that are not sent, ends, flushes: the requests are the same.
LEMMA OrderKept ==
  ASSUME TypeInv, OrderInv, NEW t \in Sessions,
         All(ses'[t]) = All(ses[t]),
         ses[t].ended => ses'[t].ended,
         ses'[t].ended \/ (ses'[t].identity = ses[t].identity /\ Mine(t)' \subseteq Mine(t)),
         ses'[t].upstream = "ready" => ses'[t].queued = <<>>,
         ses[t].conn = ses'[t].conn \/ All(ses[t]) = <<>>,
         \A b \in Conn : lines'[b] \in Nat /\ lines[b] <= lines'[b]
  PROVE  /\ Orderly(ses'[t], All(ses'[t]), Mine(t)')
         /\ ses'[t].conn # None => LinesBelow(All(ses'[t]), lines'[ses'[t].conn])
<1>1. Orderly(ses'[t], All(ses[t]), Mine(t)')
  BY OrderlySame DEF OrderInv
<1>2. ASSUME ses'[t].conn # None
      PROVE  LinesBelow(All(ses[t]), lines'[ses'[t].conn])
  <2>1. CASE All(ses[t]) = <<>>
    BY <2>1 DEF LinesBelow
  <2>2. CASE ses[t].conn = ses'[t].conn
    <3>1. PICK b \in Conn : b = ses[t].conn
      BY <1>2, <2>2 DEF TypeInv, SesRec
    <3>2. lines[b] \in Nat /\ lines'[b] \in Nat /\ lines[b] <= lines'[b]
      BY DEF TypeInv
    <3>3. \A i \in DOMAIN All(ses[t]) : All(ses[t])[i].line \in Nat
      BY AllType DEF TypeInv, Req
    <3>4. LinesBelow(All(ses[t]), lines[b])
      BY <1>2, <2>2, <3>1 DEF OrderInv
    <3> QED
      BY <2>2, <3>1, <3>2, <3>3, <3>4 DEF LinesBelow
  <2> QED
    BY <2>1, <2>2
<1> QED
  BY <1>1, <1>2

LEMMA NewAll == All(NewSession) = <<>>
BY DEF All, NewSession

LEMMA RelayedOnce ==
  ASSUME TypeInv, NEW s \in Sessions, NEW x \in SesRec, NEW m \in Req, Relays(s, x, m)
  PROVE  ~Same(ses[s], x)
<1>1. \A q \in Seq(Req) : q # Append(q, m)
  <2> TAKE q \in Seq(Req)
  <2> HIDE DEF Req
  <2>1. Len(Append(q, m)) = Len(q) + 1 /\ Len(q) \in Nat
    BY AppendProperties, LenProperties
  <2> QED
    BY <2>1
<1>2. ses[s].out \in Seq(Req) /\ ses[s].queued \in Seq(Req)
  BY DEF TypeInv, SesRec
<1>3. x.out = Append(ses[s].out, m) \/ x.queued = Append(ses[s].queued, m)
  BY DEF Relays, Sent
<1> QED
  BY <1>1, <1>2, <1>3 DEF Same

LEMMA MinerOrder ==
  ASSUME TypeInv, LinkInv, OrderInv, NEW c \in Conn, MinerLine(c)
  PROVE  OrderInv'
<1>1. PICK s \in Sessions, x \in SesRec, late \in SUBSET Nat, m \in Req :
         MinerStep(c, s, x, late, m)
  BY MinerLineShape
<1>2. Keep(s, x) \/ End(s, x)
  BY <1>1 DEF MinerStep, NoSubmit, Login, Refused, Submitted, Quiet, Relays, Ends
<1>0. Relays(s, x, m) => ~Quiet(s, x) /\ ~Ends(s, x)
  BY RelayedOnce DEF Quiet, Ends
<1>3. /\ \A t \in Sessions : t # s => ses'[t] = ses[t]
      /\ ses'[s].conn = c /\ ses'[s].identity = x.identity
      /\ ses'[s].out = x.out /\ ses'[s].queued = x.queued
      /\ Keep(s, x) => ses'[s].ended = x.ended /\ ses'[s].upstream = x.upstream
      /\ x.ended = ses[s].ended
      /\ ~Keep(s, x) => ses'[s].ended = TRUE /\ ses'[s].upstream # "ready"
  <2>1. x.conn = c /\ x.ended = ses[s].ended
    BY <1>1 DEF MinerStep
  <2>2. /\ \A t \in Sessions : t # s => ses'[t] = ses[t]
        /\ ses'[s].conn = x.conn /\ ses'[s].identity = x.identity
        /\ ses'[s].out = x.out /\ ses'[s].queued = x.queued
    BY <1>2, AfterLine
  <2>3. Keep(s, x) => ses'[s].ended = x.ended /\ ses'[s].upstream = x.upstream
    BY <1>2, AfterLine
  <2>4. ~Keep(s, x) => /\ ses'[s].ended = TRUE
                       /\ ses'[s].upstream = IF x.upstream = "null" THEN "null" ELSE "closed"
    BY <1>2, AfterLine
  <2> QED
    BY <2>1, <2>2, <2>3, <2>4
<1>4. ASSUME End(s, x), ~x.ended
      PROVE  ses'[s].ended = TRUE
  <2>1. ses'[s] = Ended(x)
    BY <1>4, KeptOrEnded
  <2>2. Ended(x).ended = TRUE
    BY EndedRec
  <2> QED
    BY <2>1, <2>2
<1>5. /\ \A b \in Conn : lines'[b] \in Nat /\ lines[b] <= lines'[b]
      /\ lines'[c] = lines[c] + 1 /\ lines[c] \in Nat
  BY DEF MinerLine, TypeInv
<1>6. "unresolved" \in Outcomes
  BY DEF Outcomes
<1>7. ASSUME Submitted(s, x, late, m)
      PROVE  /\ \A t \in Sessions : t # s => Mine(t)' = Mine(t)
             /\ Mine(s)' = Mine(s) \cup {m.share}
  <2>1. PICK h \in Share : h = NewShare(s, m.id) /\ h.session = s
    <3>1. ses[s] \in SesRec /\ ses[s].identity # None /\ m.id \in AnyId /\ now \in Nat
      BY <1>7 DEF Submitted, TypeInv, Req
    <3>2. NewShare(s, m.id) \in Share /\ NewShare(s, m.id).session = s
      BY <3>1 DEF SesRec, NewShare, Share
    <3> QED
      BY <3>2
  <2>2. shares' = Append(Marked(late, "unresolved"), h) /\ m.share = Len(shares) + 1
    BY <1>7, <2>1 DEF Submitted
  <2> QED
    BY <1>6, <2>1, <2>2, MineAppended
<1>8. ASSUME ~Submitted(s, x, late, m)
      PROVE  \A t \in Sessions : Mine(t)' = Mine(t)
  <2>1. CASE UNCHANGED shares
    BY <2>1 DEF Mine
  <2>2. CASE Refused(s, x, late)
    BY <1>6, <2>2, MineMarked DEF Refused
  <2> QED
    BY <1>1, <1>8, <2>1, <2>2 DEF MinerStep, NoSubmit, Login
<1>9. ses[s].conn = c \/ ses[s] = NewSession
  BY <1>1 DEF MinerStep, Chosen, LinkInv, Mapped, Alive
<1>10. LinesBelow(All(ses[s]), lines[c])
  <2>1. CASE ses[s].conn = c
    BY <2>1, Bounds DEF OrderInv
  <2>2. CASE ses[s] = NewSession
    <3>1. All(ses[s]) = <<>>
      BY <2>2, NewAll
    <3> QED
      BY ONLY <3>1 DEF LinesBelow
  <2> QED
    BY <1>9, <2>1, <2>2
<1>11. ASSUME NEW t \in Sessions, t # s
       PROVE  /\ Orderly(ses'[t], All(ses'[t]), Mine(t)')
              /\ ses'[t].conn # None => LinesBelow(All(ses'[t]), lines'[ses'[t].conn])
  <2>1. ses'[t] = ses[t] /\ Mine(t)' = Mine(t)
    BY <1>3, <1>7, <1>8, <1>11
  <2>2. ses[t].upstream = "ready" => ses[t].queued = <<>>
    BY DEF OrderInv, Orderly
  <2> QED
    BY <1>5, <2>1, <2>2, OrderKept
<1>12. ASSUME Quiet(s, x) \/ Ends(s, x)
       PROVE  /\ Orderly(ses'[s], All(ses'[s]), Mine(s)')
              /\ ses'[s].conn # None => LinesBelow(All(ses'[s]), lines'[ses'[s].conn])
  <2>1. All(ses'[s]) = All(ses[s])
    BY <1>3, <1>12 DEF Quiet, Ends, Same, All
  <2>2. ses[s].ended => ses'[s].ended
    BY <1>3
  <2>3. CASE Ends(s, x)
    <3>1. ses'[s].ended /\ ses'[s].upstream # "ready"
      <4>1. ~Keep(s, x)
        BY <1>3, <1>4, <2>3 DEF Ends
      <4> QED
        BY <1>3, <4>1
    <3> QED
      BY <1>3, <1>5, <1>9, <2>1, <2>2, <3>1, NewAll, OrderKept
  <2>4. CASE Quiet(s, x) /\ ~Ends(s, x)
    <3>1. ~Submitted(s, x, late, m) /\ ~Login(s, x, m)
      BY <1>0, <2>4 DEF Submitted, Login
    <3>2. ses'[s].identity = ses[s].identity
      BY <1>1, <1>3, <3>1 DEF MinerStep, NoSubmit, Refused
    <3>3. Mine(s)' = Mine(s)
      BY <1>8, <3>1
    <3>4. ses'[s].upstream = "ready" => ses'[s].queued = <<>>
      <4>1. ses[s].upstream = "ready" => ses[s].queued = <<>>
        BY DEF OrderInv, Orderly
      <4> QED
        BY <1>3, <2>4, <4>1 DEF Quiet, Same
    <3> QED
      BY <1>3, <1>5, <1>9, <2>1, <2>2, <3>2, <3>3, <3>4, NewAll, OrderKept
  <2> QED
    BY <1>12, <2>3, <2>4
<1>13. ASSUME Relays(s, x, m)
       PROVE  /\ Orderly(ses'[s], All(ses'[s]), Mine(s)')
              /\ ses'[s].conn # None => LinesBelow(All(ses'[s]), lines'[ses'[s].conn])
  <2>1. PICK v \in SesRec : v = ses[s]
    BY DEF TypeInv
  <2>2. PICK y \in SesRec : y = ses'[s]
    BY <1>2, KeptOrEnded
  <2>3. y = x
    BY <1>13, <2>2, KeptOrEnded DEF Relays
  <2>4. v.upstream = "ready" => v.queued = <<>>
    BY <2>1 DEF OrderInv, Orderly
  <2>5. All(x) = Append(All(v), m) /\ (x.upstream = "ready" => x.queued = <<>>)
    BY <1>13, <2>1, <2>4, AllSent DEF Relays
  <2>6. Mine(s)' \subseteq Mine(s) \cup {m.share}
    BY <1>7, <1>8
  <2>7. /\ x.identity = v.identity \/ m.method = "authorize"
        /\ m.method = "submit" => ~v.ended /\ v.identity # None
    <3>1. ~Refused(s, x, late) /\ ~v.ended
      BY <1>0, <1>3, <1>13, <2>1 DEF Refused, Relays
    <3>2. NoSubmit(s, x, m) \/ Login(s, x, m) \/ Submitted(s, x, late, m)
      BY <1>1, <3>1 DEF MinerStep
    <3> QED
      BY <2>1, <3>1, <3>2 DEF NoSubmit, Login, Submitted
  <2>8. v.ended => x.ended
    BY <1>3, <2>1
  <2>9. PICK all \in Seq(Req), k \in Nat : all = All(v) /\ k = lines[c]
    BY <1>5, AllType
  <2>13. PICK S, T : S = Mine(s) /\ T = Mine(s)'
    OBVIOUS
  <2>10. m.line = k + 1
    BY <1>1, <2>9 DEF MinerStep
  <2>11. Orderly(v, all, S) /\ LinesBelow(all, k)
    BY <1>10, <2>1, <2>9, <2>13 DEF OrderInv
  <2>12. Orderly(x, Append(all, m), T) /\ LinesBelow(Append(all, m), k + 1)
    BY <2>5, <2>6, <2>7, <2>8, <2>9, <2>10, <2>11, <2>13, OrderlySent
  <2> QED
    BY <1>3, <1>5, <2>2, <2>3, <2>5, <2>9, <2>12, <2>13
<1>14. Quiet(s, x) \/ Ends(s, x) \/ Relays(s, x, m)
  BY <1>1 DEF MinerStep, NoSubmit, Login, Refused, Submitted
<1> QED
  BY <1>11, <1>12, <1>13, <1>14 DEF OrderInv

LEMMA OrderStays ==
  ASSUME TypeInv, OrderInv, UNCHANGED lines,
         \A t \in Sessions :
           /\ All(ses'[t]) = All(ses[t]) /\ ses'[t].conn = ses[t].conn
           /\ ses'[t].identity = ses[t].identity
           /\ ses[t].ended => ses'[t].ended
           /\ ses'[t].upstream = "ready" => ses'[t].queued = <<>>
           /\ Mine(t)' = Mine(t)
  PROVE  OrderInv'
<1>1. \A b \in Conn : lines'[b] \in Nat /\ lines[b] <= lines'[b]
  BY DEF TypeInv
<1> QED
  BY <1>1, OrderKept DEF OrderInv

\* A queue is held while the upstream socket is not ready.
LEMMA NoQueue ==
  ASSUME OrderInv, NEW t \in Sessions, ses[t].upstream = "ready"
  PROVE  ses[t].queued = <<>>
BY DEF OrderInv, Orderly

LEMMA PoolOrder ==
  ASSUME TypeInv, OrderInv, NEW s \in Sessions, PoolLine(s)
  PROVE  OrderInv'
<1>1. PICK x \in SesRec, m \in Msg, done \in SUBSET Nat : PoolStep(s, x, m, done)
  BY PoolLineShape
<1>2. PICK o \in {"accepted", "rejected"} : shares' = Marked(done, o)
  BY <1>1 DEF PoolStep
<1>3. \A t \in Sessions : Mine(t)' = Mine(t)
  BY <1>2, MineMarked DEF Outcomes
<1>4. Keep(s, x) \/ End(s, x)
  BY <1>1 DEF PoolStep
<1>5. /\ \A t \in Sessions : t # s => ses'[t] = ses[t]
      /\ ses'[s].conn = x.conn /\ ses'[s].identity = x.identity
      /\ ses'[s].out = x.out /\ ses'[s].queued = x.queued
  BY <1>4, AfterLine
<1>6. Keep(s, x) => ses'[s].ended = x.ended /\ ses'[s].upstream = x.upstream
  BY <1>4, AfterLine
<1>7. ~Keep(s, x) => /\ ses'[s].ended = TRUE
                     /\ ses'[s].upstream = IF x.upstream = "null" THEN "null" ELSE "closed"
  BY <1>4, AfterLine
<1>8. /\ x.conn = ses[s].conn /\ x.identity = ses[s].identity /\ x.ended = ses[s].ended
      /\ x.out = ses[s].out /\ x.queued = ses[s].queued /\ x.upstream = ses[s].upstream
  BY <1>1 DEF PoolStep, Same
<1>9. UNCHANGED lines
  BY <1>1 DEF PoolStep
<1>10. \A t \in Sessions :
         /\ All(ses'[t]) = All(ses[t]) /\ ses'[t].conn = ses[t].conn
         /\ ses'[t].identity = ses[t].identity
         /\ ses[t].ended => ses'[t].ended
         /\ ses'[t].upstream = "ready" => ses'[t].queued = <<>>
  BY <1>5, <1>6, <1>7, <1>8, NoQueue DEF All
<1> QED
  BY <1>3, <1>9, <1>10, OrderStays

LEMMA OthersOrder ==
  ASSUME TypeInv, OrderInv,
         \/ \E s \in Sessions :
              \/ Connected(s) \/ UpstreamGone(s)
              \/ \E i \in DOMAIN ses[s].out, ok \in BOOLEAN : PoolAnswers(s, i, ok)
              \/ \E d \in Weight : PoolPushes(s, "difficulty", d)
              \/ PoolPushes(s, "reconnect", 1)
         \/ \E c \in Conn : Accept(c) \/ HangUp(c)
         \/ Tick \/ Signal \/ Exit \/ UNCHANGED vars
  PROVE  OrderInv'
<1>0. UNCHANGED shares => \A t \in Sessions : Mine(t)' = Mine(t)
  BY DEF Mine
<1>1. ASSUME NEW s \in Sessions, Connected(s)
      PROVE  OrderInv'
  <2>1. PICK x \in SesRec : Flush(s, x)
    BY <1>1, ConnectedShape
  <2>2. All(x) = All(ses[s])
    <3>1. ses[s].out \in Seq(Req) /\ ses[s].queued \in Seq(Req)
      BY DEF TypeInv, SesRec
    <3>2. PICK a \in Seq(Req) : a = ses[s].out \o ses[s].queued
      <4> HIDE DEF Req
      <4> QED
        BY <3>1, ConcatProperties
    <3>3. a \o <<>> = a
      <4> HIDE DEF Req
      <4> QED
        BY ConcatEmptySeq
    <3> QED
      BY <2>1, <3>2, <3>3 DEF Flush, All
  <2>3. /\ ses'[s] = x /\ \A t \in Sessions : t # s => ses'[t] = ses[t]
        /\ x.queued = <<>> /\ x.conn = ses[s].conn /\ x.identity = ses[s].identity
        /\ x.ended = ses[s].ended
    BY <2>1, SesUpdated DEF Flush, Rest
  <2>4. UNCHANGED lines /\ UNCHANGED shares
    BY <1>1 DEF Connected
  <2>5. \A t \in Sessions :
          /\ All(ses'[t]) = All(ses[t]) /\ ses'[t].conn = ses[t].conn
          /\ ses'[t].identity = ses[t].identity
          /\ ses[t].ended => ses'[t].ended
          /\ ses'[t].upstream = "ready" => ses'[t].queued = <<>>
    BY <2>2, <2>3, NoQueue
  <2> QED
    BY <1>0, <2>4, <2>5, OrderStays
<1>2. ASSUME NEW s \in Sessions, UpstreamGone(s)
      PROVE  OrderInv'
  <2>1. PICK x \in SesRec : x = ses[s] /\ End(s, x)
    BY <1>2 DEF TypeInv, UpstreamGone
  <2>2. /\ \A t \in Sessions : t # s => ses'[t] = ses[t]
        /\ ses'[s].conn = x.conn /\ ses'[s].identity = x.identity
        /\ ses'[s].out = x.out /\ ses'[s].queued = x.queued
    BY <2>1, AfterLine
  <2>3. Keep(s, x) => ses'[s].ended = x.ended /\ ses'[s].upstream = x.upstream
    BY <2>1, AfterLine
  <2>4. ~Keep(s, x) => /\ ses'[s].ended = TRUE
                       /\ ses'[s].upstream = IF x.upstream = "null" THEN "null" ELSE "closed"
    BY <2>1, AfterLine
  <2>5. UNCHANGED lines /\ UNCHANGED shares
    BY <1>2 DEF UpstreamGone
  <2>6. \A t \in Sessions :
          /\ All(ses'[t]) = All(ses[t]) /\ ses'[t].conn = ses[t].conn
          /\ ses'[t].identity = ses[t].identity
          /\ ses[t].ended => ses'[t].ended
          /\ ses'[t].upstream = "ready" => ses'[t].queued = <<>>
    BY <2>1, <2>2, <2>3, <2>4, NoQueue DEF All
  <2> QED
    BY <1>0, <2>5, <2>6, OrderStays
<1>3. ASSUME NEW s \in Sessions, NEW x \in SesRec, NEW d, Says(s, x, d), UNCHANGED lines,
             \A t \in Sessions : Mine(t)' = Mine(t)
      PROVE  OrderInv'
  <2>1. /\ ses'[s] = x /\ \A t \in Sessions : t # s => ses'[t] = ses[t]
        /\ x.queued = ses[s].queued /\ x.out = ses[s].out /\ x.conn = ses[s].conn
        /\ x.identity = ses[s].identity /\ x.ended = ses[s].ended
        /\ ses[s].upstream = "ready"
    BY <1>3, SesUpdated DEF Says, Same
  <2>2. \A t \in Sessions :
          /\ All(ses'[t]) = All(ses[t]) /\ ses'[t].conn = ses[t].conn
          /\ ses'[t].identity = ses[t].identity
          /\ ses[t].ended => ses'[t].ended
          /\ ses'[t].upstream = "ready" => ses'[t].queued = <<>>
    BY <2>1, NoQueue DEF All
  <2> QED
    BY <1>3, <2>2, OrderStays
<1>4. ASSUME NEW s \in Sessions, NEW i \in DOMAIN ses[s].out, NEW ok \in BOOLEAN,
             PoolAnswers(s, i, ok)
      PROVE  OrderInv'
  <2>1. PICK x \in SesRec, d \in Msg, m \in Req :
          /\ Says(s, x, d)
          /\ shares' = IF m.share = 0 THEN shares ELSE [shares EXCEPT ![m.share].verdict = ok]
    BY <1>4, AnswersShape
  <2>2. \A t \in Sessions : Mine(t)' = Mine(t)
    <3>1. PICK k \in Nat : k = m.share
      BY DEF Req
    <3>2. CASE shares' = [shares EXCEPT ![k].verdict = ok]
      <4>1. \A h \in Share : [h EXCEPT !.verdict = ok].session = h.session
        BY DEF Share
      <4>2. /\ DOMAIN shares' = DOMAIN shares
            /\ \A n \in DOMAIN shares :
                 shares'[n] = IF n = k THEN [shares[n] EXCEPT !.verdict = ok] ELSE shares[n]
        BY <3>2
      <4>3. \A n \in DOMAIN shares : shares'[n].session = shares[n].session
        BY <4>1, <4>2, SharesType
      <4> QED
        BY <4>2, <4>3 DEF Mine
    <3> QED
      BY <1>0, <2>1, <3>1, <3>2
  <2> QED
    BY <1>3, <1>4, <2>1, <2>2 DEF PoolAnswers
<1>5. ASSUME NEW s \in Sessions, NEW kind \in {"difficulty", "reconnect"},
             NEW value \in Weight \cup {1}, PoolPushes(s, kind, value)
      PROVE  OrderInv'
  <2>1. PICK x \in SesRec, d \in Msg : Says(s, x, d)
    BY <1>5, PushesShape
  <2> QED
    BY <1>0, <1>3, <1>5, <2>1 DEF PoolPushes
<1>6. ASSUME NEW c \in Conn, HangUp(c)
      PROVE  OrderInv'
  <2>1. \A t \in Sessions :
          /\ All(ses'[t]) = All(ses[t]) /\ ses'[t].conn = ses[t].conn
          /\ ses'[t].identity = ses[t].identity
          /\ ses[t].ended => ses'[t].ended
          /\ ses'[t].upstream = "ready" => ses'[t].queued = <<>>
    <3> TAKE t \in Sessions
    <3>1. PICK y : y = Ended(ses[t])
      OBVIOUS
    <3>2. /\ y.ended = TRUE /\ y.conn = ses[t].conn /\ y.identity = ses[t].identity
          /\ y.queued = ses[t].queued /\ y.out = ses[t].out
          /\ y.upstream = IF ses[t].upstream = "null" THEN "null" ELSE "closed"
      BY <3>1, EndedRec DEF TypeInv
    <3>3. ses'[t] = y \/ ses'[t] = ses[t]
      BY <1>6, <3>1, HangUpShape
    <3> QED
      BY <3>2, <3>3, NoQueue DEF All
  <2>2. UNCHANGED lines /\ UNCHANGED shares
    BY <1>6 DEF HangUp
  <2> QED
    BY <1>0, <2>1, <2>2, OrderStays
<1>7. ASSUME UNCHANGED <<ses, shares, lines>>
      PROVE  OrderInv'
  BY <1>0, <1>7, NoQueue, OrderStays
<1> QED
  BY <1>1, <1>2, <1>4, <1>5, <1>6, <1>7 DEF Accept, Tick, Signal, Exit, vars

LEMMA InitOrder == Init => OrderInv
<1> SUFFICES ASSUME Init, NEW s \in Sessions
             PROVE  /\ Orderly(ses[s], All(ses[s]), Mine(s))
                    /\ ses[s].conn # None => LinesBelow(All(ses[s]), lines[ses[s].conn])
  BY DEF OrderInv
<1>1. All(ses[s]) = <<>> /\ ses[s].conn = None /\ ses[s].identity = None
  BY NewAll DEF Init, NewSession
<1>2. ses[s].queued = <<>> /\ Mine(s) = {}
  BY DEF Init, NewSession, Mine
<1>3. DOMAIN <<>> = {}
  OBVIOUS
<1> QED
  BY <1>1, <1>2, <1>3 DEF Orderly, LinesBelow

\* Upstream gets every request in the order of the miner's lines, whether it
\* waited for the dial or not, with an authorize before the first submit, and
\* no relayed submit is missing from a session that is not over
\* (session.ts:155-161, 221).
THEOREM SpecInOrder == Spec => []InOrder
<1>1. TypeInv /\ LinkInv /\ OrderInv /\ [Next]_vars => OrderInv'
  BY MinerOrder, PoolOrder, OthersOrder DEF Next
<1>2. TypeInv /\ LinkInv /\ [Next]_vars => LinkInv'
  BY MinerLink, PoolLink, OthersLink DEF Next
<1>3. OrderInv => InOrder
  <2> SUFFICES ASSUME OrderInv, NEW s \in Sessions
               PROVE  LET all == ses[s].out \o ses[s].queued IN
                      /\ \A i, j \in DOMAIN all : i < j => all[i].line < all[j].line
                      /\ \A j \in DOMAIN all : all[j].method = "submit" =>
                           \E i \in 1..(j - 1) : all[i].method = "authorize"
                      /\ ~ses[s].ended =>
                           \A n \in DOMAIN shares : shares[n].session = s =>
                             \E i \in DOMAIN all : all[i].share = n
    BY DEF InOrder
  <2>1. PICK all : all = ses[s].out \o ses[s].queued
    OBVIOUS
  <2>2. Orderly(ses[s], all, Mine(s))
    BY <2>1 DEF OrderInv, All
  <2> QED
    <3>1. /\ \A i, j \in DOMAIN all : i < j => all[i].line < all[j].line
          /\ \A j \in DOMAIN all : all[j].method = "submit" =>
               \E i \in 1..(j - 1) : all[i].method = "authorize"
          /\ ~ses[s].ended => \A n \in Mine(s) : \E i \in DOMAIN all : all[i].share = n
      BY <2>2 DEF Orderly
    <3> QED
      BY <2>1, <3>1 DEF Mine
<1> QED
  BY <1>1, <1>2, <1>3, InitLink, InitOrder, SpecTypeInv, PTL DEF Spec

-----------------------------------------------------------------------------
(* A share is credited for its own answer, when ids are not reused.        *)

\* The shares of session t carry the ids of their requests.
Keyed(t) ==
  /\ \A i \in DOMAIN All(ses[t]) : All(ses[t])[i].id \in {All(ses[t])[i].line, None}
  /\ \A n \in Mine(t) :
       /\ ses[t].conn # None
       /\ shares[n].key # None =>
            /\ shares[n].key \in Nat /\ shares[n].key <= lines[ses[t].conn]
            /\ \A i \in DOMAIN All(ses[t]) :
                 All(ses[t])[i].id = shares[n].key => All(ses[t])[i].share = n

\* The answers under way are the pool's verdicts.
Judged(t) ==
  /\ ses[t].answered \subseteq DOMAIN All(ses[t])
  /\ \A i \in DOMAIN All(ses[t]) : All(ses[t])[i].share # 0 =>
       /\ All(ses[t])[i].share \in Mine(t)
       /\ i \notin ses[t].answered =>
            shares[All(ses[t])[i].share].outcome \notin {"accepted", "rejected"}
       /\ \A j \in DOMAIN All(ses[t]) : All(ses[t])[i].share = All(ses[t])[j].share => i = j
  /\ \A k \in DOMAIN ses[t].down :
       ses[t].down[k].kind = "answer" /\ ses[t].down[k].id # None =>
         \E i \in ses[t].answered :
           /\ All(ses[t])[i].id = ses[t].down[k].id
           /\ All(ses[t])[i].share # 0 =>
                shares[All(ses[t])[i].share].verdict = ses[t].down[k].ok

JudgeInv == CreditIsEarned /\ \A t \in Sessions : Keyed(t) /\ Judged(t)

LEMMA OutAll ==
  ASSUME NEW v \in SesRec, NEW i \in DOMAIN v.out
  PROVE  i \in DOMAIN All(v) /\ All(v)[i] = v.out[i]
<1>1. v.out \in Seq(Req) /\ v.queued \in Seq(Req)
  BY DEF SesRec
<1>2. PICK a \in Seq(Req), b \in Seq(Req) : a = v.out /\ b = v.queued
  BY <1>1
<1> HIDE DEF Req
<1>3. /\ DOMAIN a = 1..Len(a) /\ Len(a) \in Nat /\ Len(b) \in Nat
      /\ a \o b \in Seq(Req) /\ Len(a \o b) = Len(a) + Len(b)
      /\ \A j \in 1..Len(a) + Len(b) : (a \o b)[j] = IF j <= Len(a) THEN a[j] ELSE b[j - Len(a)]
  BY LenProperties, ConcatProperties
<1>4. DOMAIN (a \o b) = 1..(Len(a) + Len(b))
  <2>1. PICK q \in Seq(Req) : q = a \o b
    BY <1>3
  <2>2. DOMAIN q = 1..Len(q)
    BY LenProperties
  <2> QED
    BY <1>3, <2>1, <2>2
<1>5. i \in 1..Len(a) /\ i \in 1..(Len(a) + Len(b))
  <2>1. i \in DOMAIN a
    BY <1>2
  <2>2. DOMAIN a = 1..Len(a) /\ Len(a) \in Nat /\ Len(b) \in Nat
    BY <1>3
  <2> QED
    BY <2>1, <2>2
<1>6. (a \o b)[i] = a[i]
  BY <1>3, <1>5
<1> QED
  BY <1>2, <1>4, <1>5, <1>6 DEF All

\* What a line of the miner does to the shares.
LEMMA MinerShares ==
  ASSUME TypeInv, NEW c \in Conn, NEW s \in Sessions, NEW x \in SesRec,
         NEW late \in SUBSET Nat, NEW m \in Req, MinerStep(c, s, x, late, m)
  PROVE  /\ \A n \in DOMAIN shares :
              /\ n \in DOMAIN shares'
              /\ shares'[n].session = shares[n].session /\ shares'[n].key = shares[n].key
              /\ shares'[n].verdict = shares[n].verdict
              /\ shares'[n].outcome = shares[n].outcome \/ shares'[n].outcome = "unresolved"
         /\ \A n \in DOMAIN shares' \ DOMAIN shares :
              /\ Submitted(s, x, late, m)
              /\ n = m.share /\ shares'[n].session = s /\ shares'[n].key = m.id
              /\ shares'[n].outcome = None
         /\ Submitted(s, x, late, m) => m.share \in DOMAIN shares' \ DOMAIN shares
<1>1. \A n \in DOMAIN shares : shares[n] \in Share
  BY SharesType
<1>2. CASE UNCHANGED shares /\ ~Submitted(s, x, late, m)
  BY <1>2
<1>3. /\ DOMAIN Marked(late, "unresolved") = DOMAIN shares
      /\ DOMAIN shares = 1..Len(shares) /\ Len(shares) \in Nat
      /\ Marked(late, "unresolved") \in Seq(Share)
      /\ Len(Marked(late, "unresolved")) = Len(shares)
      /\ \A n \in DOMAIN shares :
           Marked(late, "unresolved")[n] = IF n \in late
             THEN [shares[n] EXCEPT !.outcome = "unresolved"] ELSE shares[n]
  BY MarkedShares DEF Outcomes
<1>4. PICK q \in Seq(Share) : q = Marked(late, "unresolved")
  BY <1>3
<1>5. \A n \in DOMAIN shares :
        /\ q[n].session = shares[n].session /\ q[n].key = shares[n].key
        /\ q[n].verdict = shares[n].verdict
        /\ q[n].outcome = shares[n].outcome \/ q[n].outcome = "unresolved"
  <2> TAKE n \in DOMAIN shares
  <2>1. PICK r \in Share : r = shares[n]
    BY <1>1
  <2>2. q[n] = IF n \in late THEN [r EXCEPT !.outcome = "unresolved"] ELSE r
    BY <1>3, <1>4, <2>1
  <2> QED
    BY <2>1, <2>2 DEF Share
<1>6. CASE shares' = q /\ ~Submitted(s, x, late, m)
  BY <1>3, <1>4, <1>5, <1>6
<1>7. CASE Submitted(s, x, late, m)
  <2>1. PICK h \in Share : /\ h = NewShare(s, m.id) /\ h.session = s /\ h.key = m.id
                           /\ h.outcome = None
    <3>1. ses[s] \in SesRec /\ ses[s].identity # None /\ m.id \in AnyId /\ now \in Nat
      BY <1>7 DEF Submitted, TypeInv, Req
    <3>2. /\ NewShare(s, m.id) \in Share /\ NewShare(s, m.id).session = s
          /\ NewShare(s, m.id).key = m.id /\ NewShare(s, m.id).outcome = None
      BY <3>1 DEF SesRec, NewShare, Share
    <3> QED
      BY <3>2
  <2>2. shares' = Append(q, h) /\ m.share = Len(shares) + 1
    BY <1>4, <1>7, <2>1 DEF Submitted
  <2>3. /\ DOMAIN Append(q, h) = 1..(Len(q) + 1)
        /\ \A n \in 1..Len(q) : Append(q, h)[n] = q[n]
        /\ Append(q, h)[Len(q) + 1] = h
    <3> HIDE DEF Share
    <3>1. Append(q, h) \in Seq(Share) /\ Len(Append(q, h)) = Len(q) + 1
      BY AppendProperties
    <3>2. DOMAIN Append(q, h) = 1..(Len(q) + 1)
      BY <3>1, LenProperties
    <3> QED
      BY <3>2, AppendProperties
  <2>4. Len(q) = Len(shares) /\ DOMAIN shares = 1..Len(shares) /\ Len(shares) \in Nat
    BY <1>3, <1>4
  <2>5. \A n \in DOMAIN shares : n \in DOMAIN shares' /\ shares'[n] = q[n]
    BY <2>2, <2>3, <2>4
  <2>6. \A n \in DOMAIN shares' \ DOMAIN shares : n = m.share /\ shares'[n] = h
    BY <2>2, <2>3, <2>4
  <2>7. m.share \in DOMAIN shares' \ DOMAIN shares
    BY <2>2, <2>3, <2>4
  <2> QED
    BY <1>5, <1>7, <2>1, <2>5, <2>6, <2>7
<1> QED
  BY <1>2, <1>4, <1>6, <1>7 DEF MinerStep, NoSubmit, Login, Refused

\* What a line of the miner does to the requests of its session.
LEMMA MinerAll ==
  ASSUME TypeInv, LinkInv, OrderInv, NEW c \in Conn, NEW s \in Sessions, NEW x \in SesRec,
         NEW late \in SUBSET Nat, NEW m \in Req, MinerStep(c, s, x, late, m)
  PROVE  /\ \A t \in Sessions : t # s => ses'[t] = ses[t]
         /\ ses'[s].conn = c /\ (ses[s].conn = c \/ ses[s] = NewSession)
         /\ ses'[s].answered = ses[s].answered /\ ses'[s].down = ses[s].down
         /\ \/ All(ses'[s]) = All(ses[s])
            \/ Relays(s, x, m) /\ All(ses'[s]) = Append(All(ses[s]), m)
         /\ LinesBelow(All(ses[s]), lines[c])
<1>1. Quiet(s, x) \/ Ends(s, x) \/ Relays(s, x, m)
  BY DEF MinerStep, NoSubmit, Login, Refused, Submitted
<1>2. Keep(s, x) \/ End(s, x)
  BY <1>1 DEF Quiet, Ends, Relays
<1>3. x.conn = c /\ x.answered = ses[s].answered /\ x.down = ses[s].down
  BY DEF MinerStep
<1>4. /\ \A t \in Sessions : t # s => ses'[t] = ses[t]
      /\ ses'[s].conn = x.conn /\ ses'[s].answered = x.answered /\ ses'[s].down = x.down
      /\ ses'[s].out = x.out /\ ses'[s].queued = x.queued
  BY <1>2, AfterLine
<1>5. All(ses'[s]) = All(x)
  BY <1>4 DEF All
<1>6. ASSUME Quiet(s, x) \/ Ends(s, x)
      PROVE  All(ses'[s]) = All(ses[s])
  BY <1>5, <1>6 DEF Quiet, Ends, Same, All
<1>7. ASSUME Relays(s, x, m)
      PROVE  All(ses'[s]) = Append(All(ses[s]), m)
  <2>1. ses[s] \in SesRec /\ (ses[s].upstream = "ready" => ses[s].queued = <<>>)
    BY NoQueue DEF TypeInv
  <2>2. All(x) = Append(All(ses[s]), m)
    BY <1>7, <2>1, AllSent DEF Relays
  <2> QED
    BY <1>5, <1>7, <2>2
<1>8. ses[s].conn = c \/ ses[s] = NewSession
  BY DEF MinerStep, Chosen, LinkInv, Mapped, Alive
<1>9. LinesBelow(All(ses[s]), lines[c])
  BY <1>8, NewAll, Bounds DEF OrderInv, LinesBelow
<1> QED
  BY <1>1, <1>3, <1>4, <1>6, <1>7, <1>8, <1>9

\* Steps that leave a session's requests and its shares' ids alone.
LEMMA KeyedKept ==
  ASSUME TypeInv, NEW t \in Sessions, Keyed(t),
         All(ses'[t]) = All(ses[t]), ses'[t].conn = ses[t].conn,
         \A b \in Conn : lines'[b] \in Nat /\ lines[b] <= lines'[b],
         Mine(t)' = Mine(t),
         \A n \in Mine(t) : shares'[n].key = shares[n].key
  PROVE  Keyed(t)'
<1>1. PICK all : all = All(ses[t]) /\ all = All(ses'[t])
  OBVIOUS
<1> SUFFICES ASSUME NEW n \in Mine(t)
             PROVE  /\ ses'[t].conn # None
                    /\ shares'[n].key # None =>
                         /\ shares'[n].key \in Nat /\ shares'[n].key <= lines'[ses'[t].conn]
                         /\ \A i \in DOMAIN all : all[i].id = shares'[n].key => all[i].share = n
  BY <1>1 DEF Keyed
<1>2. /\ ses[t].conn # None
      /\ shares[n].key # None =>
           /\ shares[n].key \in Nat /\ shares[n].key <= lines[ses[t].conn]
           /\ \A i \in DOMAIN all : all[i].id = shares[n].key => all[i].share = n
  BY <1>1 DEF Keyed
<1>3. PICK b \in Conn : b = ses[t].conn
  BY <1>2 DEF TypeInv, SesRec
<1>4. lines[b] \in Nat
  BY DEF TypeInv
<1> QED
  BY <1>2, <1>3, <1>4

\* Steps that bring the session no answer.
LEMMA JudgeKept ==
  ASSUME TypeInv, NEW t \in Sessions, Keyed(t), Judged(t),
         All(ses'[t]) = All(ses[t]), ses'[t].answered = ses[t].answered,
         ses'[t].conn = ses[t].conn,
         \A k \in DOMAIN ses'[t].down :
           \/ ses'[t].down[k].kind # "answer"
           \/ \E j \in DOMAIN ses[t].down : ses'[t].down[k] = ses[t].down[j],
         \A b \in Conn : lines'[b] \in Nat /\ lines[b] <= lines'[b],
         Mine(t)' = Mine(t),
         \A n \in Mine(t) :
           /\ shares'[n].key = shares[n].key /\ shares'[n].verdict = shares[n].verdict
           /\ \/ shares'[n].outcome = shares[n].outcome
              \/ shares'[n].outcome = "unresolved"
              \/ \E i \in ses[t].answered : All(ses[t])[i].share = n
  PROVE  Keyed(t)' /\ Judged(t)'
<1>1. PICK all : all = All(ses[t]) /\ all = All(ses'[t])
  OBVIOUS
<1>2. Keyed(t)'
  BY KeyedKept
<1>3. Judged(t)'
  <2>1. ses'[t].answered \subseteq DOMAIN all
    BY <1>1 DEF Judged
  <2>2. ASSUME NEW i \in DOMAIN all, all[i].share # 0
        PROVE  /\ all[i].share \in Mine(t)'
               /\ i \notin ses'[t].answered =>
                    shares'[all[i].share].outcome \notin {"accepted", "rejected"}
               /\ \A j \in DOMAIN all : all[i].share = all[j].share => i = j
    <3>1. /\ all[i].share \in Mine(t)
          /\ i \notin ses[t].answered =>
               shares[all[i].share].outcome \notin {"accepted", "rejected"}
          /\ \A j \in DOMAIN all : all[i].share = all[j].share => i = j
      BY <1>1, <2>2 DEF Judged
    <3>2. \/ shares'[all[i].share].outcome = shares[all[i].share].outcome
          \/ shares'[all[i].share].outcome = "unresolved"
          \/ \E j \in ses[t].answered : all[j].share = all[i].share
      BY <1>1, <3>1
    <3>3. ses[t].answered \subseteq DOMAIN all
      BY <1>1 DEF Judged
    <3> QED
      BY <3>1, <3>2, <3>3
  <2>3. ASSUME NEW k \in DOMAIN ses'[t].down, ses'[t].down[k].kind = "answer",
               ses'[t].down[k].id # None
        PROVE  \E i \in ses'[t].answered :
                 /\ all[i].id = ses'[t].down[k].id
                 /\ all[i].share # 0 => shares'[all[i].share].verdict = ses'[t].down[k].ok
    <3>1. PICK j \in DOMAIN ses[t].down : ses'[t].down[k] = ses[t].down[j]
      BY <2>3
    <3>2. PICK i \in ses[t].answered :
            /\ all[i].id = ses[t].down[j].id
            /\ all[i].share # 0 => shares[all[i].share].verdict = ses[t].down[j].ok
      BY <1>1, <2>3, <3>1 DEF Judged
    <3>3. all[i].share # 0 => all[i].share \in Mine(t)
      BY <1>1, <3>2 DEF Judged
    <3> QED
      BY <3>1, <3>2, <3>3
  <2> QED
    BY <1>1, <2>1, <2>2, <2>3 DEF Judged
<1> QED
  BY <1>2, <1>3

LEMMA MinerJudge ==
  ASSUME TypeInv, LinkInv, OrderInv, JudgeInv, FreshIds = TRUE, NEW c \in Conn, MinerLine(c)
  PROVE  JudgeInv'
<1>1. PICK s \in Sessions, x \in SesRec, late \in SUBSET Nat, m \in Req :
         MinerStep(c, s, x, late, m)
  BY MinerLineShape
<1>2. /\ \A t \in Sessions : t # s => ses'[t] = ses[t]
      /\ ses'[s].conn = c /\ (ses[s].conn = c \/ ses[s] = NewSession)
      /\ ses'[s].answered = ses[s].answered /\ ses'[s].down = ses[s].down
      /\ \/ All(ses'[s]) = All(ses[s])
         \/ Relays(s, x, m) /\ All(ses'[s]) = Append(All(ses[s]), m)
      /\ LinesBelow(All(ses[s]), lines[c])
  BY <1>1, MinerAll
<1>3. \A n \in DOMAIN shares :
        /\ n \in DOMAIN shares'
        /\ shares'[n].session = shares[n].session /\ shares'[n].key = shares[n].key
        /\ shares'[n].verdict = shares[n].verdict
        /\ shares'[n].outcome = shares[n].outcome \/ shares'[n].outcome = "unresolved"
  BY <1>1, MinerShares
<1>4. \A n \in DOMAIN shares' \ DOMAIN shares :
        /\ Submitted(s, x, late, m)
        /\ n = m.share /\ shares'[n].session = s /\ shares'[n].key = m.id
        /\ shares'[n].outcome = None
  BY <1>1, MinerShares
<1>5. Submitted(s, x, late, m) => m.share \in DOMAIN shares' \ DOMAIN shares
  BY <1>1, MinerShares
<1>6. /\ \A b \in Conn : lines'[b] \in Nat /\ lines[b] <= lines'[b]
      /\ lines'[c] = lines[c] + 1 /\ lines[c] \in Nat
  BY DEF MinerLine, TypeInv
<1>7. None \notin {"accepted", "rejected"} /\ c # None
  BY Bounds DEF Outcomes
<1>8. CreditIsEarned'
  <2> SUFFICES ASSUME NEW n \in DOMAIN shares'
               PROVE  /\ shares'[n].outcome = "accepted" => shares'[n].verdict = TRUE
                      /\ shares'[n].outcome = "rejected" => shares'[n].verdict = FALSE
    BY DEF CreditIsEarned
  <2>1. CASE n \in DOMAIN shares
    BY <1>3, <2>1 DEF JudgeInv, CreditIsEarned
  <2>2. CASE n \notin DOMAIN shares
    BY <1>4, <1>7, <2>2
  <2> QED
    BY <2>1, <2>2
<1>9. ASSUME NEW t \in Sessions, t # s
      PROVE  Keyed(t)' /\ Judged(t)'
  <2>1. ses'[t] = ses[t]
    BY <1>2, <1>9
  <2>2. Mine(t)' = Mine(t)
    BY <1>3, <1>4, <1>9 DEF Mine
  <2>3. \A n \in Mine(t) :
          /\ shares'[n].key = shares[n].key /\ shares'[n].verdict = shares[n].verdict
          /\ shares'[n].outcome = shares[n].outcome \/ shares'[n].outcome = "unresolved"
    BY <1>3 DEF Mine
  <2> QED
    BY <1>6, <2>1, <2>2, <2>3, JudgeKept DEF JudgeInv
\* The session of the line.
<1>10. PICK all \in Seq(Req) : all = All(ses[s])
  BY AllType DEF TypeInv
<1>11. PICK q : q = All(ses'[s])
  OBVIOUS
<1>12. PICK l \in Nat : l = Len(all)
  BY <1>10, AllType DEF TypeInv
<1>13. PICK k \in Nat : k = lines[c]
  BY <1>6
<1>14. all = All(ses[s]) /\ q = All(ses'[s]) /\ l = Len(all) /\ k = lines[c]
  BY <1>10, <1>11, <1>12, <1>13
<1>15. /\ DOMAIN all = 1..l /\ \A i \in 1..l : q[i] = all[i] /\ all[i] \in Req
       /\ \/ DOMAIN q = 1..l
          \/ DOMAIN q = 1..(l + 1) /\ q[l + 1] = m /\ Relays(s, x, m)
  <2>1. CASE q = all
    BY <1>14, <2>1, Appended
  <2>2. CASE Relays(s, x, m) /\ q = Append(all, m)
    BY <1>14, <2>2, Appended
  <2> QED
    BY <1>2, <1>14, <2>1, <2>2
<1>16. m.line = k + 1 /\ m.id \in {k + 1, None}
  BY <1>1, <1>14 DEF MinerStep, NextIds
<1>17. \A i \in 1..l : all[i].line \in Nat /\ all[i].line <= k /\ all[i].id \in {all[i].line, None}
  BY <1>2, <1>14, <1>15 DEF LinesBelow, Req, JudgeInv, Keyed
<1>18. Relays(s, x, m) /\ m.share # 0 => Submitted(s, x, late, m)
  <2>1. Relays(s, x, m) => ~Refused(s, x, late)
    BY RelayedOnce DEF Refused, Quiet, Ends
  <2> QED
    BY <1>1, <2>1 DEF MinerStep, NoSubmit, Login
<1>19. /\ Mine(s) \subseteq Mine(s)' /\ Mine(s) \subseteq DOMAIN shares
       /\ \A n \in Mine(s)' : n \in Mine(s) \/ (n \notin DOMAIN shares /\ n = m.share)
  <2>1. Mine(s) \subseteq Mine(s)' /\ Mine(s) \subseteq DOMAIN shares
    BY <1>3 DEF Mine
  <2>2. ASSUME NEW n \in Mine(s)'
        PROVE  n \in Mine(s) \/ (n \notin DOMAIN shares /\ n = m.share)
    <3>1. n \in DOMAIN shares' /\ shares'[n].session = s
      BY DEF Mine
    <3>2. CASE n \in DOMAIN shares
      BY <1>3, <3>1, <3>2 DEF Mine
    <3>3. CASE n \notin DOMAIN shares
      BY <1>4, <3>1, <3>3
    <3> QED
      BY <3>2, <3>3
  <2> QED
    BY <2>1, <2>2
<1>20. Keyed(s)'
  <2>1. \A i \in DOMAIN q : q[i].id \in {q[i].line, None}
    <3> TAKE i \in DOMAIN q
    <3>1. CASE i \in 1..l
      <4>1. q[i] = all[i] /\ all[i].id \in {all[i].line, None}
        BY <1>15, <1>17, <3>1
      <4> QED
        BY <4>1
    <3>2. CASE i \notin 1..l
      <4>1. q[i] = m
        BY <1>15, <3>2
      <4> QED
        BY <1>16, <4>1
    <3> QED
      BY <3>1, <3>2
  <2>2. ASSUME NEW n \in Mine(s)', shares'[n].key # None
        PROVE  /\ shares'[n].key \in Nat /\ shares'[n].key <= k + 1
               /\ \A i \in DOMAIN q : q[i].id = shares'[n].key => q[i].share = n
    <3>1. CASE n \in Mine(s)
      <4>1. shares'[n].key = shares[n].key
        BY <1>3, <1>19, <3>1
      <4>2. /\ shares[n].key \in Nat /\ shares[n].key <= lines[ses[s].conn]
            /\ ses[s].conn # None
            /\ \A i \in 1..l : all[i].id = shares[n].key => all[i].share = n
        BY <1>14, <1>15, <2>2, <3>1, <4>1 DEF JudgeInv, Keyed
      <4>3. shares[n].key \in Nat /\ shares[n].key <= k
        BY <1>2, <1>14, <4>2 DEF NewSession
      <4>4. m.id # shares[n].key
        BY <1>16, <2>2, <4>1, <4>3
      <4> QED
        BY <1>15, <4>1, <4>2, <4>3, <4>4
    <3>2. CASE n \notin DOMAIN shares /\ n = m.share
      <4>1. shares'[n].key = m.id
        BY <1>4, <3>2 DEF Mine
      <4>2. m.id = k + 1
        BY <1>16, <2>2, <4>1
      <4>3. \A i \in 1..l : all[i].id # k + 1
        BY <1>16, <1>17, <2>2, <4>1, <4>2
      <4> QED
        BY <1>15, <3>2, <4>1, <4>2, <4>3
    <3> QED
      BY <1>19, <3>1, <3>2
  <2> QED
    BY <1>2, <1>6, <1>7, <1>14, <2>1, <2>2 DEF Keyed
<1>21. Judged(s)'
  <2>1. ses[s].answered \subseteq 1..l
    BY <1>14, <1>15 DEF JudgeInv, Judged
  <2>2. \A i \in 1..l : all[i].share # 0 =>
          /\ all[i].share \in Mine(s)
          /\ i \notin ses[s].answered =>
               shares[all[i].share].outcome \notin {"accepted", "rejected"}
          /\ \A j \in 1..l : all[i].share = all[j].share => i = j
    <3>1. Judged(s) /\ DOMAIN all = 1..l
      BY <1>15 DEF JudgeInv
    <3>2. \A i \in DOMAIN all : all[i].share # 0 =>
            /\ all[i].share \in Mine(s)
            /\ i \notin ses[s].answered =>
                 shares[all[i].share].outcome \notin {"accepted", "rejected"}
            /\ \A j \in DOMAIN all : all[i].share = all[j].share => i = j
      BY <1>10, <3>1 DEF Judged
    <3> QED
      BY <3>1, <3>2
  <2>3. ses'[s].answered \subseteq DOMAIN q
    BY <1>2, <1>15, <2>1
  <2>4. ASSUME NEW i \in DOMAIN q, q[i].share # 0
        PROVE  /\ q[i].share \in Mine(s)'
               /\ i \notin ses[s].answered =>
                    shares'[q[i].share].outcome \notin {"accepted", "rejected"}
               /\ \A j \in DOMAIN q : q[i].share = q[j].share => i = j
    <3>1. \A j \in DOMAIN q : j \in 1..l \/ (j = l + 1 /\ q[j] = m /\ Relays(s, x, m))
      BY <1>15
    <3>2. \A j \in DOMAIN q : j \notin 1..l /\ q[j].share # 0 =>
            q[j].share \notin DOMAIN shares /\ q[j].share \in DOMAIN shares'
      BY <1>5, <1>18, <3>1
    <3>3. CASE i \in 1..l
      <4>1. all[i].share \in Mine(s) /\ q[i] = all[i]
        BY <1>15, <2>2, <2>4, <3>3
      <4>2. \/ shares'[all[i].share].outcome = shares[all[i].share].outcome
            \/ shares'[all[i].share].outcome = "unresolved"
        BY <1>3, <1>19, <4>1
      <4>3. i \notin ses[s].answered =>
              shares'[all[i].share].outcome \notin {"accepted", "rejected"}
        BY <2>2, <2>4, <3>3, <4>1, <4>2
      <4>4. \A j \in DOMAIN q : q[i].share = q[j].share => i = j
        BY <1>15, <1>19, <2>2, <2>4, <3>2, <3>3, <4>1
      <4> QED
        BY <1>19, <4>1, <4>3, <4>4
    <3>4. CASE i \notin 1..l
      <4>1. /\ q[i].share \notin DOMAIN shares /\ q[i].share \in DOMAIN shares'
            /\ i = l + 1 /\ q[i] = m
        BY <2>4, <3>1, <3>2, <3>4
      <4>2. shares'[q[i].share].session = s /\ shares'[q[i].share].outcome = None
        BY <1>4, <4>1
      <4>3. q[i].share \in Mine(s)'
        BY <4>1, <4>2 DEF Mine
      <4>4. \A j \in 1..l : all[j].share # q[i].share
        BY <1>19, <2>2, <2>4, <4>1
      <4> QED
        BY <1>7, <1>15, <3>1, <4>1, <4>2, <4>3, <4>4
    <3> QED
      BY <3>3, <3>4
  <2>5. ASSUME NEW j \in DOMAIN ses[s].down, ses[s].down[j].kind = "answer",
               ses[s].down[j].id # None
        PROVE  \E i \in ses[s].answered :
                 /\ q[i].id = ses[s].down[j].id
                 /\ q[i].share # 0 => shares'[q[i].share].verdict = ses[s].down[j].ok
    <3>1. PICK i \in ses[s].answered :
            /\ all[i].id = ses[s].down[j].id
            /\ all[i].share # 0 => shares[all[i].share].verdict = ses[s].down[j].ok
      BY <1>14, <2>5 DEF JudgeInv, Judged
    <3>2. i \in 1..l /\ q[i] = all[i]
      BY <1>15, <2>1
    <3>3. all[i].share # 0 => shares'[all[i].share].verdict = shares[all[i].share].verdict
      BY <1>3, <1>19, <2>2, <3>2
    <3> QED
      BY <3>1, <3>2, <3>3
  <2> QED
    BY <1>2, <1>14, <2>3, <2>4, <2>5 DEF Judged
<1> QED
  BY <1>8, <1>9, <1>20, <1>21 DEF JudgeInv

LEMMA FirstAndRest ==
  ASSUME NEW q \in Seq(Msg), q # <<>>
  PROVE  /\ 1 \in DOMAIN q /\ Head(q) = q[1]
         /\ \A k \in DOMAIN Tail(q) : \E j \in DOMAIN q : Tail(q)[k] = q[j]
<1> HIDE DEF Msg
<1>1. /\ Tail(q) \in Seq(Msg) /\ Len(Tail(q)) = Len(q) - 1
      /\ \A i \in 1..Len(Tail(q)) : Tail(q)[i] = q[i + 1]
  BY HeadTailProperties
<1>2. Len(q) \in Nat /\ Len(q) # 0 /\ DOMAIN q = 1..Len(q)
  BY EmptySeq, LenProperties
<1>3. DOMAIN Tail(q) = 1..(Len(q) - 1)
  BY <1>1, LenProperties
<1>4. \A k \in 1..(Len(q) - 1) : k + 1 \in 1..Len(q) /\ Tail(q)[k] = q[k + 1]
  BY <1>1, <1>2
<1> QED
  BY <1>2, <1>3, <1>4

\* An answer under way is the verdict on the share it is matched to.
LEMMA DoneAnswered ==
  ASSUME TypeInv, PendingInv, NEW s \in Sessions, Keyed(s), Judged(s),
         NEW x, NEW m, NEW done, PoolStep(s, x, m, done), NEW n \in done
  PROVE  /\ n \in Mine(s) /\ shares[n].verdict = m.ok /\ m.kind = "answer"
         /\ \E i \in ses[s].answered : All(ses[s])[i].share = n
<1>1. /\ ses[s].down # <<>> /\ m = Head(ses[s].down)
      /\ n \in ses[s].pending /\ m.kind = "answer" /\ m.id # None /\ shares[n].key = m.id
  BY DEF PoolStep, Resolved
<1>2. n \in Mine(s)
  BY <1>1 DEF PendingInv, Mine
<1>3. n # 0
  <2>1. DOMAIN shares = 1..Len(shares) /\ Len(shares) \in Nat
    BY LenProperties DEF TypeInv
  <2> QED
    BY <1>2, <2>1 DEF Mine
<1>4. 1 \in DOMAIN ses[s].down /\ m = ses[s].down[1]
  <2>1. ses[s].down \in Seq(Msg)
    BY DEF TypeInv, SesRec
  <2> QED
    BY <1>1, <2>1, FirstAndRest
<1>5. PICK i \in ses[s].answered :
        /\ All(ses[s])[i].id = m.id
        /\ All(ses[s])[i].share # 0 => shares[All(ses[s])[i].share].verdict = m.ok
  BY <1>1, <1>4 DEF Judged
<1>6. i \in DOMAIN All(ses[s])
  BY DEF Judged
<1>7. All(ses[s])[i].share = n
  BY <1>1, <1>2, <1>5, <1>6 DEF Keyed
<1> QED
  BY <1>1, <1>2, <1>3, <1>5, <1>7

LEMMA PoolJudge ==
  ASSUME TypeInv, PendingInv, JudgeInv, NEW s \in Sessions, PoolLine(s)
  PROVE  JudgeInv'
<1>1. PICK x \in SesRec, m \in Msg, done \in SUBSET Nat : PoolStep(s, x, m, done)
  BY PoolLineShape
<1>2. PICK o \in {"accepted", "rejected"} :
        /\ o = IF m.kind = "answer" /\ m.ok THEN "accepted" ELSE "rejected"
        /\ shares' = Marked(done, o)
  BY <1>1 DEF PoolStep
<1>3. o \in Outcomes
  BY DEF Outcomes
<1>4. DOMAIN shares' = DOMAIN shares
  BY <1>2, <1>3, MarkedShares
<1>5. \A n \in DOMAIN shares :
        /\ shares'[n].key = shares[n].key /\ shares'[n].verdict = shares[n].verdict
        /\ shares'[n].outcome = IF n \in done THEN o ELSE shares[n].outcome
  <2> TAKE n \in DOMAIN shares
  <2>1. PICK r \in Share : r = shares[n]
    BY SharesType
  <2>2. shares'[n] = IF n \in done THEN [r EXCEPT !.outcome = o] ELSE r
    BY <1>2, <1>3, <2>1, MarkedShares
  <2> QED
    BY <2>1, <2>2 DEF Share
<1>6. \A t \in Sessions : Mine(t)' = Mine(t)
  BY <1>2, <1>3, MineMarked
<1>7. \A n \in done : /\ n \in Mine(s) /\ shares[n].verdict = m.ok /\ m.kind = "answer"
                      /\ \E i \in ses[s].answered : All(ses[s])[i].share = n
  BY <1>1, DoneAnswered DEF JudgeInv
<1>8. CreditIsEarned'
  <2> SUFFICES ASSUME NEW n \in DOMAIN shares
               PROVE  /\ shares'[n].outcome = "accepted" => shares'[n].verdict = TRUE
                      /\ shares'[n].outcome = "rejected" => shares'[n].verdict = FALSE
    BY <1>4 DEF CreditIsEarned
  <2>1. CASE n \in done
    <3>1. m.ok \in BOOLEAN
      BY DEF Msg
    <3> QED
      BY <1>2, <1>5, <1>7, <2>1, <3>1
  <2>2. CASE n \notin done
    BY <1>5, <2>2 DEF JudgeInv, CreditIsEarned
  <2> QED
    BY <2>1, <2>2
<1>9. Keep(s, x) \/ End(s, x)
  BY <1>1 DEF PoolStep
<1>10. /\ \A t \in Sessions : t # s => ses'[t] = ses[t]
       /\ ses'[s].conn = x.conn /\ ses'[s].out = x.out /\ ses'[s].queued = x.queued
       /\ ses'[s].answered = x.answered /\ ses'[s].down = x.down
  BY <1>9, AfterLine
<1>11. /\ x.conn = ses[s].conn /\ x.out = ses[s].out /\ x.queued = ses[s].queued
       /\ x.answered = ses[s].answered /\ x.down = Tail(ses[s].down)
       /\ ses[s].down # <<>> /\ UNCHANGED lines
  BY <1>1 DEF PoolStep, Same
<1>12. \A b \in Conn : lines'[b] \in Nat /\ lines[b] <= lines'[b]
  BY <1>11 DEF TypeInv
<1>13. ASSUME NEW t \in Sessions
       PROVE  Keyed(t)' /\ Judged(t)'
  <2>1. /\ All(ses'[t]) = All(ses[t]) /\ ses'[t].answered = ses[t].answered
        /\ ses'[t].conn = ses[t].conn
    BY <1>10, <1>11 DEF All
  <2>2. \A k \in DOMAIN ses'[t].down : \E j \in DOMAIN ses[t].down :
          ses'[t].down[k] = ses[t].down[j]
    <3>1. CASE t = s
      <4>1. PICK q \in Seq(Msg) : q = ses[s].down
        BY DEF TypeInv, SesRec
      <4>2. q # <<>> /\ ses'[t].down = Tail(q)
        BY <1>10, <1>11, <3>1, <4>1
      <4>3. \A k \in DOMAIN Tail(q) : \E j \in DOMAIN q : Tail(q)[k] = q[j]
        BY <4>2, FirstAndRest
      <4> QED
        BY <3>1, <4>1, <4>2, <4>3
    <3>2. CASE t # s
      BY <1>10, <3>2
    <3> QED
      BY <3>1, <3>2
  <2>3. \A n \in Mine(t) :
          /\ shares'[n].key = shares[n].key /\ shares'[n].verdict = shares[n].verdict
          /\ \/ shares'[n].outcome = shares[n].outcome
             \/ \E i \in ses[t].answered : All(ses[t])[i].share = n
    <3> TAKE n \in Mine(t)
    <3>1. n \in DOMAIN shares /\ shares[n].session = t
      BY DEF Mine
    <3>2. CASE n \in done
      <4>1. t = s
        BY <1>7, <3>1, <3>2 DEF Mine
      <4> QED
        BY <1>5, <1>7, <3>1, <3>2, <4>1
    <3>3. CASE n \notin done
      BY <1>5, <3>1, <3>3
    <3> QED
      BY <3>2, <3>3
  <2>4. Mine(t)' = Mine(t) /\ Keyed(t) /\ Judged(t)
    BY <1>6 DEF JudgeInv
  <2> QED
    BY <1>12, <2>1, <2>2, <2>3, <2>4, JudgeKept
<1> QED
  BY <1>8, <1>13 DEF JudgeInv

LEMMA AnswersJudge ==
  ASSUME TypeInv, JudgeInv, NEW s \in Sessions, NEW i \in DOMAIN ses[s].out,
         NEW ok \in BOOLEAN, PoolAnswers(s, i, ok)
  PROVE  JudgeInv'
<1>1. PICK x \in SesRec, d \in Msg, m \in Req :
        /\ Says(s, x, d) /\ x.answered = ses[s].answered \cup {i}
        /\ m = ses[s].out[i] /\ d.kind = "answer" /\ d.id = m.id /\ d.ok = ok
        /\ i \in Nat /\ i \notin ses[s].answered
        /\ shares' = IF m.share = 0 THEN shares ELSE [shares EXCEPT ![m.share].verdict = ok]
  BY AnswersShape
<1>2. PICK all : all = All(ses[s])
  OBVIOUS
<1>3. i \in DOMAIN all /\ all[i] = m
  BY <1>1, <1>2, OutAll DEF TypeInv
<1>4. /\ ses'[s] = x /\ \A t \in Sessions : t # s => ses'[t] = ses[t]
      /\ x.conn = ses[s].conn /\ All(x) = all /\ x.down = Append(ses[s].down, d)
  BY <1>1, <1>2, SesUpdated DEF Says, Same, All
<1>5. PICK n \in Nat : n = m.share
  BY DEF Req
<1>6. Judged(s) /\ Keyed(s) /\ \A t \in Sessions : Judged(t) /\ Keyed(t)
  BY DEF JudgeInv
<1>7. n # 0 => n \in Mine(s) /\ shares[n].outcome \notin {"accepted", "rejected"}
  BY <1>1, <1>2, <1>3, <1>5, <1>6 DEF Judged
<1>8. DOMAIN shares' = DOMAIN shares
  BY <1>1
<1>9. \A k \in DOMAIN shares :
        /\ shares'[k].session = shares[k].session /\ shares'[k].key = shares[k].key
        /\ shares'[k].outcome = shares[k].outcome
        /\ shares'[k].verdict = IF k = n /\ n # 0 THEN ok ELSE shares[k].verdict
  <2> TAKE k \in DOMAIN shares
  <2>1. PICK r \in Share : r = shares[k]
    BY SharesType
  <2>2. shares'[k] = IF k = n /\ n # 0 THEN [r EXCEPT !.verdict = ok] ELSE r
    BY <1>1, <1>5, <2>1
  <2> QED
    BY <2>1, <2>2 DEF Share
<1>10. \A t : Mine(t)' = Mine(t)
  BY <1>8, <1>9 DEF Mine
<1>11. CreditIsEarned'
  <2> SUFFICES ASSUME NEW k \in DOMAIN shares
               PROVE  /\ shares'[k].outcome = "accepted" => shares'[k].verdict = TRUE
                      /\ shares'[k].outcome = "rejected" => shares'[k].verdict = FALSE
    BY <1>8 DEF CreditIsEarned
  <2> QED
    BY <1>7, <1>9 DEF JudgeInv, CreditIsEarned
<1>12. \A b \in Conn : lines'[b] \in Nat /\ lines[b] <= lines'[b]
  BY DEF PoolAnswers, TypeInv
<1>13. ASSUME NEW t \in Sessions, t # s
       PROVE  Keyed(t)' /\ Judged(t)'
  <2>1. ses'[t] = ses[t]
    BY <1>4, <1>13
  <2>2. \A k \in Mine(t) :
          /\ shares'[k].key = shares[k].key /\ shares'[k].verdict = shares[k].verdict
          /\ shares'[k].outcome = shares[k].outcome
    BY <1>7, <1>9, <1>13 DEF Mine
  <2> QED
    BY <1>6, <1>10, <1>12, <2>1, <2>2, JudgeKept
<1>14. Keyed(s)'
  <2>1. \A k \in Mine(s) : shares'[k].key = shares[k].key
    BY <1>9 DEF Mine
  <2> QED
    BY <1>2, <1>4, <1>6, <1>10, <1>12, <2>1, KeyedKept
<1>15. Judged(s)'
  <2>1. /\ ses[s].answered \subseteq DOMAIN all
        /\ \A j \in DOMAIN all : all[j].share # 0 =>
             /\ all[j].share \in Mine(s)
             /\ j \notin ses[s].answered =>
                  shares[all[j].share].outcome \notin {"accepted", "rejected"}
             /\ \A k \in DOMAIN all : all[j].share = all[k].share => j = k
    BY <1>2, <1>6 DEF Judged
  <2>2. ses'[s].answered \subseteq DOMAIN all
    BY <1>1, <1>3, <1>4, <2>1
  <2>3. \A j \in DOMAIN all : all[j].share # 0 =>
          /\ all[j].share \in Mine(s)'
          /\ j \notin ses'[s].answered =>
               shares'[all[j].share].outcome \notin {"accepted", "rejected"}
          /\ \A k \in DOMAIN all : all[j].share = all[k].share => j = k
    <3> SUFFICES ASSUME NEW j \in DOMAIN all, all[j].share # 0
                 PROVE  /\ all[j].share \in Mine(s)'
                        /\ j \notin ses'[s].answered =>
                             shares'[all[j].share].outcome \notin {"accepted", "rejected"}
                        /\ \A k \in DOMAIN all : all[j].share = all[k].share => j = k
      OBVIOUS
    <3>1. /\ all[j].share \in Mine(s)
          /\ j \notin ses[s].answered =>
               shares[all[j].share].outcome \notin {"accepted", "rejected"}
          /\ \A k \in DOMAIN all : all[j].share = all[k].share => j = k
      BY <2>1
    <3>2. all[j].share \in Mine(s)'
      BY <1>10, <3>1
    <3>3. ASSUME j \notin ses'[s].answered
          PROVE  shares'[all[j].share].outcome \notin {"accepted", "rejected"}
      BY <1>1, <1>4, <1>9, <1>10, <3>1, <3>3 DEF Mine
    <3> QED
      BY <3>1, <3>2, <3>3
  <2>4. ASSUME NEW k \in DOMAIN x.down, x.down[k].kind = "answer", x.down[k].id # None
        PROVE  \E j \in ses'[s].answered :
                 /\ all[j].id = x.down[k].id
                 /\ all[j].share # 0 => shares'[all[j].share].verdict = x.down[k].ok
    <3>1. PICK q \in Seq(Msg) : q = ses[s].down
      BY DEF TypeInv, SesRec
    <3>2. (k \in DOMAIN q /\ x.down[k] = q[k]) \/ x.down[k] = d
      <4> HIDE DEF Msg
      <4>1. /\ Append(q, d) \in Seq(Msg) /\ Len(Append(q, d)) = Len(q) + 1
            /\ \A j \in 1..Len(q) : Append(q, d)[j] = q[j]
            /\ Append(q, d)[Len(q) + 1] = d
        BY AppendProperties
      <4>2. DOMAIN Append(q, d) = 1..(Len(q) + 1) /\ DOMAIN q = 1..Len(q) /\ Len(q) \in Nat
        BY <4>1, LenProperties
      <4>3. x.down = Append(q, d)
        BY <1>4, <3>1
      <4> QED
        BY <4>1, <4>2, <4>3
    <3>3. CASE k \in DOMAIN q /\ x.down[k] = q[k]
      <4>1. PICK j \in ses[s].answered :
              /\ all[j].id = q[k].id
              /\ all[j].share # 0 => shares[all[j].share].verdict = q[k].ok
        BY <1>2, <1>6, <2>4, <3>1, <3>3 DEF Judged
      <4>2. j \in DOMAIN all /\ j # i
        BY <1>1, <2>1, <4>1
      <4>3. all[j].share # 0 => all[j].share # n /\ all[j].share \in Mine(s)
        BY <1>3, <1>5, <2>1, <4>2
      <4>4. all[j].share # 0 => shares'[all[j].share].verdict = shares[all[j].share].verdict
        BY <1>9, <4>3 DEF Mine
      <4> QED
        BY <1>1, <1>4, <3>3, <4>1, <4>4
    <3>4. CASE x.down[k] = d
      <4>1. n # 0 => shares'[n].verdict = ok
        BY <1>7, <1>9 DEF Mine
      <4> QED
        BY <1>1, <1>3, <1>4, <1>5, <3>4, <4>1
    <3> QED
      BY <3>2, <3>3, <3>4
  <2> QED
    BY <1>4, <2>2, <2>3, <2>4 DEF Judged
<1> QED
  BY <1>11, <1>13, <1>14, <1>15 DEF JudgeInv

\* Steps that touch neither a share nor a request.
LEMMA JudgeStays ==
  ASSUME TypeInv, JudgeInv, UNCHANGED <<shares, lines>>,
         \A t \in Sessions :
           /\ All(ses'[t]) = All(ses[t]) /\ ses'[t].answered = ses[t].answered
           /\ ses'[t].conn = ses[t].conn
           /\ \A k \in DOMAIN ses'[t].down :
                \/ ses'[t].down[k].kind # "answer"
                \/ \E j \in DOMAIN ses[t].down : ses'[t].down[k] = ses[t].down[j]
  PROVE  JudgeInv'
<1>1. \A t \in Sessions : Mine(t)' = Mine(t)
  BY DEF Mine
<1>2. \A b \in Conn : lines'[b] \in Nat /\ lines[b] <= lines'[b]
  BY DEF TypeInv
<1>3. CreditIsEarned'
  BY DEF JudgeInv, CreditIsEarned
<1>4. \A t \in Sessions : Keyed(t)' /\ Judged(t)'
  BY <1>1, <1>2, JudgeKept DEF JudgeInv
<1> QED
  BY <1>3, <1>4 DEF JudgeInv

LEMMA OthersJudge ==
  ASSUME TypeInv, OrderInv, JudgeInv,
         \/ \E s \in Sessions :
              \/ Connected(s) \/ UpstreamGone(s)
              \/ \E i \in DOMAIN ses[s].out, ok \in BOOLEAN : PoolAnswers(s, i, ok)
              \/ \E d \in Weight : PoolPushes(s, "difficulty", d)
              \/ PoolPushes(s, "reconnect", 1)
         \/ \E c \in Conn : Accept(c) \/ HangUp(c)
         \/ Tick \/ Signal \/ Exit \/ UNCHANGED vars
  PROVE  JudgeInv'
<1>1. ASSUME NEW s \in Sessions, Connected(s)
      PROVE  JudgeInv'
  <2>1. PICK x \in SesRec : Flush(s, x)
    BY <1>1, ConnectedShape
  <2>2. All(x) = All(ses[s])
    <3>1. ses[s].out \in Seq(Req) /\ ses[s].queued \in Seq(Req)
      BY DEF TypeInv, SesRec
    <3>2. PICK a \in Seq(Req) : a = ses[s].out \o ses[s].queued
      <4> HIDE DEF Req
      <4> QED
        BY <3>1, ConcatProperties
    <3>3. a \o <<>> = a
      <4> HIDE DEF Req
      <4> QED
        BY ConcatEmptySeq
    <3> QED
      BY <2>1, <3>2, <3>3 DEF Flush, All
  <2>3. /\ ses'[s] = x /\ \A t \in Sessions : t # s => ses'[t] = ses[t]
        /\ x.conn = ses[s].conn /\ x.answered = ses[s].answered /\ x.down = ses[s].down
    BY <2>1, SesUpdated DEF Flush, Rest
  <2>4. UNCHANGED lines /\ UNCHANGED shares
    BY <1>1 DEF Connected
  <2>5. \A t \in Sessions :
          /\ All(ses'[t]) = All(ses[t]) /\ ses'[t].answered = ses[t].answered
          /\ ses'[t].conn = ses[t].conn /\ ses'[t].down = ses[t].down
    BY <2>2, <2>3
  <2> QED
    BY <2>4, <2>5, JudgeStays
<1>2. ASSUME NEW s \in Sessions, UpstreamGone(s)
      PROVE  JudgeInv'
  <2>1. PICK x \in SesRec : x = ses[s] /\ End(s, x)
    BY <1>2 DEF TypeInv, UpstreamGone
  <2>2. /\ \A t \in Sessions : t # s => ses'[t] = ses[t]
        /\ ses'[s].conn = x.conn /\ ses'[s].answered = x.answered /\ ses'[s].down = x.down
        /\ ses'[s].out = x.out /\ ses'[s].queued = x.queued
    BY <2>1, AfterLine
  <2>3. UNCHANGED lines /\ UNCHANGED shares
    BY <1>2 DEF UpstreamGone
  <2>4. \A t \in Sessions :
          /\ All(ses'[t]) = All(ses[t]) /\ ses'[t].answered = ses[t].answered
          /\ ses'[t].conn = ses[t].conn /\ ses'[t].down = ses[t].down
    BY <2>1, <2>2 DEF All
  <2> QED
    BY <2>3, <2>4, JudgeStays
<1>3. ASSUME NEW s \in Sessions, NEW kind \in {"difficulty", "reconnect"},
             NEW value \in Weight \cup {1}, PoolPushes(s, kind, value)
      PROVE  JudgeInv'
  <2>1. PICK x \in SesRec, d \in Msg :
          Says(s, x, d) /\ x.answered = ses[s].answered /\ d.kind # "answer"
    BY <1>3, PushesShape
  <2>2. /\ ses'[s] = x /\ \A t \in Sessions : t # s => ses'[t] = ses[t]
        /\ x.conn = ses[s].conn /\ x.out = ses[s].out /\ x.queued = ses[s].queued
        /\ x.down = Append(ses[s].down, d)
    BY <2>1, SesUpdated DEF Says, Same
  <2>3. \A k \in DOMAIN x.down : \/ x.down[k].kind # "answer"
                                 \/ \E j \in DOMAIN ses[s].down : x.down[k] = ses[s].down[j]
    <3>1. PICK q \in Seq(Msg) : q = ses[s].down
      BY DEF TypeInv, SesRec
    <3>2. \A k \in DOMAIN Append(q, d) :
            Append(q, d)[k] = d \/ (k \in DOMAIN q /\ Append(q, d)[k] = q[k])
      <4> HIDE DEF Msg
      <4>1. /\ Append(q, d) \in Seq(Msg) /\ Len(Append(q, d)) = Len(q) + 1
            /\ \A j \in 1..Len(q) : Append(q, d)[j] = q[j]
            /\ Append(q, d)[Len(q) + 1] = d
        BY AppendProperties
      <4>2. DOMAIN Append(q, d) = 1..(Len(q) + 1) /\ DOMAIN q = 1..Len(q) /\ Len(q) \in Nat
        BY <4>1, LenProperties
      <4> QED
        BY <4>1, <4>2
    <3> QED
      BY <2>1, <2>2, <3>1, <3>2
  <2>4. \A t \in Sessions :
          /\ All(ses'[t]) = All(ses[t]) /\ ses'[t].answered = ses[t].answered
          /\ ses'[t].conn = ses[t].conn
          /\ \A k \in DOMAIN ses'[t].down :
               \/ ses'[t].down[k].kind # "answer"
               \/ \E j \in DOMAIN ses[t].down : ses'[t].down[k] = ses[t].down[j]
    <3> TAKE t \in Sessions
    <3>1. CASE t = s
      <4>1. ses'[t] = x
        BY <2>2, <3>1
      <4>2. All(x) = All(ses[s])
        BY <2>2 DEF All
      <4>3. /\ x.answered = ses[s].answered /\ x.conn = ses[s].conn
        BY <2>1, <2>2
      <4> QED
        BY <2>3, <3>1, <4>1, <4>2, <4>3
    <3>2. CASE t # s
      <4>1. ses'[t] = ses[t]
        BY <2>2, <3>2
      <4>2. \A k \in DOMAIN ses'[t].down : ses'[t].down[k] = ses[t].down[k] /\ k \in DOMAIN ses[t].down
        BY <4>1
      <4> QED
        BY <4>1, <4>2
    <3> QED
      BY <3>1, <3>2
  <2> QED
    BY <1>3, <2>4, JudgeStays DEF PoolPushes
<1>4. ASSUME NEW c \in Conn, HangUp(c)
      PROVE  JudgeInv'
  <2>1. \A t \in Sessions :
          /\ All(ses'[t]) = All(ses[t]) /\ ses'[t].answered = ses[t].answered
          /\ ses'[t].conn = ses[t].conn /\ ses'[t].down = ses[t].down
    <3> TAKE t \in Sessions
    <3>1. PICK y : y = Ended(ses[t])
      OBVIOUS
    <3>2. /\ y.conn = ses[t].conn /\ y.answered = ses[t].answered /\ y.down = ses[t].down
          /\ y.queued = ses[t].queued /\ y.out = ses[t].out
      BY <3>1, EndedRec DEF TypeInv
    <3>3. ses'[t] = y \/ ses'[t] = ses[t]
      BY <1>4, <3>1, HangUpShape
    <3> QED
      BY <3>2, <3>3 DEF All
  <2>2. UNCHANGED lines /\ UNCHANGED shares
    BY <1>4 DEF HangUp
  <2> QED
    BY <2>1, <2>2, JudgeStays
<1>5. ASSUME UNCHANGED <<ses, shares, lines>>
      PROVE  JudgeInv'
  BY <1>5, JudgeStays
<1> QED
  BY <1>1, <1>2, <1>3, <1>4, <1>5, AnswersJudge DEF Accept, Tick, Signal, Exit, vars

LEMMA InitJudge == Init => JudgeInv
<1> SUFFICES ASSUME Init
             PROVE  JudgeInv
  OBVIOUS
<1>1. DOMAIN shares = {}
  BY EmptySeq DEF Init
<1>2. CreditIsEarned
  BY <1>1 DEF CreditIsEarned
<1>3. ASSUME NEW t \in Sessions
      PROVE  Keyed(t) /\ Judged(t)
  <2>1. All(ses[t]) = <<>> /\ ses[t].answered = {} /\ ses[t].down = <<>>
    BY NewAll DEF Init, NewSession
  <2>2. Mine(t) = {} /\ DOMAIN <<>> = {}
    BY <1>1 DEF Mine
  <2> QED
    BY <2>1, <2>2 DEF Keyed, Judged
<1> QED
  BY <1>2, <1>3 DEF JudgeInv

\* Where a miner gives each request of a connection an id of its own, a share
\* is booked as accepted only if upstream accepted that very share, and as
\* rejected only if it rejected it, for any number of connections, whatever
\* answers are late, lost or out of order (stratum.ts:62-66,
\* ARCHITECTURE.md:66).  With ids used again it is false: ProxyIds.cfg.
THEOREM SpecCreditIsEarned ==
  ASSUME FreshIds = TRUE
  PROVE  Spec => []CreditIsEarned
<1>1. TypeInv /\ LinkInv /\ BookInv /\ OrderInv /\ JudgeInv /\ [Next]_vars => JudgeInv'
  BY MinerJudge, PoolJudge, OthersJudge DEF Next, BookInv
<1>2. TypeInv /\ LinkInv /\ [Next]_vars => LinkInv'
  BY MinerLink, PoolLink, OthersLink DEF Next
<1>3. TypeInv /\ BookInv /\ [Next]_vars => BookInv'
  BY MinerBook, PoolBook, OthersBook DEF Next
<1>4. TypeInv /\ LinkInv /\ OrderInv /\ [Next]_vars => OrderInv'
  BY MinerOrder, PoolOrder, OthersOrder DEF Next
<1>5. JudgeInv => CreditIsEarned
  BY DEF JudgeInv
<1> QED
  BY <1>1, <1>2, <1>3, <1>4, <1>5, InitLink, InitBook, InitOrder, InitJudge, SpecTypeInv,
     PTL DEF Spec
-----------------------------------------------------------------------------
(* What is booked stays booked.                                            *)

\* What a share was relayed as.
Relayed(h) == [session |-> h.session, worker |-> h.worker, key |-> h.key,
               weight |-> h.weight, at |-> h.at]

\* A share keeps what it was relayed as, and its outcome from the moment it has
\* one: an answer that comes after the timeout changes nothing.  The books only
\* grow.
SharesAreFinal ==
  /\ \A n \in DOMAIN shares :
       /\ n \in DOMAIN shares'
       /\ Relayed(shares'[n]) = Relayed(shares[n])
       /\ shares[n].outcome # None => shares'[n].outcome = shares[n].outcome
  /\ \A w \in Worker : \A o \in Outcomes \cup {"weight"} : books'[w][o] >= books[w][o]

\* Every step books what one session settles, or books nothing.
LEMMA MinerSettles ==
  ASSUME TypeInv, NEW c \in Conn, MinerLine(c)
  PROVE  \/ UNCHANGED <<shares, books>>
         \/ \E s \in Sessions, late \in SUBSET Nat, new \in Share \cup {None} :
              Settles(s, late, "unresolved", new)
<1>1. PICK s \in Sessions, x \in SesRec, late \in SUBSET Nat, m \in Req :
         MinerStep(c, s, x, late, m)
  BY MinerLineShape
<1>2. Keep(s, x) \/ End(s, x)
  BY <1>1 DEF MinerStep, NoSubmit, Login, Refused, Submitted, Quiet, Relays, Ends
<1>3. ses'[s].pending = x.pending
  BY <1>2, AfterLine
<1>4. CASE NoSubmit(s, x, m) \/ Login(s, x, m)
  BY <1>4 DEF NoSubmit, Login
<1>5. CASE Refused(s, x, late)
  <2>1. Settles(s, late, "unresolved", None)
    BY <1>3, <1>5 DEF Refused, Settles
  <2> QED
    BY <2>1
<1>6. CASE Submitted(s, x, late, m)
  <2>1. NewShare(s, m.id) \in Share
    <3>1. ses[s] \in SesRec /\ ses[s].identity # None /\ m.id \in AnyId /\ now \in Nat
      BY <1>6 DEF Submitted, TypeInv, Req
    <3> QED
      BY <3>1 DEF SesRec, NewShare, Share
  <2>2. PICK h \in Share : h = NewShare(s, m.id)
    BY <2>1
  <2>3. h.session = s /\ h.worker = ses[s].identity /\ h.outcome = None
    BY <2>2 DEF NewShare
  <2>4. Settles(s, late, "unresolved", h)
    BY <1>3, <1>6, <2>2, <2>3 DEF Submitted, Settles
  <2> QED
    BY <2>4
<1> QED
  BY <1>1, <1>4, <1>5, <1>6 DEF MinerStep

LEMMA PoolSettles ==
  ASSUME TypeInv, NEW s \in Sessions, PoolLine(s)
  PROVE  \E done \in SUBSET Nat, o \in Outcomes : Settles(s, done, o, None)
<1>1. PICK x \in SesRec, m \in Msg, done \in SUBSET Nat : PoolStep(s, x, m, done)
  BY PoolLineShape
<1>2. PICK o \in {"accepted", "rejected"} : shares' = Marked(done, o) /\ books' = Book(done, o)
  BY <1>1 DEF PoolStep
<1>3. ses'[s].pending = x.pending
  BY <1>1, AfterLine DEF PoolStep
<1>4. Settles(s, done, o, None)
  BY <1>1, <1>2, <1>3 DEF PoolStep, Settles
<1> QED
  BY <1>4 DEF Outcomes

LEMMA WeightsNat ==
  ASSUME TypeInv
  PROVE  \A n \in DOMAIN shares : Weights[n] \in Nat
<1> TAKE n \in DOMAIN shares
<1>1. Weight \cup {1} \subseteq Nat
  BY ProxyAssumption
<1>2. shares[n].weight \in Weight \cup {1}
  BY SharesType DEF Share
<1> QED
  BY <1>1, <1>2 DEF Weights

\* The books are natural numbers.
LEMMA BooksNat ==
  ASSUME TypeInv, BookInv, NEW w \in Worker
  PROVE  \A o \in Outcomes \cup {"weight"} : books[w][o] \in Nat
<1>1. \A o \in Outcomes : books[w][o] \in Nat
  <2> TAKE o \in Outcomes
  <2>1. books[w][o] = Cardinality(Counted(w, o))
    BY DEF BookInv, EveryShareOnce, BookedOnce
  <2> QED
    BY <2>1, CountedFinite, FS_CardinalityType
<1>2. books[w]["weight"] \in Nat
  <2>1. PICK f, S : f = Weights /\ S = Counted(w, "accepted")
    OBVIOUS
  <2>2. books[w]["weight"] = Sum(f, S)
    BY <2>1 DEF BookInv, EveryShareOnce, WeighedOnce, Weights
  <2>3. IsFiniteSet(S) /\ S \subseteq DOMAIN shares
    <3>1. IsFiniteSet(Counted(w, "accepted"))
      BY CountedFinite
    <3>2. Counted(w, "accepted") \subseteq DOMAIN shares
      BY DEF Counted
    <3> QED
      BY <2>1, <3>1, <3>2
  <2>4. \A n \in S : f[n] \in Nat
    BY <2>1, <2>3, WeightsNat
  <2> QED
    BY <2>2, <2>3, <2>4, SumNat
<1> QED
  BY <1>1, <1>2

LEMMA SettledFinal ==
  ASSUME TypeInv, BookInv, NEW s \in Sessions, NEW done, NEW o \in Outcomes, NEW new,
         Settles(s, done, o, new)
  PROVE  SharesAreFinal
<1>1. \A n \in done : shares[n].outcome = None
  BY DEF BookInv, PendingInv, Settles
<1>2. ASSUME NEW n \in DOMAIN shares
      PROVE  /\ n \in DOMAIN shares' /\ Relayed(shares'[n]) = Relayed(shares[n])
             /\ shares[n].outcome # None => shares'[n].outcome = shares[n].outcome
  <2>1. /\ n \in DOMAIN shares' /\ shares[n] \in Share
        /\ shares'[n] = IF n \in done THEN [shares[n] EXCEPT !.outcome = o] ELSE shares[n]
    BY SettledShares
  <2>2. Relayed([shares[n] EXCEPT !.outcome = o]) = Relayed(shares[n])
    BY <2>1 DEF Relayed, Share
  <2> QED
    BY <1>1, <2>1, <2>2
<1>3. ASSUME NEW w \in Worker, NEW p \in Outcomes \cup {"weight"}
      PROVE  books'[w][p] >= books[w][p]
  <2>1. books[w][p] \in Nat
    BY BooksNat
  <2>2. PICK S \in SUBSET DOMAIN shares : S = OfWorker(done, w) /\ IsFiniteSet(S)
    BY SettledSets
  <2>3. Cardinality(S) \in Nat
    BY <2>2, FS_CardinalityType
  <2>4. Gain(S, o) \in Nat
    <3>1. Sum(Weights, S) \in Nat
      BY <2>2, WeightsNat, SumNat
    <3>2. CASE o = "accepted"
      BY <2>2, <3>1, <3>2, GainOfAccepted
    <3>3. CASE o # "accepted"
      BY <3>3 DEF Gain
    <3> QED
      BY <3>2, <3>3
  <2>5. /\ \A q \in Outcomes :
             books'[w][q] = IF q = o THEN books[w][q] + Cardinality(S) ELSE books[w][q]
        /\ books'[w]["weight"] = books[w]["weight"] + Gain(S, o)
    BY <2>2, SettledBooks
  <2> QED
    BY <2>1, <2>3, <2>4, <2>5
<1> QED
  BY <1>2, <1>3 DEF SharesAreFinal

\* Outside the lines of miners and pool nothing is booked; at most the pool
\* makes up its mind about a share.
LEMMA OthersFinal ==
  ASSUME TypeInv, BookInv,
         \/ \E s \in Sessions :
              \/ Connected(s) \/ UpstreamGone(s)
              \/ \E i \in DOMAIN ses[s].out, ok \in BOOLEAN : PoolAnswers(s, i, ok)
              \/ \E d \in Weight : PoolPushes(s, "difficulty", d)
              \/ PoolPushes(s, "reconnect", 1)
         \/ \E c \in Conn : Accept(c) \/ HangUp(c)
         \/ Tick \/ Signal \/ Exit \/ UNCHANGED vars
  PROVE  SharesAreFinal
<1>1. \A w \in Worker : \A o \in Outcomes \cup {"weight"} : books[w][o] >= books[w][o]
  BY BooksNat
<1>2. ASSUME NEW s \in Sessions, NEW i \in DOMAIN ses[s].out, NEW ok \in BOOLEAN,
             PoolAnswers(s, i, ok)
      PROVE  SharesAreFinal
  <2>1. PICK k : shares' = shares \/ shares' = [shares EXCEPT ![k].verdict = ok]
    BY <1>2 DEF PoolAnswers
  <2>2. \A n \in DOMAIN shares : shares[n] \in Share
    BY SharesType
  <2>3. \A h \in Share : /\ Relayed([h EXCEPT !.verdict = ok]) = Relayed(h)
                         /\ [h EXCEPT !.verdict = ok].outcome = h.outcome
    BY DEF Share, Relayed
  <2>4. /\ DOMAIN shares' = DOMAIN shares
        /\ \A n \in DOMAIN shares :
             shares'[n] = shares[n] \/ shares'[n] = [shares[n] EXCEPT !.verdict = ok]
    <3>1. CASE shares' = shares
      BY ONLY <3>1
    <3>2. CASE shares' = [shares EXCEPT ![k].verdict = ok]
      <4>1. PICK h : h = [shares[k] EXCEPT !.verdict = ok]
        OBVIOUS
      <4>2. shares' = [shares EXCEPT ![k] = h]
        BY ONLY <3>2, <4>1
      <4>3. /\ DOMAIN shares' = DOMAIN shares
            /\ \A n \in DOMAIN shares : shares'[n] = IF n = k THEN h ELSE shares[n]
        BY ONLY <4>2
      <4> QED
        BY ONLY <4>1, <4>3
    <3> QED
      BY <2>1, <3>1, <3>2
  <2>5. UNCHANGED books
    BY <1>2 DEF PoolAnswers
  <2> QED
    BY <1>1, <2>2, <2>3, <2>4, <2>5 DEF SharesAreFinal
<1>3. ASSUME UNCHANGED <<shares, books>>
      PROVE  SharesAreFinal
  BY <1>1, <1>3 DEF SharesAreFinal
<1> QED
  BY <1>2, <1>3 DEF Connected, UpstreamGone, PoolPushes, Accept, HangUp, Tick, Signal, Exit, vars

LEMMA SpecBookInv == Spec => [](TypeInv /\ BookInv)
<1>1. TypeInv /\ BookInv /\ [Next]_vars => BookInv'
  BY MinerBook, PoolBook, OthersBook DEF Next
<1> QED
  BY <1>1, InitBook, SpecTypeInv, PTL DEF Spec

\* Whatever the pool answers and when, whichever timeouts, retunes and ends of
\* sessions come between, no share is booked a second way, none is changed
\* after it was relayed, and no count or weight in the books ever falls
\* (session.ts:110-147, 304-333).
THEOREM SpecSharesAreFinal == Spec => [][SharesAreFinal]_vars
<1>1. TypeInv /\ BookInv /\ [Next]_vars => SharesAreFinal
  <2> SUFFICES ASSUME TypeInv, BookInv, [Next]_vars
               PROVE  SharesAreFinal
    OBVIOUS
  <2>1. ASSUME NEW c \in Conn, MinerLine(c)
        PROVE  SharesAreFinal
    <3>1. CASE UNCHANGED <<shares, books>>
      BY <3>1, BooksNat DEF SharesAreFinal
    <3>2. "unresolved" \in Outcomes
      BY DEF Outcomes
    <3> QED
      BY <2>1, <3>1, <3>2, MinerSettles, SettledFinal
  <2>2. ASSUME NEW s \in Sessions, PoolLine(s)
        PROVE  SharesAreFinal
    BY <2>2, PoolSettles, SettledFinal
  <2> QED
    BY <2>1, <2>2, OthersFinal DEF Next
<1> QED
  BY <1>1, SpecBookInv, PTL DEF Spec

-----------------------------------------------------------------------------
(* No session holds more than its limits.                                  *)

\* What waits for the dial, and the submits that wait for an answer, stay
\* within maxQueuedMessages and maxPendingSubmits: what TypeOK says of them.
WithinLimits ==
  \A s \in Sessions :
    /\ Len(ses[s].queued) <= MaxQueued
    /\ IsFiniteSet(ses[s].pending) /\ Cardinality(ses[s].pending) <= MaxPending

LEMMA LimitsNat == MaxQueued \in Nat /\ MaxPending \in Nat
BY ProxyAssumption

\* A session that takes nothing on stays within its limits.
LEMMA LimitsStay ==
  ASSUME WithinLimits,
         \A t \in Sessions :
           /\ ses'[t].queued = ses[t].queued \/ ses'[t].queued = <<>>
           /\ ses'[t].pending = ses[t].pending
  PROVE  WithinLimits'
<1>1. Len(<<>>) = 0 /\ 0 <= MaxQueued
  BY LimitsNat
<1> QED
  BY <1>1 DEF WithinLimits

\* One session lets go of some submits.
LEMMA LimitsDrop ==
  ASSUME WithinLimits, NEW s \in Sessions, NEW late
  PROVE  /\ IsFiniteSet(ses[s].pending \ late)
         /\ Cardinality(ses[s].pending \ late) \in Nat
         /\ Cardinality(ses[s].pending \ late) <= MaxPending
<1>1. PICK p : p = ses[s].pending
  OBVIOUS
<1>2. IsFiniteSet(p) /\ Cardinality(p) <= MaxPending /\ Cardinality(p) \in Nat
  BY <1>1, FS_CardinalityType DEF WithinLimits
<1>3. IsFiniteSet(p \ late) /\ Cardinality(p \ late) <= Cardinality(p)
  <2>1. p \ late \in SUBSET p
    OBVIOUS
  <2> QED
    BY <1>2, <2>1, FS_Subset
<1>4. Cardinality(p \ late) \in Nat
  BY <1>3, FS_CardinalityType
<1> QED
  BY <1>1, <1>2, <1>3, <1>4, LimitsNat

LEMMA MinerLimits ==
  ASSUME TypeInv, WithinLimits, NEW c \in Conn, MinerLine(c)
  PROVE  WithinLimits'
<1>1. PICK s \in Sessions, x \in SesRec, late \in SUBSET Nat, m \in Req :
         MinerStep(c, s, x, late, m)
  BY MinerLineShape
<1>2. Keep(s, x) \/ End(s, x)
  BY <1>1 DEF MinerStep, NoSubmit, Login, Refused, Submitted, Quiet, Relays, Ends
<1>3. /\ \A t \in Sessions : t # s => ses'[t] = ses[t]
      /\ ses'[s].queued = x.queued /\ ses'[s].pending = x.pending
  BY <1>2, AfterLine
<1>4. Len(x.queued) <= MaxQueued
  <2>1. Len(ses[s].queued) <= MaxQueued
    BY DEF WithinLimits
  <2>2. CASE Same(ses[s], x)
    BY <2>1, <2>2 DEF Same
  <2>3. CASE Sent(ses[s], x, m)
    <3>1. PICK q \in Seq(Req) : q = ses[s].queued
      BY DEF TypeInv, SesRec
    <3>2. Len(q) \in Nat /\ Len(Append(q, m)) = Len(q) + 1
      <4> HIDE DEF Req
      <4> QED
        BY AppendProperties, LenProperties
    <3> QED
      BY <2>1, <2>3, <3>1, <3>2, LimitsNat DEF Sent
  <2> QED
    BY <1>1, <2>2, <2>3 DEF MinerStep, NoSubmit, Login, Refused, Submitted, Quiet, Relays, Ends
<1>5. IsFiniteSet(x.pending) /\ Cardinality(x.pending) <= MaxPending
  <2>1. CASE x.pending = ses[s].pending
    BY <2>1 DEF WithinLimits
  <2>2. CASE x.pending = ses[s].pending \ late
    BY <2>2, LimitsDrop
  <2>3. CASE Submitted(s, x, late, m)
    <3>1. PICK p : p = ses[s].pending \ late
      OBVIOUS
    <3>2. IsFiniteSet(p) /\ Cardinality(p) \in Nat
      BY <3>1, LimitsDrop
    <3>3. x.pending = p \cup {Len(shares) + 1} /\ ~(Cardinality(p) >= MaxPending)
      BY <2>3, <3>1 DEF Submitted
    <3>4. /\ IsFiniteSet(x.pending)
          /\ Cardinality(x.pending) = Cardinality(p) \/ Cardinality(x.pending) = Cardinality(p) + 1
      BY <3>2, <3>3, FS_AddElement
    <3> QED
      BY <3>2, <3>3, <3>4, LimitsNat
  <2> QED
    BY <1>1, <2>1, <2>2, <2>3 DEF MinerStep, NoSubmit, Login, Refused
<1> QED
  BY <1>3, <1>4, <1>5 DEF WithinLimits

LEMMA PoolLimits ==
  ASSUME TypeInv, WithinLimits, NEW s \in Sessions, PoolLine(s)
  PROVE  WithinLimits'
<1>1. PICK x \in SesRec, m \in Msg, done \in SUBSET Nat : PoolStep(s, x, m, done)
  BY PoolLineShape
<1>2. /\ \A t \in Sessions : t # s => ses'[t] = ses[t]
      /\ ses'[s].queued = x.queued /\ ses'[s].pending = x.pending
  BY <1>1, AfterLine DEF PoolStep
<1>3. x.queued = ses[s].queued /\ x.pending = ses[s].pending \ done
  BY <1>1 DEF PoolStep, Same
<1> QED
  BY <1>2, <1>3, LimitsDrop DEF WithinLimits

LEMMA OthersLimits ==
  ASSUME TypeInv, WithinLimits,
         \/ \E s \in Sessions :
              \/ Connected(s) \/ UpstreamGone(s)
              \/ \E i \in DOMAIN ses[s].out, ok \in BOOLEAN : PoolAnswers(s, i, ok)
              \/ \E d \in Weight : PoolPushes(s, "difficulty", d)
              \/ PoolPushes(s, "reconnect", 1)
         \/ \E c \in Conn : Accept(c) \/ HangUp(c)
         \/ Tick \/ Signal \/ Exit \/ UNCHANGED vars
  PROVE  WithinLimits'
<1>1. ASSUME NEW s \in Sessions, Connected(s)
      PROVE  WithinLimits'
  <2>1. PICK x \in SesRec : Flush(s, x)
    BY <1>1, ConnectedShape
  <2> QED
    BY <2>1, SesUpdated, LimitsStay DEF Flush, Rest
<1>2. ASSUME NEW s \in Sessions, UpstreamGone(s)
      PROVE  WithinLimits'
  <2>1. ses[s] \in SesRec
    BY DEF TypeInv
  <2>2. End(s, ses[s])
    BY <1>2 DEF UpstreamGone
  <2>3. /\ \A t \in Sessions : t # s => ses'[t] = ses[t]
        /\ ses'[s].queued = ses[s].queued /\ ses'[s].pending = ses[s].pending
    BY <2>1, <2>2, AfterLine
  <2> QED
    BY <2>3, LimitsStay
<1>3. ASSUME NEW s \in Sessions, NEW x \in SesRec, NEW d, Says(s, x, d)
      PROVE  WithinLimits'
  <2>1. \A t \in Sessions : ses'[t].queued = ses[t].queued /\ ses'[t].pending = ses[t].pending
    BY <1>3, SesUpdated DEF Says, Same
  <2> QED
    BY <2>1, LimitsStay
<1>4. ASSUME NEW s \in Sessions, NEW i \in DOMAIN ses[s].out, NEW ok \in BOOLEAN,
             PoolAnswers(s, i, ok)
      PROVE  WithinLimits'
  <2>1. PICK x \in SesRec, d \in Msg, m \in Req :
          /\ Says(s, x, d)
          /\ shares' = IF m.share = 0 THEN shares ELSE [shares EXCEPT ![m.share].verdict = ok]
    BY <1>4, AnswersShape
  <2> QED
    BY <1>3, <2>1
<1>5. ASSUME NEW s \in Sessions, NEW kind \in {"difficulty", "reconnect"},
             NEW value \in Weight \cup {1}, PoolPushes(s, kind, value)
      PROVE  WithinLimits'
  BY <1>3, <1>5, PushesShape
<1>6. ASSUME NEW c \in Conn, HangUp(c)
      PROVE  WithinLimits'
  <2>1. \A t \in Sessions : ses'[t].queued = ses[t].queued /\ ses'[t].pending = ses[t].pending
    <3> TAKE t \in Sessions
    <3>1. ses[t] \in SesRec
      BY DEF TypeInv
    <3>2. Ended(ses[t]).queued = ses[t].queued /\ Ended(ses[t]).pending = ses[t].pending
      BY <3>1, EndedRec
    <3>3. ses'[t] = Ended(ses[t]) \/ ses'[t] = ses[t]
      BY <1>6, HangUpShape
    <3> QED
      BY <3>2, <3>3
  <2> QED
    BY <2>1, LimitsStay
<1>7. ASSUME UNCHANGED ses
      PROVE  WithinLimits'
  BY <1>7, LimitsStay
<1> QED
  BY <1>1, <1>2, <1>4, <1>5, <1>6, <1>7 DEF Accept, Tick, Signal, Exit, vars

LEMMA InitLimits == Init => WithinLimits
<1> SUFFICES ASSUME Init
             PROVE  WithinLimits
  OBVIOUS
<1>1. \A s \in Sessions : ses[s].queued = <<>> /\ ses[s].pending = {}
  BY DEF Init, NewSession
<1>2. Len(<<>>) = 0 /\ IsFiniteSet({}) /\ Cardinality({}) = 0
  BY FS_EmptySet
<1>3. 0 <= MaxQueued /\ 0 <= MaxPending
  BY LimitsNat
<1> QED
  BY <1>1, <1>2, <1>3 DEF WithinLimits

\* However fast a miner sends and however slow the pool is, no session holds
\* more for the dial or waits for more answers than it may: a line or a submit
\* too many ends it (session.ts:229-237, 306-312).
THEOREM SpecKeepsLimits == Spec => []WithinLimits
<1>1. TypeInv /\ WithinLimits /\ [Next]_vars => WithinLimits'
  BY MinerLimits, PoolLimits, OthersLimits DEF Next
<1> QED
  BY <1>1, InitLimits, SpecTypeInv, PTL DEF Spec
=============================================================================
