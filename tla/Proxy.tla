------------------------------- MODULE Proxy --------------------------------
(***************************************************************************)
(* The stratum proxy of apps/orchestrator: miner sockets (server.ts), the  *)
(* map of sessions (index.ts), one session per miner socket with its own   *)
(* upstream socket (session.ts, upstream.ts), and the share accounting the *)
(* sessions feed (packages/db/src/accounting.ts).                          *)
(*                                                                         *)
(* One event loop runs everything: a socket's chunk of lines is handled    *)
(* line by line in one turn, and nothing else runs meanwhile (variable     *)
(* turn).  The miners and the upstream pool are external.                  *)
(***************************************************************************)
EXTENDS Naturals, Sequences, SequencesExt, FiniteSetsExt, Sums

CONSTANTS
  Conn,        \* miner connections the process accepts
  Worker,      \* identities a login resolves to
  Weight,      \* difficulties upstream sets, other than the initial 1
  Id,          \* JSON-RPC ids miners use when they reuse ids
  FreshIds,    \* TRUE: a miner gives every request of a connection a new id
  MaxQueued,   \* maxQueuedMessages
  MaxPending,  \* maxPendingSubmits
  Timeout,     \* submitTimeoutMs
  ChunkLines,  \* most lines one chunk carries
  MaxLines,    \* bound: lines a miner sends
  MaxStopLines,  \* bound: the same, when the process is told to stop meanwhile
  MaxPushes,   \* bound: set_difficulty and client.reconnect the pool pushes
  MaxDown,     \* bound: pool lines on their way to a session
  MaxTime,     \* bound: the clock
  MaxSession,  \* bound: sessions created
  None

Outcomes == {"accepted", "rejected", "unresolved"}

ASSUME ProxyAssumption ==
  /\ None \notin Conn \cup Worker \cup Outcomes
  /\ Weight \subseteq Nat \ {0}
  /\ FreshIds \in BOOLEAN
  /\ {MaxQueued, MaxPending, ChunkLines, MaxLines, MaxStopLines, MaxPushes,
      MaxDown, MaxTime, MaxSession} \subseteq Nat
  /\ Timeout \in Nat \ {0} /\ ChunkLines # 0

VARIABLES
  sock,      \* sock[c]: the miner socket
  sessions,  \* sessions[c]: index.ts's map, 0 when it has no entry
  ses,       \* ses[s]: the variables of session s
  shares,    \* every submit relayed or queued, in order; the Map pending of a
             \* session is a set of their numbers: it is in the order of insertion
  books,     \* books[w]: the sums of the worker's share buckets
  lines,     \* lines[c]: lines received from the miner
  pushes, now,
  stopping,  \* TRUE: a signal was taken, and the server no longer listens
  turn       \* whose chunk the event loop is in the middle of

vars == <<sock, sessions, ses, shares, books, lines, pushes, now, stopping, turn>>

Sessions == 1..MaxSession
Ids == (IF FreshIds THEN 1..MaxLines ELSE Id) \cup {None}

\* What is sent upstream: a request, the submit it is (0 for the others), and
\* the miner's line it came from.  The parameters are left out.
Requests == [method: {"authorize", "submit", "other"}, id: Ids, share: Nat, line: Nat]

\* What the pool sends: an answer, a new difficulty, or client.reconnect.
PoolMessages == [kind: {"answer", "difficulty", "reconnect"}, id: Ids, ok: BOOLEAN,
                 value: Weight \cup {1}]

NewSession == [conn |-> None, upstream |-> "null", identity |-> None,
               difficulty |-> 1, ended |-> FALSE, queued |-> <<>>,
               pending |-> {}, out |-> <<>>, answered |-> {}, down |-> <<>>]

NoTurn == [side |-> "none", at |-> None, left |-> 0]
Exited == [side |-> "exited", at |-> None, left |-> 0]

Live(s) == ses[s].upstream \in {"dialing", "ready"}

TypeOK ==
  /\ sock \in [Conn -> {"new", "open", "closed"}]
  /\ sessions \in [Conn -> 0..MaxSession]
  /\ \A s \in Sessions :
       /\ ses[s].conn \in Conn \cup {None}
       /\ ses[s].upstream \in {"null", "dialing", "ready", "closed"}
       /\ ses[s].identity \in Worker \cup {None}
       /\ ses[s].difficulty \in Weight \cup {1}
       /\ ses[s].ended \in BOOLEAN
       /\ ses[s].queued \in Seq(Requests) /\ Len(ses[s].queued) <= MaxQueued
       /\ ses[s].pending \subseteq DOMAIN shares
       /\ Cardinality(ses[s].pending) <= MaxPending
       /\ ses[s].out \in Seq(Requests)
       /\ ses[s].answered \subseteq DOMAIN ses[s].out
       /\ ses[s].down \in Seq(PoolMessages)
  /\ \A n \in DOMAIN shares :
       shares[n] \in [session: Sessions, worker: Worker, key: Ids,
                      weight: Weight \cup {1}, at: 0..MaxTime,
                      verdict: BOOLEAN \cup {None}, outcome: Outcomes \cup {None}]
  /\ books \in [Worker -> [Outcomes \cup {"weight"} -> Nat]]

Init ==
  /\ sock = [c \in Conn |-> "new"]
  /\ sessions = [c \in Conn |-> 0]
  /\ ses = [s \in Sessions |-> NewSession]
  /\ shares = <<>>
  /\ books = [w \in Worker |-> [o \in Outcomes \cup {"weight"} |-> 0]]
  /\ lines = [c \in Conn |-> 0]
  /\ pushes = 0 /\ now = 0 /\ stopping = FALSE /\ turn = NoTurn

-----------------------------------------------------------------------------
(* The event loop.                                                         *)

\* One more line of a chunk, either the first of a chunk that just arrived or
\* the next of the one being handled.  The chunk is handled to its end even
\* when a line of it destroys the socket.
Line(side, at, mayStart, available) ==
  \/ /\ turn = NoTurn /\ mayStart
     /\ \E more \in 0..(ChunkLines - 1) :
          /\ more < available
          /\ turn' = IF more = 0 THEN NoTurn
                     ELSE [side |-> side, at |-> at, left |-> more]
  \/ /\ turn.side = side /\ turn.at = at
     /\ turn' = IF turn.left = 1 THEN NoTurn ELSE [turn EXCEPT !.left = @ - 1]

-----------------------------------------------------------------------------
(* session.ts                                                              *)

\* The difficulty kept with the submit.  Mutant: the one now in force.
WeightNow(n) == ses[shares[n].session].difficulty
WeightOf(n) == shares[n].weight

\* emit() and accounting.recordShare(): one count per share, and the weight of
\* the submit for accepted ones only.
Gain(S, outcome) == IF outcome = "accepted" THEN Sum([n \in S |-> WeightOf(n)], S) ELSE 0

Book(S, outcome) ==
  [w \in Worker |->
     LET mine == {n \in S : shares[n].worker = w} IN
     [books[w] EXCEPT
        ![outcome] = @ + Cardinality(mine),
        !["weight"] = @ + Gain(mine, outcome)]]

\* pending.delete().
Drop(v, S) == [v EXCEPT !.pending = @ \ S]

Marked(S, outcome) ==
  [n \in DOMAIN shares |-> IF n \in S THEN [shares[n] EXCEPT !.outcome = outcome]
                           ELSE shares[n]]

\* The session goes on with the variables v.
Keep(s, v) == /\ ses' = [ses EXCEPT ![s] = v]
              /\ sessions' = IF v.ended THEN sessions ELSE [sessions EXCEPT ![v.conn] = s]
              /\ UNCHANGED sock

\* end(): both sockets are destroyed.  Closing the miner's reports the
\* disconnect, once per socket, and that removes the map's entry.
\* Mutant: the upstream socket is left to itself.
EndedAlone(v) == [v EXCEPT !.ended = TRUE]
Ended(v) == [v EXCEPT !.ended = TRUE,
                      !.upstream = IF @ = "null" THEN @ ELSE "closed"]

End(s, v) ==
  LET c == v.conn IN
  IF v.ended THEN Keep(s, v)
  ELSE /\ ses' = [ses EXCEPT ![s] = Ended(v)]
       /\ sock' = [sock EXCEPT ![c] = "closed"]
       /\ sessions' = [sessions EXCEPT ![c] = IF sock[c] = "open" THEN 0 ELSE s]

\* ensureUpstream() and forward().
Forward(s, v, m) ==
  LET u == [v EXCEPT !.upstream = IF @ = "null" THEN "dialing" ELSE @] IN
  \/ /\ u.upstream = "ready"
     /\ Keep(s, [u EXCEPT !.out = Append(@, m)])
  \/ /\ u.upstream # "ready" /\ Len(u.queued) < MaxQueued
     /\ Keep(s, [u EXCEPT !.queued = Append(@, m)])
  \/ /\ u.upstream # "ready" /\ Len(u.queued) >= MaxQueued
     /\ End(s, u)

Request(method, id, share, c) ==
  [method |-> method, id |-> id, share |-> share, line |-> lines[c] + 1]

\* One socket belongs to one worker.
SecondLogin(v, w) == v.identity \notin {None, w}

\* handleAuthorize(): w is what resolveLogin makes of the login, None when it
\* is refused.
Authorize(s, v, c, id, w) ==
  /\ \/ w = None /\ Keep(s, v)
     \/ w # None /\ SecondLogin(v, w) /\ End(s, v)
     \/ /\ w # None /\ ~SecondLogin(v, w)
        /\ Forward(s, [v EXCEPT !.identity = w], Request("authorize", id, 0, c))
  /\ UNCHANGED <<shares, books>>

Overdue(n) == now - shares[n].at >= Timeout

\* expirePending(): from the oldest, up to the first still in time.
Expired(v) == {n \in v.pending : \A k \in v.pending : k <= n => Overdue(k)}

InFlight(v, key) == \E n \in v.pending : shares[n].key = key

Full(v) == Cardinality(v.pending) >= MaxPending

\* handleSubmit()
Submit(s, v, c, id) ==
  LET late == Expired(v)
      u == Drop(v, late)
      n == Len(shares) + 1
  IN
  \/ /\ v.identity = None
     /\ Keep(s, v)
     /\ UNCHANGED <<shares, books>>
  \/ /\ v.identity # None
     /\ books' = Book(late, "unresolved")
     /\ \/ /\ Full(u)
           /\ End(s, u)
           /\ shares' = Marked(late, "unresolved")
        \/ /\ ~Full(u) /\ InFlight(u, id)
           /\ Keep(s, u)
           /\ shares' = Marked(late, "unresolved")
        \/ /\ ~Full(u) /\ ~InFlight(u, id)
           /\ shares' = Append(Marked(late, "unresolved"),
                [session |-> s, worker |-> v.identity, key |-> id,
                 weight |-> v.difficulty, at |-> now, verdict |-> None,
                 outcome |-> None])
           /\ Forward(s, [u EXCEPT !.pending = @ \cup {n}],
                      Request("submit", id, n, c))

\* The ids the miner may give its next request; a submit may have none.
NextIds(c) == IF FreshIds THEN {lines[c] + 1} ELSE Id

LineBound == IF stopping THEN MaxStopLines ELSE MaxLines

\* sessionFor() and handleMinerMessage(): a line of the miner.  A connection
\* without an entry in the map gets a new session, whatever its socket is.
MinerLine(c) ==
  /\ lines[c] < LineBound
  /\ Line("miner", c, sock[c] = "open", LineBound - lines[c])
  /\ lines' = [lines EXCEPT ![c] = @ + 1]
  /\ \E s \in Sessions :
       /\ IF sessions[c] # 0 THEN s = sessions[c]
          ELSE ses[s].conn = None /\ \A t \in 1..(s - 1) : ses[t].conn # None
       /\ LET v == [ses[s] EXCEPT !.conn = c] IN
          IF v.ended THEN Keep(s, v) /\ UNCHANGED <<shares, books>>
          ELSE \/ \E id \in NextIds(c), w \in Worker \cup {None} : Authorize(s, v, c, id, w)
               \/ \E id \in NextIds(c) \cup {None} : Submit(s, v, c, id)
               \/ \E id \in NextIds(c) :
                    /\ Forward(s, v, Request("other", id, 0, c))
                    /\ UNCHANGED <<shares, books>>
  /\ UNCHANGED <<pushes, now, stopping>>

\* resolveSubmit(): the answer is matched by the text of its id alone.
\* Mutant: an answer is taken for the oldest submit.
ResolvedOldest(v, m) ==
  {n \in v.pending : m.kind = "answer" /\ m.id # None /\ n = Min(v.pending)}
Resolved(v, m) ==
  {n \in v.pending : m.kind = "answer" /\ m.id # None /\ shares[n].key = m.id}

\* onMessage(): a line of the upstream pool.
PoolLine(s) ==
  LET v == ses[s]  m == Head(v.down)
      done == Resolved(v, m)
      outcome == IF m.kind = "answer" /\ m.ok THEN "accepted" ELSE "rejected"
      rest == [v EXCEPT !.down = Tail(@)]
  IN
  /\ v.down # <<>>
  /\ Line("pool", s, v.upstream = "ready", Len(v.down))
  /\ \/ /\ m.kind = "reconnect" /\ End(s, rest)
     \/ /\ m.kind = "difficulty" /\ Keep(s, [rest EXCEPT !.difficulty = m.value])
     \/ /\ m.kind = "answer"
        /\ Keep(s, Drop(rest, done))
  /\ books' = Book(done, outcome)
  /\ shares' = Marked(done, outcome)
  /\ UNCHANGED <<lines, pushes, now, stopping>>

\* onReady(): the queue is flushed in one turn.
\* Mutants: from its end; or not at all.
FlushedBackwards(v) == [v EXCEPT !.out = @ \o Reverse(v.queued), !.queued = <<>>]
NotFlushed(v) == v
Flushed(v) == [v EXCEPT !.out = @ \o v.queued, !.queued = <<>>]

Connected(s) ==
  /\ turn = NoTurn
  /\ ses[s].upstream = "dialing"
  /\ ses' = [ses EXCEPT ![s] = [Flushed(@) EXCEPT !.upstream = "ready"]]
  /\ UNCHANGED <<sock, sessions, shares, books, lines, pushes, now, stopping, turn>>

\* onClose(): the dial fails or times out, or the pool closes or errors.
UpstreamGone(s) ==
  /\ turn = NoTurn
  /\ Live(s)
  /\ End(s, ses[s])
  /\ UNCHANGED <<shares, books, lines, pushes, now, stopping, turn>>

-----------------------------------------------------------------------------
(* server.ts and index.ts                                                  *)

\* Mutant: the listening server is left open when the process is told to stop.
StillListening == TRUE
Listening == ~stopping

Accept(c) == /\ turn = NoTurn
             /\ sock[c] = "new" /\ Listening
             /\ sock' = [sock EXCEPT ![c] = "open"]
             /\ UNCHANGED <<sessions, ses, shares, books, lines, pushes, now, stopping, turn>>

\* The peer closes, the socket errors, idles or overflows: onDisconnect.
HangUp(c) ==
  /\ turn = NoTurn
  /\ sock[c] = "open"
  /\ sock' = [sock EXCEPT ![c] = "closed"]
  /\ sessions' = [sessions EXCEPT ![c] = 0]
  /\ ses' = IF sessions[c] = 0 THEN ses
            ELSE [ses EXCEPT ![sessions[c]] = IF @.ended THEN @ ELSE Ended(@)]
  /\ UNCHANGED <<shares, books, lines, pushes, now, stopping, turn>>

\* SIGINT, SIGTERM.
Signal ==
  /\ turn = NoTurn
  /\ \A c \in Conn : lines[c] <= MaxStopLines
  /\ ~stopping /\ stopping' = TRUE
  /\ UNCHANGED <<sock, sessions, ses, shares, books, lines, pushes, now, turn>>

\* server.close() calls back: the last miner is gone, and so is the process.
Exit ==
  /\ turn = NoTurn
  /\ stopping /\ \A c \in Conn : sock[c] # "open"
  /\ turn' = Exited
  /\ UNCHANGED <<sock, sessions, ses, shares, books, lines, pushes, now, stopping>>

-----------------------------------------------------------------------------
(* External: the upstream pool and the clock.                              *)

\* The pool answers each request once, in any order, under the request's id.
\* Its answer to a submit is its verdict on that share.
PoolAnswers(s, i, ok) ==
  LET m == ses[s].out[i] IN
  /\ turn = NoTurn
  /\ ses[s].upstream = "ready" /\ Len(ses[s].down) < MaxDown
  /\ i \in DOMAIN ses[s].out \ ses[s].answered
  /\ ses' = [ses EXCEPT ![s].answered = @ \cup {i},
               ![s].down = Append(@, [kind |-> "answer", id |-> m.id, ok |-> ok,
                                      value |-> 1])]
  /\ shares' = IF m.share = 0 THEN shares
               ELSE [shares EXCEPT ![m.share].verdict = ok]
  /\ UNCHANGED <<sock, sessions, books, lines, pushes, now, stopping, turn>>

PoolPushes(s, kind, value) ==
  /\ turn = NoTurn
  /\ ses[s].upstream = "ready"
  /\ Len(ses[s].down) < MaxDown /\ pushes < MaxPushes
  /\ pushes' = pushes + 1
  /\ ses' = [ses EXCEPT ![s].down = Append(@, [kind |-> kind, id |-> None, ok |-> FALSE,
                                              value |-> value])]
  /\ UNCHANGED <<sock, sessions, shares, books, lines, now, stopping, turn>>

\* Before the first submit nothing looks at the clock.
Tick == /\ turn = NoTurn
        /\ now < MaxTime /\ shares # <<>>
        /\ now' = now + 1
        /\ UNCHANGED <<sock, sessions, ses, shares, books, lines, pushes, stopping, turn>>

Next ==
  \/ \E c \in Conn : Accept(c) \/ HangUp(c) \/ MinerLine(c)
  \/ \E s \in Sessions :
       \/ PoolLine(s) \/ Connected(s) \/ UpstreamGone(s)
       \/ \E i \in DOMAIN ses[s].out, ok \in BOOLEAN : PoolAnswers(s, i, ok)
       \/ \E d \in Weight : PoolPushes(s, "difficulty", d)
       \/ PoolPushes(s, "reconnect", 1)
  \/ Tick \/ Signal \/ Exit

Spec == Init /\ [][Next]_vars

\* A dial connects or fails within the connect timeout, and the event loop
\* finishes the chunk it is in.
Fairness == /\ \A s \in Sessions :
                 WF_vars(ses[s].upstream = "dialing" /\ (Connected(s) \/ UpstreamGone(s)))
            /\ \A s \in Sessions : WF_vars(turn # NoTurn /\ PoolLine(s))
            /\ \A c \in Conn : WF_vars(turn # NoTurn /\ MinerLine(c))
            /\ WF_vars(Exit)

FairSpec == Spec /\ Fairness

-----------------------------------------------------------------------------
(* What must hold.                                                         *)

Counted(w, o) == {n \in DOMAIN shares : shares[n].worker = w /\ shares[n].outcome = o}

\* Every submit relayed is either waiting in the session that relayed it or
\* counted exactly once, in the books of the one worker its socket authorized
\* as, and weighs what the pool asked for when it was sent, however answers,
\* late answers, retunes, timeouts, second logins and the ends of sessions
\* interleave (session.ts:40-43, 110-147, 254).
BookedOnce ==
  /\ \A n \in DOMAIN shares :
       /\ shares[n].outcome = None <=> n \in ses[shares[n].session].pending
       /\ shares[n].worker = ses[shares[n].session].identity
  /\ \A w \in Worker, o \in Outcomes : books[w][o] = Cardinality(Counted(w, o))

WeighedOnce ==
  \A w \in Worker :
    books[w]["weight"] =
      Sum([n \in DOMAIN shares |-> shares[n].weight], Counted(w, "accepted"))

EveryShareOnce == BookedOnce /\ WeighedOnce

\* A share is booked as accepted only if upstream accepted that very share, and
\* as rejected only if it rejected it (stratum.ts:62-66, ARCHITECTURE.md:66).
CreditIsEarned ==
  \A n \in DOMAIN shares :
    /\ shares[n].outcome = "accepted" => shares[n].verdict = TRUE
    /\ shares[n].outcome = "rejected" => shares[n].verdict = FALSE

\* Upstream gets the requests in the order the miner sent them, whether they
\* waited for the dial or not, with an authorize before the first submit, and
\* no relayed submit is missing from a live session (session.ts:155-161, 221).
InOrder ==
  \A s \in Sessions :
    LET all == ses[s].out \o ses[s].queued IN
    /\ \A i, j \in DOMAIN all : i < j => all[i].line < all[j].line
    /\ \A j \in DOMAIN all : all[j].method = "submit" =>
         \E i \in 1..(j - 1) : all[i].method = "authorize"
    /\ ~ses[s].ended =>
         \A n \in DOMAIN shares : shares[n].session = s =>
           \E i \in DOMAIN all : all[i].share = n

\* The two sockets of a session live and die together: the upstream socket of
\* a connection's first session does not outlive its miner's, and no miner is
\* left connected to a session that has ended (index.ts:138-140,
\* session.ts:197-202, 343-350).  NothingLeftOpen below is about the others.
First(s) == \A t \in 1..(s - 1) : ses[t].conn # ses[s].conn

Paired ==
  /\ \A s \in Sessions :
       Live(s) /\ First(s) => sock[ses[s].conn] = "open" /\ ~ses[s].ended
  /\ \A c \in Conn : sock[c] = "open" /\ sessions[c] # 0 =>
       ~ses[sessions[c]].ended /\ ses[sessions[c]].upstream # "closed"

\* A request held for the dial is relayed, or its session ends: the connect
\* timeout leaves no third way (upstream.ts:39-41, session.ts:229-236).
QueuedIsRelayed ==
  \A s \in Sessions :
    ses[s].queued # <<>> ~> ses[s].queued = <<>> \/ ses[s].ended \/ turn = Exited

\* A process told to stop is gone once its last miner is, whatever sessions are
\* still dialing or have submits open (index.ts:186-195).  A miner that goes on
\* mining is not made to leave.
ExitsWhenEmpty ==
  stopping /\ (\A c \in Conn : sock[c] # "open") ~> turn = Exited

\* Claimed at index.ts:138: a miner hanging up never leaves a socket open
\* against the pool.
NothingLeftOpen == \A s \in Sessions : Live(s) => sock[ses[s].conn] = "open"

\* Claimed at session.ts:60: onShare is called once per submit, however it
\* ended.  No submit of a session that is over is still unreported.
EverySubmitReported ==
  \A n \in DOMAIN shares : ses[shares[n].session].ended => shares[n].outcome # None
=============================================================================
