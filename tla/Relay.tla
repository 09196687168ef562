------------------------------- MODULE Relay --------------------------------
(***************************************************************************)
(* The contributor's side: the relay between a miner and the proxy, which  *)
(* passes bytes through and keeps a record of what it could read           *)
(* (apps/worker/src/relay.ts), and the file that record is kept in         *)
(* (ledger.ts).  A miner is at the relay's own machine: it sends a line    *)
(* when the relay reads it, and hears one when the relay writes it.  The   *)
(* proxy is on the other end of a TCP connection; of what Proxy.tla says   *)
(* of it, only its answers and its books matter here.                      *)
(***************************************************************************)
EXTENDS Naturals, Sequences, SequencesExt, FiniteSetsExt

CONSTANTS
  Id,           \* ids a miner gives its requests when it reuses them
  FreshIds,     \* TRUE: every request of a session has an id of its own
  JobsHeld,     \* JOBS_HELD
  WrittenHeld,  \* JOBS_HELD * 4
  MaxShares,    \* bound: submits
  MaxPushes,    \* bound: jobs and new terms the proxy pushes
  MaxSessions,  \* bound: connections of the miner, one after the other
  MaxLosses,    \* bound: times the machine loses power
  None

Outcomes == {"accepted", "rejected", "unanswered"}
Ends == {"newline", "whole", "torn"}
Verdicts == {"accepted", "rejected", "unresolved", "refused"}

ASSUME RelayAssumption ==
  /\ None \notin Nat \cup Verdicts
  /\ FreshIds \in BOOLEAN
  /\ {JobsHeld, WrittenHeld} \subseteq Nat \ {0}
  /\ {MaxShares, MaxPushes, MaxSessions, MaxLosses} \subseteq Nat

VARIABLES
  session,   \* the connection of the miner; open while `up'
  up,        \* FALSE once finish() has run
  tap,       \* the variables of watchSession()
  blind,     \* the directions whose splitter has gone blind
  heard,     \* the jobs of the session, by the number of their push
  file,      \* the ledger: each record, and how much of its line is written
  durable,   \* how many of them the disk is known to hold
  shares,    \* every submit, in order, and what became of it at the proxy
  force,     \* the terms in force at the proxy
  toProxy,   \* submits on their way
  toRelay,   \* answers and pushes on their way
  pushes, losses

proxy == <<force, toProxy, toRelay, pushes>>
vars == <<session, up, tap, blind, heard, file, durable, shares, force, toProxy,
          toRelay, pushes, losses>>

\* Jobs, and terms (extranonce1, difficulty and target, one value for the
\* three), are known by the number of the push that brought them.

NewTap == [terms |-> 0, pending |-> <<>>, jobs |-> <<>>, written |-> <<>>]

JobRecord(j) == [kind |-> "job", job |-> j]
ShareRecord(n, outcome) ==
  [kind |-> "share", share |-> n, terms |-> shares[n].terms, outcome |-> outcome]

TypeOK ==
  /\ session \in 0..MaxSessions /\ up \in BOOLEAN /\ durable \in 0..Len(file)
  /\ blind \subseteq {"miner", "proxy"}
  /\ Range(tap.pending) \subseteq DOMAIN shares
  /\ IsInjective([i \in DOMAIN tap.pending |-> shares[tap.pending[i]].id])
  /\ IsInjective(tap.jobs) /\ Len(tap.jobs) <= JobsHeld
  /\ IsInjective(tap.written) /\ Len(tap.written) <= WrittenHeld
  /\ \A n \in DOMAIN shares :
       /\ shares[n].weight \in 0..MaxPushes \cup {None}
       /\ shares[n].booked \in Verdicts \cup {None}
  /\ \A i \in DOMAIN file :
       /\ file[i].rec.kind = "share" => file[i].rec.outcome \in Outcomes
       /\ file[i].end \in Ends /\ (file[i].end # "newline" => i <= durable)

Init ==
  /\ session = 0 /\ up = FALSE
  /\ tap = NewTap /\ blind = {} /\ heard = <<>>
  /\ file = <<>> /\ durable = 0
  /\ shares = <<>> /\ force = 0 /\ toProxy = <<>> /\ toRelay = <<>>
  /\ pushes = 0 /\ losses = 0

-----------------------------------------------------------------------------
(* ledger.ts                                                               *)

\* appendFileSync() of records, each with its newline.  Nothing waits for the disk.
Lines(recs) == [i \in DOMAIN recs |-> [rec |-> recs[i], end |-> "newline"]]

Appended(recs) == file' = file \o Lines(recs) /\ UNCHANGED durable

\* What a loss of power leaves of f: what the disk is known to hold, and as much
\* more as it happened to, which may stop short of a newline or within a record.
Left(f) == {SubSeq(f, 1, durable)} \cup
  {[SubSeq(f, 1, k) EXCEPT ![k].end = end] : k \in (durable + 1)..Len(f), end \in Ends}

\* A line with no newline runs on into the next, and then neither parses.
Parses(i) ==
  /\ file[i].end = "newline" \/ (file[i].end = "whole" /\ i = Len(file))
  /\ i > 1 => file[i - 1].end = "newline"

\* The records summarise() finds.  Mutant: it stops at a line that does not parse.
CountedToFirst == {i \in DOMAIN file : \A k \in 1..i : Parses(k)}
Counted == {i \in DOMAIN file : Parses(i)}

-----------------------------------------------------------------------------
(* relay.ts: watchSession()                                                *)

\* What resolve() and the writeJob() in it append for a share.  Mutant: the
\* job of an unanswered share is not written.
JobOfAnswered(t, n, outcome) == outcome # "unanswered" /\ ~Contains(t.written, shares[n].job)
JobDue(t, n, outcome) ==
  Contains(t.jobs, shares[n].job) /\ ~Contains(t.written, shares[n].job)

Records(t, n, outcome) ==
  (IF JobDue(t, n, outcome) THEN <<JobRecord(shares[n].job)>> ELSE <<>>)
    \o <<ShareRecord(n, outcome)>>

\* The newest of a Map or Set that drops its oldest entry at its limit.
Newest(s, most) == IF Len(s) > most THEN Tail(s) ELSE s

Resolved(t, n, outcome) ==
  [t EXCEPT !.written = IF JobDue(t, n, outcome)
                        THEN Newest(Append(@, shares[n].job), WrittenHeld) ELSE @]

\* drain(): every open submit, in the order of the Map.
Drained(t) ==
  FoldLeft(LAMBDA acc, n : [tap |-> Resolved(acc.tap, n, "unanswered"),
                            recs |-> acc.recs \o Records(acc.tap, n, "unanswered")],
           [tap |-> t, recs |-> <<>>], t.pending)

\* The submit waiting under an id.  Mutant: the oldest submit waiting.
Oldest(id) == IF tap.pending = <<>> THEN None ELSE Head(tap.pending)
Waiting(id) == LET under == {n \in Range(tap.pending) : shares[n].id = id} IN
               IF under = {} THEN None ELSE CHOOSE n \in under : TRUE

\* pending.set(): a submit that was waiting under the same id is displaced.
Held(n, id) ==
  IF Waiting(id) = None THEN Append(tap.pending, n)
  ELSE [i \in DOMAIN tap.pending |->
          IF tap.pending[i] = Waiting(id) THEN n ELSE tap.pending[i]]

\* An answer settles the submit waiting under its id; others are passed over.
Outcome(m) == IF m.ok THEN "accepted" ELSE "rejected"

AnswerRecords(m) ==
  IF m.kind # "answer" \/ Waiting(m.id) = None THEN <<>>
  ELSE Records(tap, Waiting(m.id), Outcome(m))

Settled(m) ==
  IF Waiting(m.id) = None THEN tap
  ELSE [Resolved(tap, Waiting(m.id), Outcome(m)) EXCEPT
          !.pending = RemoveAt(@, CHOOSE i \in DOMAIN @ : @[i] = Waiting(m.id))]

-----------------------------------------------------------------------------
(* relay.ts: startRelay()                                                  *)

Connect ==
  /\ ~up /\ session < MaxSessions
  /\ session' = session + 1 /\ up' = TRUE
  /\ tap' = NewTap /\ blind' = {} /\ heard' = <<>>
  /\ force' = 0 /\ toProxy' = <<>> /\ toRelay' = <<>>
  /\ UNCHANGED <<file, durable, shares, pushes, losses>>

\* The miner submits a share of a job it heard of: relayed, then read.
Submit(id, j) ==
  LET n == Len(shares) + 1 IN
  /\ up /\ n <= MaxShares
  /\ toProxy' = Append(toProxy, n)
  /\ shares' = Append(shares, [session |-> session, id |-> id, job |-> j,
                               terms |-> tap.terms, read |-> "miner" \notin blind,
                               weight |-> None, booked |-> None, answered |-> FALSE])
  /\ tap' = IF "miner" \in blind THEN tap ELSE [tap EXCEPT !.pending = Held(n, id)]
  /\ UNCHANGED <<session, up, blind, heard, file, durable, force, toRelay, pushes, losses>>

\* The proxy's next line: relayed, then read.  A job is held, and new terms
\* hold from here on.
Receive ==
  /\ up /\ toRelay # <<>>
  /\ toRelay' = Tail(toRelay)
  /\ LET m == Head(toRelay) IN
     \/ /\ "proxy" \in blind
        /\ UNCHANGED <<tap, heard, file, durable>>
     \/ /\ "proxy" \notin blind /\ m.kind = "answer"
        /\ tap' = Settled(m)
        /\ Appended(AnswerRecords(m))
        /\ UNCHANGED heard
     \/ /\ "proxy" \notin blind /\ m.kind = "job"
        /\ tap' = [tap EXCEPT !.jobs = Newest(Append(@, m.push), JobsHeld)]
        /\ heard' = Append(heard, m.push)
        /\ UNCHANGED <<file, durable>>
     \/ /\ "proxy" \notin blind /\ m.kind = "terms"
        /\ tap' = [tap EXCEPT !.terms = m.push]
        /\ UNCHANGED <<heard, file, durable>>
  /\ UNCHANGED <<session, up, blind, shares, force, toProxy, pushes, losses>>

\* A line longer than MAX_STRATUM_LINE_BYTES: relayed, and no longer read.
GoBlind(side) ==
  /\ up /\ blind' = blind \cup {side}
  /\ UNCHANGED <<session, up, tap, heard, file, durable, shares, proxy, losses>>

\* finish(): either socket closes, or the agent closes the relay.  What was in
\* flight is lost.
Finish ==
  /\ up /\ up' = FALSE
  /\ Appended(Drained(tap).recs)
  /\ tap' = NewTap
  /\ toProxy' = <<>> /\ toRelay' = <<>>
  /\ UNCHANGED <<session, blind, heard, shares, force, pushes, losses>>

\* What a handler may be appending: finish(), or that of the next line.
UnderWay == {Drained(tap).recs} \cup
  (IF toRelay = <<>> \/ "proxy" \in blind THEN {} ELSE {AnswerRecords(Head(toRelay))})

\* The machine loses power, perhaps within a handler, or the relay is killed: then
\* the file keeps all that was appended.
PowerLoss ==
  /\ losses < MaxLosses
  /\ losses' = losses + 1
  /\ up' = FALSE /\ tap' = NewTap /\ toProxy' = <<>> /\ toRelay' = <<>>
  /\ \E recs \in UnderWay : file' \in Left(file \o Lines(recs))
  /\ durable' = Len(file')
  /\ UNCHANGED <<session, blind, heard, shares, force, pushes>>

-----------------------------------------------------------------------------
(* External here: the proxy, as Proxy.tla describes it.                    *)

AtProxy == {n \in DOMAIN shares : shares[n].session = session /\ shares[n].weight # None}
Open == {n \in AtProxy : shares[n].booked = None}

\* A submit first times out the oldest of those still open, then is refused if
\* its id is in flight, or else weighed by the proxy's own terms.
ProxyTakes ==
  /\ up /\ toProxy # <<>>
  /\ toProxy' = Tail(toProxy)
  /\ \E late \in {{n \in Open : n < k} : k \in 1..Len(shares)} :
       LET n == Head(toProxy)
           busy == \E o \in Open \ late : shares[o].id = shares[n].id
           Timed(o) == IF o \in late THEN [shares[o] EXCEPT !.booked = "unresolved"]
                       ELSE shares[o]
       IN /\ shares' = [o \in DOMAIN shares |->
               IF o # n THEN Timed(o)
               ELSE [shares[n] EXCEPT !.weight = force, !.answered = busy,
                                      !.booked = IF busy THEN "refused" ELSE None]]
          /\ toRelay' = IF busy THEN Append(toRelay, [kind |-> "answer", ok |-> FALSE,
                                                     id |-> shares[n].id])
                        ELSE toRelay
  /\ UNCHANGED <<session, up, tap, blind, heard, file, durable, force, pushes, losses>>

\* The pool's answer is booked and sent on; a late one is only sent on.
ProxyAnswers(n, ok) ==
  /\ up /\ n \in AtProxy /\ ~shares[n].answered
  /\ shares' = [shares EXCEPT ![n].answered = TRUE,
       ![n].booked = IF @ = None THEN IF ok THEN "accepted" ELSE "rejected" ELSE @]
  /\ toRelay' = Append(toRelay, [kind |-> "answer", id |-> shares[n].id, ok |-> ok])
  /\ UNCHANGED <<session, up, tap, blind, heard, file, durable, force, toProxy, pushes, losses>>

ProxyPushes(kind) ==
  /\ up /\ pushes < MaxPushes
  /\ pushes' = pushes + 1
  /\ toRelay' = Append(toRelay, [kind |-> kind, push |-> pushes'])
  /\ force' = IF kind = "terms" THEN pushes' ELSE force
  /\ UNCHANGED <<session, up, tap, blind, heard, file, durable, shares, toProxy, losses>>

Ids == IF FreshIds THEN {Len(shares) + 1} ELSE Id

Next ==
  \/ Connect \/ Receive \/ Finish \/ PowerLoss \/ ProxyTakes
  \/ \E id \in Ids, j \in Range(heard) : Submit(id, j)
  \/ \E side \in {"miner", "proxy"} : GoBlind(side)
  \/ \E n \in DOMAIN shares, ok \in BOOLEAN : ProxyAnswers(n, ok)
  \/ \E kind \in {"job", "terms"} : ProxyPushes(kind)

Spec == Init /\ [][Next]_vars

-----------------------------------------------------------------------------
(* What must hold.                                                         *)

RecordsOf(n) == {i \in DOMAIN file :
  file[i].end # "torn" /\ file[i].rec.kind = "share" /\ file[i].rec.share = n}

\* Every submit the relay could read is in the ledger exactly once, or waits to
\* be, and only a loss of power may take it out; and the ledger never turns a
\* verdict of the proxy into another: what it calls accepted was booked so or
\* had timed out there, what it calls rejected was not booked as accepted
\* (ledger.ts:5-6, relay.ts:163-171, 206-210).
EverySubmitRecorded ==
  \A n \in DOMAIN shares :
    /\ Cardinality(RecordsOf(n)) <= 1
    /\ shares[n].read /\ losses = 0
       => (n \in Range(tap.pending)) = (RecordsOf(n) = {})
    /\ \A i \in RecordsOf(n) :
         LET outcome == file[i].rec.outcome  booked == shares[n].booked IN
         /\ outcome = "accepted" => booked \in {"accepted", "unresolved"}
         /\ outcome = "rejected" => booked \notin {"accepted", None}

\* A share whose job was one of the last JOBS_HELD when its outcome was written
\* has that job before it in the file (relay.ts:40-41, worker/src/index.ts:91-94).
Recently == {heard[i] : i \in {k \in DOMAIN heard : k > Len(heard) - JobsHeld}}

JobBesideWhileHeld ==
  [][\A i \in DOMAIN file' \ DOMAIN file :
       file'[i].rec.kind = "share" /\ shares[file'[i].rec.share].job \in Recently
       => \E k \in 1..(i - 1) : file'[k].rec = JobRecord(shares[file'[i].rec.share].job)]_vars

\* Of the records a loss of power leaves in the file it makes two unreadable at
\* most, however much is appended afterwards: the one whose newline it took and
\* the first of the next start (ledger.ts:57-66, 79-81, 99-106).
Whole == {i \in DOMAIN file : file[i].end # "torn"}
LossSpoilsTwo == Cardinality(Whole \ Counted) <= 2 * losses

\* Claimed at ledger.ts:79-81: a rig that lost power leaves a torn last line, and
\* a contributor reads the rest of their history.
OnlyTornLineLost == Whole \subseteq Counted
RestStays == [][\A i \in DOMAIN file : i < Len(file) => i \in DOMAIN file']_file

\* Claimed at worker/src/index.ts:91-94: each share can be checked against the
\* job beside it.
JobBeside ==
  \A i \in DOMAIN file : file[i].rec.kind = "share"
    => \E k \in 1..(i - 1) : file[k].rec = JobRecord(shares[file[i].rec.share].job)

\* Claimed at relay.ts:163-165 and worker/src/test/relay.test.ts:166: what the
\* tap calls accepted is what the books of the proxy call accepted.
AcceptedIsBooked ==
  \A n \in DOMAIN shares : \A i \in RecordsOf(n) :
    file[i].rec.outcome = "accepted" => shares[n].booked = "accepted"

\* Claimed at ledger.ts:72: the difficulty summed here is the figure a payout
\* weighs.
WeighedAsBooked ==
  \A n \in DOMAIN shares : \A i \in RecordsOf(n) :
    file[i].rec.outcome = "accepted" => file[i].rec.terms = shares[n].weight
=============================================================================
