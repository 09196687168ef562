------------------------------- MODULE Agent --------------------------------
(***************************************************************************)
(* The contributor's agent, `zgrove-worker run' (apps/worker/src/index.ts, *)
(* keystore.ts, client.ts, miner.ts): load or create the rig's key, attest,*)
(* start a relay and a miner, wait for the miner to exit, close the relay, *)
(* wait, attest again; and the signals that ask it to stop.  Beside it the *)
(* contributor may run `init', which loads or creates the same key.  A     *)
(* miner is configured; without one the agent prints its session and is    *)
(* done (index.ts:124-132).  The control plane and the miner are around    *)
(* it: a session is known by its number, and so are the relay and the      *)
(* miner that were started for it; a key by the command that made it.      *)
(***************************************************************************)
EXTENDS Naturals, FiniteSets

CONSTANTS
  FirstRetry,   \* FIRST_RETRY_MS, in any unit
  MaxRetry,     \* MAX_RETRY_MS
  MaxSessions,  \* bound: sessions the control plane hands out
  MaxRefusals,  \* bound: attestations in a row that come to nothing
  None, Absent, Empty

ASSUME AgentAssumption ==
  /\ FirstRetry \in Nat \ {0} /\ MaxRetry \in Nat /\ FirstRetry <= MaxRetry
  /\ MaxSessions \in Nat /\ MaxRefusals \in Nat
  /\ None \notin 1..MaxSessions
  /\ Absent # Empty /\ {None, Absent, Empty} \cap {"init", "run", "older"} = {}

VARIABLES
  keyFile,   \* Absent, Empty, or the key in it
  at,        \* at[c]: where command c is in loadOrCreateKeyPair()
  holds,     \* holds[c]: the key it returned
  pc,        \* where runAgent() is
  handled,   \* TRUE: the signal handlers are registered
  stopping,
  retryMs,
  wait,      \* what the current or last sleep() was called with
  current,   \* the session `current' was launched for
  next,      \* the session attest() returned
  miners,    \* the sessions whose miner is running
  relays,    \* the sessions whose relay is listening
  told,      \* the sessions whose miner got SIGTERM
  issued,    \* the sessions the control plane handed out
  refusals   \* attestations that failed since the last one that did not

keystore == <<keyFile, at, holds>>
vars == <<keystore, pc, handled, stopping, retryMs, wait, current, next, miners, relays,
          told, issued, refusals>>
world == <<miners, relays, told>>

Session == 1..MaxSessions
Command == {"init", "run"}
Key == Command \cup {"older"}

KeyTypeOK ==
  /\ keyFile \in Key \cup {Absent, Empty}
  /\ at \in [Command -> {"load", "create", "write", "done", "failed"}]
  /\ holds \in [Command -> Key \cup {None}]

AgentTypeOK ==
  /\ pc \in {"challenge", "attest", "launch", "mining", "closing", "sleeping",
             "returned", "thrown"}
  /\ handled \in BOOLEAN /\ stopping \in BOOLEAN
  /\ retryMs \in FirstRetry..MaxRetry /\ wait \in FirstRetry..MaxRetry
  /\ current \in Session \cup {None} /\ next \in Session \cup {None}
  /\ miners \cup relays \cup told \subseteq Session
  /\ issued \in 0..MaxSessions /\ refusals \in 0..MaxRefusals

TypeOK == KeyTypeOK /\ AgentTypeOK

Init ==
  /\ keyFile \in {Absent, "older"}
  /\ at = [c \in Command |-> "load"] /\ holds = [c \in Command |-> None]
  /\ pc = "challenge" /\ handled = FALSE /\ stopping = FALSE
  /\ retryMs = FirstRetry /\ wait = FirstRetry
  /\ current = None /\ next = None
  /\ miners = {} /\ relays = {} /\ told = {}
  /\ issued = 0 /\ refusals = 0

-----------------------------------------------------------------------------
(* loadOrCreateKeyPair(), by either command.                               *)

\* A command that throws; of runAgent() it is the end.
Throws(c) ==
  /\ at' = [at EXCEPT ![c] = "failed"]
  /\ pc' = IF c = "run" THEN "thrown" ELSE pc
  /\ UNCHANGED <<keyFile, holds>>

Returns(c, k) ==
  /\ at' = [at EXCEPT ![c] = "done"] /\ holds' = [holds EXCEPT ![c] = k]
  /\ UNCHANGED pc

\* A file is refused when it holds no key, or can be read by others.
LoadKey(c) ==
  /\ at[c] = "load"
  /\ \/ keyFile \in Key /\ Returns(c, keyFile) /\ UNCHANGED keyFile
     \/ keyFile = Absent /\ at' = [at EXCEPT ![c] = "create"] /\ UNCHANGED <<keyFile, holds, pc>>
     \/ keyFile # Absent /\ Throws(c)

\* O_EXCL.  Mutant: whatever is there is truncated.
Truncatable == TRUE
Creatable == keyFile = Absent

CreateFile(c) ==
  /\ at[c] = "create"
  /\ \/ /\ Creatable
        /\ keyFile' = Empty /\ at' = [at EXCEPT ![c] = "write"]
        /\ UNCHANGED <<holds, pc>>
     \/ ~Creatable /\ Throws(c)

WriteKey(c) == at[c] = "write" /\ keyFile' = c /\ Returns(c, c)

UseKeystore(c) ==
  /\ c = "run" => pc # "thrown"
  /\ LoadKey(c) \/ CreateFile(c) \/ WriteKey(c)
  /\ UNCHANGED <<handled, stopping, retryMs, wait, current, next, world, issued, refusals>>

\* `init' is killed, or is run once more.
InitKilled ==
  /\ at["init"] \in {"create", "write"} /\ at' = [at EXCEPT !["init"] = "failed"]
  /\ UNCHANGED <<keyFile, holds, pc, handled, stopping, retryMs, wait, current, next, world,
                 issued, refusals>>

InitAgain ==
  /\ at["init"] \in {"done", "failed"} /\ at' = [at EXCEPT !["init"] = "load"]
  /\ UNCHANGED <<keyFile, holds, pc, handled, stopping, retryMs, wait, current, next, world,
                 issued, refusals>>

-----------------------------------------------------------------------------
(* attest(): two round trips.                                              *)

\* Back at the head of the loop.
Loop == IF stopping THEN "returned" ELSE "mining"

ChallengeAnswered ==
  /\ at["run"] = "done"
  /\ pc = "challenge" /\ pc' = "attest"
  /\ UNCHANGED <<keystore, handled, stopping, retryMs, wait, current, next, world, issued, refusals>>

\* The first attestation is not caught: it ends the program.  The later ones
\* are, and the loop goes round with the miner and the relay it already had.
Refused ==
  /\ pc' = IF handled THEN Loop ELSE "thrown"
  /\ refusals < MaxRefusals /\ refusals' = refusals + 1
  /\ UNCHANGED <<keystore, handled, stopping, retryMs, wait, current, next, world>>

\* A refusal, a timeout, or an answer that is not a session.
AttestFails ==
  /\ at["run"] = "done"
  /\ pc \in {"challenge", "attest"} /\ Refused /\ UNCHANGED issued

\* The session is the control plane's; its answer comes too late or not at all.
AnswerLost ==
  /\ pc = "attest" /\ issued < MaxSessions /\ issued' = issued + 1
  /\ Refused

NotReset == retryMs  \* a plausible slip: the backoff survives a success
Reset == FirstRetry

Attested ==
  /\ pc = "attest" /\ pc' = "launch"
  /\ issued < MaxSessions /\ issued' = issued + 1 /\ next' = issued'
  /\ retryMs' = Reset /\ refusals' = 0
  /\ UNCHANGED <<keystore, handled, stopping, wait, current, world>>

-----------------------------------------------------------------------------
(* launch(), and the loop around it.                                       *)

\* startRelay() and startMiner(); the first time, the handlers come with it.
\* A miner that cannot be spawned counts as one that exited.
Launch ==
  /\ pc = "launch" /\ pc' = Loop
  /\ relays' = relays \cup {next} /\ current' = next /\ handled' = TRUE
  /\ \E started \in SUBSET {next} : miners' = miners \cup started
  /\ UNCHANGED <<keystore, stopping, retryMs, wait, next, told, issued, refusals>>

\* The relay finds no port.
LaunchThrows ==
  /\ pc = "launch" /\ pc' = "thrown"
  /\ UNCHANGED <<keystore, handled, stopping, retryMs, wait, current, next, world, issued, refusals>>

GoneOrTold == current \notin miners \/ current \in told  \* a plausible slip: told is taken for gone
Gone == current \notin miners

MinerExited ==
  /\ pc = "mining" /\ Gone /\ pc' = "closing"
  /\ UNCHANGED <<keystore, handled, stopping, retryMs, wait, current, next, world, issued, refusals>>

\* close() resolves whether the relay still listens or was closed before.
StillListening == current \in relays  \* a plausible slip: closing twice never resolves
Closable == TRUE

CloseRelay ==
  /\ pc = "closing" /\ Closable
  /\ relays' = relays \ {current}
  /\ pc' = IF stopping THEN "returned" ELSE "sleeping"
  /\ wait' = IF stopping THEN wait ELSE retryMs
  /\ UNCHANGED <<keystore, handled, stopping, retryMs, current, next, miners, told, issued, refusals>>

Doubled == IF retryMs * 2 < MaxRetry THEN retryMs * 2 ELSE MaxRetry

Wake ==
  /\ pc = "sleeping" /\ pc' = "challenge"
  /\ retryMs' = Doubled
  /\ UNCHANGED <<keystore, handled, stopping, wait, current, next, world, issued, refusals>>

-----------------------------------------------------------------------------
(* Signals, and the miner.                                                 *)

StopsNothing == {}  \* a plausible slip: the handler only sets the flag
Stopped == miners \cap {current}

Signal ==
  /\ handled /\ stopping = FALSE /\ stopping' = TRUE
  /\ told' = told \cup Stopped
  /\ UNCHANGED <<keystore, pc, handled, retryMs, wait, current, next, miners, relays, issued, refusals>>

\* A second one does what the first did, to the miner there is by then.
SignalAgain ==
  /\ handled /\ stopping /\ ~(Stopped \subseteq told)
  /\ told' = told \cup Stopped
  /\ UNCHANGED <<keystore, pc, handled, stopping, retryMs, wait, current, next, miners, relays, issued, refusals>>

\* Until there are handlers a signal ends the process, which has no miner yet.
Killed ==
  /\ ~handled /\ pc # "thrown" /\ pc' = "thrown"
  /\ UNCHANGED <<keystore, handled, stopping, retryMs, wait, current, next, world, issued, refusals>>

MinerExits ==
  /\ \E s \in miners : miners' = miners \ {s}
  /\ UNCHANGED <<keystore, pc, handled, stopping, retryMs, wait, current, next, relays, told, issued, refusals>>

Step ==
  \/ UseKeystore("run")
  \/ ChallengeAnswered \/ AttestFails \/ AnswerLost \/ Attested
  \/ Launch \/ LaunchThrows \/ MinerExited \/ CloseRelay \/ Wake

Next ==
  \/ Step \/ Signal \/ SignalAgain \/ Killed \/ MinerExits
  \/ UseKeystore("init") \/ InitKilled \/ InitAgain

Spec == Init /\ [][Next]_vars

\* The process runs, requests time out, a miner that is told to exit does, and
\* the control plane does not refuse for ever.
FairSpec ==
  /\ Spec
  /\ WF_vars(Step)
  /\ SF_vars(ChallengeAnswered) /\ SF_vars(Attested) /\ SF_vars(Launch)
  /\ WF_vars(MinerExits /\ miners \cap told # miners' \cap told)

-----------------------------------------------------------------------------
(* What must hold.                                                         *)

\* The key an agent attests with, and the one init told the contributor to
\* enrol, is the rig's key for good: the one in the file (keystore.ts:43-60).
KeyIsKept == \A c \in Command : holds[c] # None => keyFile = holds[c]

\* Two miners of one rig never run together: a launch waits for the miner
\* before it, through refusals and signals (index.ts:157-189).
OneMiner == Cardinality(miners) <= 1

\* A running miner has its own relay up, on a session no other was started for:
\* the relay outlives the miner and the token is attested afresh
\* (index.ts:158-160, 168-188).
MinerHasItsRelay == miners \subseteq relays /\ relays \subseteq {current}

\* The loop waits FIRST_RETRY_MS after a success and twice as long after each
\* refusal, up to MAX_RETRY_MS (index.ts:26-27, 165-187).
WaitFitsRefusals ==
  pc = "sleeping" =>
    wait = IF FirstRetry * 2^refusals < MaxRetry THEN FirstRetry * 2^refusals ELSE MaxRetry

\* A rig whose miner died mines again, unless it was told to stop or its relay
\* found no port, however many attestations are refused on the way
\* (index.ts:168-188).
MinesAgain ==
  (handled /\ miners = {}) ~>
    (miners # {} \/ stopping \/ pc = "thrown" \/ issued = MaxSessions \/ refusals = MaxRefusals)

\* A signal taken while the miner runs ends all three: miner, relay and agent
\* (index.ts:150-163).
SignalIsHeeded ==
  (stopping /\ pc = "mining") ~> (pc = "returned" /\ miners = {} /\ relays = {})
=============================================================================
