---------------------------- MODULE AgentProofs -----------------------------
(* Proofs about Agent, for every number of sessions and refusals.          *)
EXTENDS Agent, FiniteSetTheorems, TLAPS

\* Whatever runs or listens was started for the current session; away from the
\* launch and the wait for the exit nothing does.
AtRest == {"challenge", "attest", "launch", "sleeping"}

\* A command that is about to write a key is alone with an empty file.
Alone(c) == at[c] = "write" => keyFile = Empty /\ \A d \in Command : at[d] = "write" => d = c

KeyInv ==
  /\ KeyTypeOK
  /\ KeyIsKept
  /\ \A c \in Command : Alone(c)

AgentInv ==
  /\ AgentTypeOK
  /\ miners \subseteq relays
  /\ relays \subseteq {current}
  /\ pc \in AtRest => relays = {}
  /\ pc = "closing" => miners = {}
  /\ pc = "launch" => next \in Session

\* The wait after n refusals.
Capped(n) == IF FirstRetry * 2^n < MaxRetry THEN FirstRetry * 2^n ELSE MaxRetry

\* While it attests, the agent already has the wait it will use if that fails.
\* Only a first attestation that fails ends the program, so only then does the
\* wait lag behind.
BackoffInv ==
  /\ pc \in {"launch", "mining", "closing", "sleeping"} => retryMs = Capped(refusals)
  /\ pc \in {"challenge", "attest"} =>
       IF handled THEN retryMs = Capped(refusals + 1)
       ELSE retryMs = FirstRetry /\ refusals = 0
  /\ pc = "sleeping" => wait = retryMs
  /\ pc \in {"mining", "closing", "sleeping"} => handled

IInv == KeyInv /\ AgentInv /\ BackoffInv

-----------------------------------------------------------------------------
(* The key.                                                                *)

\* Two commands that load or create the key leave each other's alone.
LEMMA UseKeystoreKeyInv ==
  ASSUME KeyInv, NEW c \in Command, UseKeystore(c)
  PROVE  KeyInv'
<1> USE AgentAssumption DEF KeyInv, KeyTypeOK, KeyIsKept, Alone, Command, Key
<1>1. CASE LoadKey(c)
  BY <1>1 DEF LoadKey, Returns, Throws
<1>2. CASE CreateFile(c)
  BY <1>2 DEF CreateFile, Creatable, Throws
<1>3. CASE WriteKey(c)
  BY <1>3 DEF WriteKey, Returns
<1> QED
  BY <1>1, <1>2, <1>3 DEF UseKeystore

\* Nothing else touches the key.
LEMMA NextKeyInv == KeyInv /\ [Next]_vars => KeyInv'
<1> SUFFICES ASSUME KeyInv, [Next]_vars
             PROVE  KeyInv'
  OBVIOUS
<1>1. CASE UseKeystore("run") \/ UseKeystore("init")
  BY <1>1, UseKeystoreKeyInv DEF Command
<1>2. CASE InitKilled \/ InitAgain
  BY <1>2 DEF InitKilled, InitAgain, KeyInv, KeyTypeOK, KeyIsKept, Alone, Command
<1>3. CASE UNCHANGED keystore
  BY <1>3 DEF keystore, KeyInv, KeyTypeOK, KeyIsKept, Alone
<1>4. CASE \/ Step /\ ~UseKeystore("run")
           \/ Signal \/ SignalAgain \/ Killed \/ MinerExits \/ UNCHANGED vars
  <2>1. UNCHANGED keystore
    BY <1>4 DEF Step, ChallengeAnswered, AttestFails, AnswerLost, Attested, Refused, Launch,
                LaunchThrows, MinerExited, CloseRelay, Wake, Signal, SignalAgain, Killed,
                MinerExits, vars
  <2> QED
    BY <1>3, <2>1
<1> QED
  BY <1>1, <1>2, <1>4 DEF Next

-----------------------------------------------------------------------------
(* The agent.                                                              *)

\* Its part of the invariant holds when it is started.
LEMMA InitAgentInv == Init => AgentInv
<1> SUFFICES ASSUME Init
             PROVE  AgentInv
  OBVIOUS
<1>1. AgentTypeOK
  <2>1. miners \cup relays \cup told \subseteq Session
    BY DEF Init
  <2>2. handled \in BOOLEAN /\ stopping \in BOOLEAN
    BY Zenon DEF Init
  <2>3. retryMs \in FirstRetry..MaxRetry /\ wait \in FirstRetry..MaxRetry
    BY AgentAssumption DEF Init
  <2>4. issued \in 0..MaxSessions /\ refusals \in 0..MaxRefusals
    BY AgentAssumption DEF Init
  <2> QED
    BY <2>1, <2>2, <2>3, <2>4, Zenon DEF Init, AgentTypeOK
<1> QED
  BY <1>1 DEF Init, AgentInv, AtRest

\* No step disturbs it.
LEMMA NextAgentInv == AgentInv /\ [Next]_vars => AgentInv'
<1> SUFFICES ASSUME AgentInv, [Next]_vars
             PROVE  AgentInv'
  OBVIOUS
<1> USE AgentAssumption DEF AgentInv, AgentTypeOK, AtRest, Session
<1>1. CASE ChallengeAnswered
  BY <1>1 DEF ChallengeAnswered, world
<1>2. CASE AttestFails
  BY <1>2 DEF AttestFails, Refused, Loop, world
<1>3. CASE AnswerLost
  BY <1>3 DEF AnswerLost, Refused, Loop, world
<1>4. CASE Attested
  BY <1>4 DEF Attested, Reset, world
<1>5. CASE Launch
  <2>1. PICK started \in SUBSET {next} : miners' = miners \cup started
    BY <1>5 DEF Launch
  <2>2. next \in Session
    BY <1>5 DEF Launch
  <2> QED
    BY <1>5, <2>1, <2>2 DEF Launch, Loop
<1>6. CASE LaunchThrows
  BY <1>6 DEF LaunchThrows, world
<1>7. CASE MinerExited
  BY <1>7 DEF MinerExited, Gone, world
<1>8. CASE CloseRelay
  BY <1>8 DEF CloseRelay
<1>9. CASE Wake
  <2>1. Doubled \in FirstRetry..MaxRetry
    BY DEF Doubled
  <2> QED
    BY <1>9, <2>1 DEF Wake, world
<1>10. CASE Signal
  BY <1>10 DEF Signal, Stopped
<1>11. CASE SignalAgain
  BY <1>11 DEF SignalAgain, Stopped
<1>12. CASE Killed
  BY <1>12 DEF Killed, world
<1>13. CASE MinerExits
  BY <1>13 DEF MinerExits
<1>14. CASE UNCHANGED vars
  BY <1>14 DEF vars
<1>15. CASE UseKeystore("run") \/ UseKeystore("init")
  BY <1>15 DEF UseKeystore, LoadKey, CreateFile, WriteKey, Returns, Throws, world
<1>16. CASE InitKilled \/ InitAgain
  BY <1>16 DEF InitKilled, InitAgain, world
<1> QED
  BY <1>1, <1>2, <1>3, <1>4, <1>5, <1>6, <1>7, <1>8, <1>9, <1>10, <1>11,
     <1>12, <1>13, <1>14, <1>15, <1>16 DEF Next, Step

-----------------------------------------------------------------------------
(* The wait between attestations.                                          *)

\* With one more element there are twice as many subsets.
LEMMA SubsetsDouble ==
  ASSUME NEW S, IsFiniteSet(S), NEW x, x \notin S
  PROVE  Cardinality(SUBSET (S \cup {x})) = 2 * Cardinality(SUBSET S)
<1> DEFINE With == {T \in SUBSET (S \cup {x}) : x \in T}
<1>1. IsFiniteSet(SUBSET S) /\ Cardinality(SUBSET S) \in Nat
  BY FS_SUBSET, FS_CardinalityType
<1>2. IsFiniteSet(With) /\ Cardinality(With) = Cardinality(SUBSET S)
  <2> DEFINE f == [T \in SUBSET S |-> T \cup {x}]
  <2>1. f \in [SUBSET S -> With]
    OBVIOUS
  <2>2. \A T, U \in SUBSET S : f[T] = f[U] => T = U
    OBVIOUS
  <2>3. \A U \in With : \E T \in SUBSET S : f[T] = U
    <3> TAKE U \in With
    <3>1. U \ {x} \in SUBSET S /\ (U \ {x}) \cup {x} = U
      OBVIOUS
    <3> QED
      BY <3>1
  <2> HIDE DEF f, With
  <2>4. f \in Bijection(SUBSET S, With)
    BY <2>1, <2>2, <2>3 DEF Bijection, Injection, Surjection, IsInjective
  <2> QED
    BY <1>1, <2>4, FS_Bijection DEF ExistsBijection
<1>3. SUBSET (S \cup {x}) = (SUBSET S) \cup With /\ (SUBSET S) \cap With = {}
  OBVIOUS
<1> HIDE DEF With
<1>4. Cardinality((SUBSET S) \cap With) = 0
  <2>1. (SUBSET S) \cap With = {} /\ Cardinality({}) = 0
    BY <1>3, FS_EmptySet
  <2> QED
    BY <2>1
<1>5. Cardinality((SUBSET S) \cup With) =
        Cardinality(SUBSET S) + Cardinality(With) - Cardinality((SUBSET S) \cap With)
  BY <1>1, <1>2, FS_Union
<1>6. Cardinality((SUBSET S) \cup With) = 2 * Cardinality(SUBSET S)
  BY <1>1, <1>2, <1>4, <1>5
<1> QED
  BY <1>3, <1>6, Zenon

\* Powers of two, which the provers do not know, count subsets.
LEMMA PowersDouble == \A n \in Nat : 2^n \in Nat \ {0} /\ 2^(n + 1) = 2 * 2^n
<1> TAKE n \in Nat
<1>1. IsFiniteSet(1..n) /\ Cardinality(1..n) = n
  BY FS_Interval
<1>2. 2^n = Cardinality(SUBSET (1..n)) /\ Cardinality(SUBSET (1..n)) \in Nat \ {0}
  <2>1. IsFiniteSet(SUBSET (1..n)) /\ Cardinality(SUBSET (1..n)) = 2^Cardinality(1..n)
    BY <1>1, FS_SUBSET
  <2>2. {} \in SUBSET (1..n)
    OBVIOUS
  <2> QED
    BY <1>1, <2>1, <2>2, FS_CardinalityType, FS_EmptySet
<1>3. /\ 1..(n + 1) = (1..n) \cup {n + 1} /\ n + 1 \notin 1..n
      /\ IsFiniteSet(1..(n + 1)) /\ Cardinality(1..(n + 1)) = n + 1
  <2>1. 1..(n + 1) = (1..n) \cup {n + 1} /\ n + 1 \notin 1..n
    OBVIOUS
  <2>2. IsFiniteSet((1..n) \cup {n + 1}) /\ Cardinality((1..n) \cup {n + 1}) = n + 1
    BY <1>1, <2>1, FS_AddElement
  <2> QED
    BY <2>1, <2>2
<1>4. 2^(n + 1) = Cardinality(SUBSET (1..(n + 1)))
  BY <1>3, FS_SUBSET
<1> QED
  BY <1>1, <1>2, <1>3, <1>4, SubsetsDouble
\* The wait after a success, and after one more refusal.
LEMMA CappedZero == Capped(0) = FirstRetry
<1>1. 2^0 = 1
  OBVIOUS
<1>2. PICK k : k = 2^0
  OBVIOUS
<1> QED
  BY <1>1, <1>2, AgentAssumption DEF Capped

LEMMA CappedDoubles ==
  ASSUME NEW n \in Nat, retryMs = Capped(n)
  PROVE  Doubled = Capped(n + 1)
<1>1. PICK k \in Nat \ {0} : k = 2^n /\ 2 * k = 2^(n + 1)
  BY PowersDouble
<1>2. FirstRetry * (2 * k) = (FirstRetry * k) * 2 /\ FirstRetry * k \in Nat
  BY AgentAssumption
<1>3. PICK m \in Nat : m = FirstRetry * k
  BY <1>2
<1>4. retryMs = IF m < MaxRetry THEN m ELSE MaxRetry
  BY <1>1, <1>3 DEF Capped
<1>5. Capped(n + 1) = IF m * 2 < MaxRetry THEN m * 2 ELSE MaxRetry
  BY <1>1, <1>2, <1>3 DEF Capped
<1> QED
  BY <1>4, <1>5, AgentAssumption DEF Doubled

LEMMA NextBackoffInv == AgentInv /\ BackoffInv /\ [Next]_vars => BackoffInv'
<1> SUFFICES ASSUME AgentInv, BackoffInv, [Next]_vars
             PROVE  BackoffInv'
  OBVIOUS
<1>0. refusals \in Nat /\ FirstRetry = Capped(0)
  BY CappedZero, AgentAssumption DEF AgentInv, AgentTypeOK
<1> HIDE DEF Capped
<1>1. CASE ChallengeAnswered \/ MinerExited
  BY <1>1 DEF ChallengeAnswered, MinerExited, BackoffInv
<1>2. CASE AttestFails \/ AnswerLost
  BY <1>2 DEF AttestFails, AnswerLost, Refused, Loop, BackoffInv
<1>3. CASE Attested
  BY <1>0, <1>3 DEF Attested, Reset, BackoffInv
<1>4. CASE Launch \/ LaunchThrows
  BY <1>4 DEF Launch, LaunchThrows, Loop, BackoffInv
<1>5. CASE CloseRelay
  BY <1>5 DEF CloseRelay, BackoffInv
<1>6. CASE Wake
  BY <1>0, <1>6, CappedDoubles DEF Wake, BackoffInv
<1>7. CASE Signal \/ SignalAgain \/ Killed \/ MinerExits \/ InitKilled \/ InitAgain \/ UNCHANGED vars
  BY <1>7 DEF Signal, SignalAgain, Killed, MinerExits, InitKilled, InitAgain, vars, BackoffInv
<1>8. CASE UseKeystore("run") \/ UseKeystore("init")
  BY <1>8 DEF UseKeystore, LoadKey, CreateFile, WriteKey, Returns, Throws, BackoffInv
<1> QED
  BY <1>1, <1>2, <1>3, <1>4, <1>5, <1>6, <1>7, <1>8 DEF Next, Step

\* The inductive invariant holds at first, and is kept.
LEMMA InitIInv == Init => IInv
<1>1. Init => KeyInv
  BY AgentAssumption DEF Init, KeyInv, KeyTypeOK, KeyIsKept, Alone, Key, Command
<1>2. Init => BackoffInv
  BY DEF Init, BackoffInv
<1> QED
  BY <1>1, <1>2, InitAgentInv DEF IInv

LEMMA NextIInv == IInv /\ [Next]_vars => IInv'
  BY NextKeyInv, NextAgentInv, NextBackoffInv DEF IInv

\* The inductive invariant holds of every behaviour.
THEOREM SpecIInv == Spec => []IInv
  BY InitIInv, NextIInv, PTL DEF Spec

\* Every variable keeps its type: the wait stays between FIRST_RETRY_MS and
\* MAX_RETRY_MS, whatever they are (index.ts:26-27, 165-187).
THEOREM SpecTypeOK == Spec => []TypeOK
<1>1. IInv => TypeOK
  BY DEF IInv, KeyInv, AgentInv, TypeOK
<1> QED
  BY <1>1, SpecIInv, PTL

\* A rig never runs two miners at a time (index.ts:157-189).
THEOREM SpecOneMiner == Spec => []OneMiner
<1>1. IInv => OneMiner
  <2> SUFFICES ASSUME IInv
               PROVE  Cardinality(miners) <= 1
    BY DEF OneMiner
  <2>1. miners \subseteq {current}
    BY DEF IInv, AgentInv
  <2>2. IsFiniteSet({current}) /\ Cardinality({current}) = 1
    BY FS_Singleton
  <2> QED
    BY <2>1, <2>2, FS_Subset
<1> QED
  BY <1>1, SpecIInv, PTL

\* A running miner has its own relay up (index.ts:158-160, 168-188).
THEOREM SpecMinerHasItsRelay == Spec => []MinerHasItsRelay
<1>1. IInv => MinerHasItsRelay
  BY DEF IInv, AgentInv, MinerHasItsRelay
<1> QED
  BY <1>1, SpecIInv, PTL

\* However `run' and `init' interleave, wherever `init' dies and however often
\* it is repeated, nobody holds a key that is not the file's (keystore.ts:43-60).
THEOREM SpecKeyIsKept == Spec => []KeyIsKept
<1>1. IInv => KeyIsKept
  BY DEF IInv, KeyInv
<1> QED
  BY <1>1, SpecIInv, PTL

\* Between attestations the agent waits FIRST_RETRY_MS doubled once for every
\* refusal since the last success, never beyond MAX_RETRY_MS, whatever the two
\* constants are and however many refusals there were (index.ts:26-27, 165-187).
THEOREM SpecWaitFitsRefusals == Spec => []WaitFitsRefusals
<1>1. IInv => WaitFitsRefusals
  BY DEF IInv, BackoffInv, WaitFitsRefusals, Capped
<1> QED
  BY <1>1, SpecIInv, PTL
=============================================================================
