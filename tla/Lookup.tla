------------------------------- MODULE Lookup -------------------------------
(***************************************************************************)
(* What `zgrove settle' asks the chain before it records a payment made by *)
(* hand (wallet/lookup.ts, lightwalletd.ts, chain.ts): is the transaction  *)
(* there, in which block, and is it shielded.  lightwalletd answers over   *)
(* one gRPC stream whose headers, data, trailers and end arrive one by one *)
(* and may stop anywhere; an explorer answers in one JSON body.  A lookup  *)
(* that was not answered is asked again, of either service.                *)
(***************************************************************************)
EXTENDS Naturals, FiniteSets

CONSTANTS
  Transaction,  \* records [coinbase, inputs, decoded, orchard, ancient], see below
  MaxHeight,    \* bound: the block a transaction is mined in
  MaxAsked,     \* bound: lookups
  Unavailable,  \* the exception ExplorerUnavailable
  Null

Found == [kind : {"found"}, height : 0..MaxHeight]
\* Answers: the transaction, that there is none (NOT_FOUND, or data without an
\* entry for it), an empty success (some servers say it so), a failure said in
\* the service's own way, something that cannot be read, and something that can
\* and is another message: from an explorer JSON in another shape, an error
\* included; from a server one without a transaction's bytes.
Unread == {"garbage", "other"}
Replies == Found \cup [kind : {"not_found", "empty", "failure"} \cup Unread]

Facts == [exists : {TRUE}, blockHeight : {Null} \cup 1..MaxHeight, shielded : BOOLEAN]
Absent == [exists |-> FALSE, blockHeight |-> Null, shielded |-> FALSE]

\* inputs: it has transparent inputs.  decoded: it has Sapling or Sprout parts,
\* which explorers decode.  orchard: it has an Orchard bundle, which they do
\* not.  ancient: it is older than Overwinter.  What does not spend anything
\* transparent spends from a shielded pool; a coinbase always has an input.
\* Null and the exception are nothing that a service answers.
ASSUME LookupAssumption ==
  /\ \A t \in Transaction :
       /\ DOMAIN t = {"coinbase", "inputs", "decoded", "orchard", "ancient"}
       /\ \A k \in DOMAIN t : t[k] \in BOOLEAN
       /\ ~t.inputs => (t.decoded \/ t.orchard) /\ ~t.coinbase
  /\ MaxHeight \in Nat /\ MaxAsked \in Nat
  /\ Null # Unavailable
  /\ \A e \in {Null, Unavailable} : e \notin Replies \cup Facts \cup {Absent}

VARIABLES
  tx,       \* the transaction asked about
  mined,    \* its block, or 0
  asked,    \* lookups so far
  source,   \* the service that was asked last
  reply,    \* what that service set out to answer
  status,   \* grpc-status as noted
  got,      \* parts of the body received: none, the frame's prefix, all of it
  ended,    \* the service has said all it will say
  settled,  \* done() has been called
  verdict   \* what transaction() returned or threw

lookupVars == <<tx, mined, asked, source, reply, status, got, ended, settled, verdict>>

LookupTypeOK ==
  /\ tx \in Transaction /\ mined \in 0..MaxHeight /\ asked \in 0..MaxAsked
  /\ source \in {Null, "lightwalletd", "explorer"}
  /\ reply \in Replies \cup {Null}
  /\ status \in {"0", "5", "14"} /\ got \in 0..2
  /\ ended \in BOOLEAN /\ settled \in BOOLEAN
  /\ verdict \in {Null, Unavailable} \cup Facts \cup {Absent}

LookupInit ==
  /\ tx \in Transaction /\ mined = 0 /\ asked = 0 /\ source = Null
  /\ reply = Null /\ status = "0" /\ got = 0 /\ ended = FALSE
  /\ settled = FALSE /\ verdict = Null

-----------------------------------------------------------------------------
(* Reading an answer.                                                      *)

BlockHeight(h) == IF h > 0 THEN h ELSE Null

\* Read from the bytes: the count of transparent inputs is zero.
SpendsNothingTransparent == ~tx.inputs

\* readAnswer(): the status, then the length the frame states, then the
\* message.  The prefix alone states its length; got = 2 is all of it.
WholeWhenStarted == got > 0  \* a plausible slip: the stated length is not checked
Whole == IF reply.kind = "empty" THEN got > 0 ELSE got = 2

\* decodeRawTransaction() skips the fields it does not know, and no data is an
\* empty success, also where the transaction was to follow.
Message ==
  CASE reply.kind = "garbage" -> Unavailable
    [] reply.kind \in {"empty", "other"} \/ (reply.kind = "found" /\ got < 2) -> Absent
    [] reply.kind = "found" /\ got = 2 ->
         IF tx.ancient THEN Unavailable
         ELSE [exists |-> TRUE, blockHeight |-> BlockHeight(reply.height),
               shielded |-> SpendsNothingTransparent]

ReadAnswer ==
  CASE status = "5" -> Absent
    [] status = "14" -> Unavailable
    [] status = "0" -> IF got > 0 /\ Whole THEN Message ELSE Unavailable

\* What the explorer shows of the transaction: the parts it decodes, and no
\* input for a coinbase.
InputCountIsZero == ~tx.inputs \/ tx.coinbase
SpentOnlyShielded == ~tx.coinbase /\ InputCountIsZero
DecodedOnly == tx.decoded  \* a plausible slip: what explorers decode is all there is
Shielded == tx.decoded \/ SpentOnlyShielded

-----------------------------------------------------------------------------
(* The call.                                                               *)

\* createTransactionLookup() picks the service; one that did not answer is
\* asked again, or the other is.
Ask ==
  /\ verdict \in {Null, Unavailable} /\ (verdict = Null => source = Null)
  /\ asked < MaxAsked /\ asked' = asked + 1
  /\ source' \in {"lightwalletd", "explorer"}
  /\ reply' = Null /\ status' = "0" /\ got' = 0 /\ ended' = FALSE
  /\ settled' = FALSE /\ verdict' = Null
  /\ UNCHANGED <<tx, mined>>

\* done(): the first of end, error and timeout decides.
Done(v) ==
  /\ settled' = TRUE
  /\ verdict' = IF settled THEN verdict ELSE v

\* The server sees the transaction, in its block or not yet, or has not seen it.
ServerReplies ==
  /\ source = "lightwalletd" /\ reply = Null /\ ~ended
  /\ reply' \in {r \in Replies : r.kind = "found" => r.height = mined}
  /\ UNCHANGED <<tx, mined, asked, source, status, got, ended, settled, verdict>>

\* response and trailers: note() keeps the status wherever it comes.
Noted ==
  /\ reply # Null /\ ~ended
  /\ reply.kind \in {"not_found", "failure"}
  /\ status' = IF reply.kind = "not_found" THEN "5" ELSE "14"
  /\ UNCHANGED <<tx, mined, asked, source, reply, got, ended, settled, verdict>>

Data ==
  /\ reply # Null /\ ~ended
  /\ got < CASE reply.kind \in {"found"} \cup Unread -> 2
             [] reply.kind = "empty" -> 1
             [] reply.kind \in {"not_found", "failure"} -> 0
  /\ got' = got + 1
  /\ UNCHANGED <<tx, mined, asked, source, reply, status, ended, settled, verdict>>

\* The stream ends: when all has been said, or cut anywhere.
End ==
  /\ reply # Null /\ ~ended /\ ended' = TRUE
  /\ Done(ReadAnswer)
  /\ UNCHANGED <<tx, mined, asked, source, reply, status, got>>

\* The connection breaks with an error; more than one may be reported.
Error ==
  /\ source = "lightwalletd" /\ asked > 0
  /\ ended' = TRUE /\ Done(Unavailable)
  /\ UNCHANGED <<tx, mined, asked, source, reply, status, got>>

\* The timer of the session, which done() closes.
TimedOut ==
  /\ source = "lightwalletd" /\ asked > 0
  /\ Done(Unavailable)
  /\ UNCHANGED <<tx, mined, asked, source, reply, status, got, ended>>

\* fetch() and its JSON: no answer or none in JSON, a failure said as the default
\* explorer says it, an answer without the transaction, or what the explorer
\* shows of it.  JSON that has no `data' has no transaction in it either.
ExplorerAnswers ==
  /\ source = "explorer" /\ ~settled /\ ended' = TRUE
  /\ reply' \in {r \in Replies : r.kind # "empty" /\ (r.kind = "found" => r.height = mined)}
  /\ Done(CASE reply'.kind \in {"failure", "garbage"} -> Unavailable
            [] reply'.kind \in {"not_found", "other"} -> Absent
            [] reply'.kind = "found" ->
                 [exists |-> TRUE, blockHeight |-> BlockHeight(reply'.height),
                  shielded |-> Shielded])
  /\ UNCHANGED <<tx, mined, asked, source, status, got>>

\* The network mines it meanwhile.
Mined ==
  /\ mined = 0 /\ mined' \in 1..MaxHeight
  /\ UNCHANGED <<tx, asked, source, reply, status, got, ended, settled, verdict>>

LookupNext ==
  \/ Ask \/ ServerReplies \/ Noted \/ Data \/ End \/ Error \/ TimedOut
  \/ ExplorerAnswers \/ Mined

LookupSpec == LookupInit /\ [][LookupNext]_lookupVars

-----------------------------------------------------------------------------
(* What must hold.                                                         *)

\* A payment is reported as not there only on an answer heard to its end that
\* names no transaction: no failure that is said as one, no cut, error or timeout
\* reads as "it never happened", whichever part of the answer had arrived
\* (lightwalletd.ts:177-206, chain.ts:56-82).  That such an answer may be about
\* something else is FailureIsNotAbsence below.
NoAnswerIsNotAbsence ==
  verdict = Absent =>
    /\ ended /\ reply.kind \in {"not_found", "empty", "other"}
    /\ source = "lightwalletd" =>
         status = "5" \/ got = IF reply.kind = "empty" THEN 1 ELSE 2

\* What is reported of a transaction is true of it, whichever service was asked
\* after however many failures: it was seen in that block, one that is called
\* shielded has a shielded part, and a payment out of a shielded pool is called
\* so through either service, though explorers decode no Orchard
\* (chain.ts:93-122, lightwalletd.ts:144-157).
FactsAreTrue ==
  verdict \in Facts =>
    /\ verdict.blockHeight # Null => verdict.blockHeight = mined
    /\ verdict.shielded => tx.decoded \/ tx.orchard
    /\ ~tx.inputs => verdict.shielded

\* Claimed at chain.ts:14-20: what did not answer is kept apart from the answer
\* that there is no such transaction.  An error in a shape that is not the
\* default explorer's is not (chain.ts:75-84).
FailureIsNotAbsence == verdict = Absent => reply.kind \in {"not_found", "empty"}

\* Claimed at chain.ts:10: shielded is true when the transaction has shielded
\* components.
ShieldedMeansComponents ==
  verdict \in Facts => (verdict.shielded <=> tx.decoded \/ tx.orchard)
=============================================================================
