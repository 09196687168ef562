------------------------------ MODULE Dispatch ------------------------------
(***************************************************************************)
(* Paying a recorded round: the dispatch columns of payout_rounds          *)
(* (packages/db/src/payouts.ts, createDispatch) and the command-line       *)
(* processes that drive them at the same time: send and send --resume      *)
(* (cli/send.ts, wallet/dispatch.ts), settle (cli/settle.ts), anchor and   *)
(* anchor --signature (cli/anchor.ts).  Every SQL statement is one atomic  *)
(* step; between two of them a process awaits the wallet or the network,   *)
(* and may be killed.  The zallet wallet, the Zcash chain and the Solana   *)
(* chain are external and modelled from how src/ uses them.                *)
(***************************************************************************)
CONSTANTS
  Round,     \* rounds recorded as planned
  Payable,   \* those with at least one entry of amountZat > 0
  Proc,      \* command-line processes that may run at the same time
  Op,        \* identifies the z_sendmany calls
  Tx,        \* Zcash transactions
  Sig,       \* Solana memo transactions
  Outcomes,  \* how the wallet may finish an operation
  None

Ends == {"paid", "built", "empty", "failed", "cancelled"}

ASSUME DispatchAssumption ==
  /\ Payable \subseteq Round
  /\ Outcomes \subseteq Ends
  /\ None \notin Round \cup Op \cup Tx \cup Sig \cup {"wallet", "external"}

VARIABLES
  row,      \* row[r]: the dispatch columns of the round
  cli,      \* cli[p]: where process p is, and what it holds in memory
  ops,      \* ops[o]: the z_sendmany call o, as the wallet knows it
  onChain,  \* shielded transactions a lookup finds on Zcash mainnet
  memos     \* memos[s]: the Solana transactions anchor has sent

vars == <<row, cli, ops, onChain, memos>>

States == {"planned", "sending", "sent", "failed"}

Rows == [dispatch: States, op: Op \cup {None}, txid: Tx \cup {None},
         settlement: {None, "wallet", "external"}, anchor: Sig \cup {None}]

Idle == [pc |-> "idle", round |-> None, op |-> None, tx |-> None,
         told |-> None, sig |-> None]

Pcs == {"idle", "reviewed", "claimed", "calling", "polling", "told",
        "resuming", "retold", "looking", "found", "anchoring", "memoed",
        "recovering"}

Clis == [pc: Pcs, round: Round \cup {None}, op: Op \cup {None},
         tx: Tx \cup {None}, told: Ends \cup {"executing", None},
         sig: Sig \cup {None}]

Unused == [state |-> "unused", round |-> None, tx |-> None]

Calls == [state: {"unused", "requested", "refused", "executing"} \cup Ends,
          round: Round \cup {None}, tx: Tx \cup {None}]

\* A Solana transaction is confirmed also when it failed: it is in a block, with
\* an error, and nothing ran that would log the memo.
Confirmed == {"landed", "failed"}

Memos == [state: {"unused", "sent"} \cup Confirmed, round: Round \cup {None},
          tx: Tx \cup {None}]

TypeOK == /\ row \in [Round -> Rows]
          /\ cli \in [Proc -> Clis]
          /\ ops \in [Op -> Calls]
          /\ onChain \subseteq Tx
          /\ memos \in [Sig -> Memos]

Init ==
  /\ row = [r \in Round |-> [dispatch |-> "planned", op |-> None, txid |-> None,
                             settlement |-> None, anchor |-> None]]
  /\ cli = [p \in Proc |-> Idle]
  /\ ops = [o \in Op |-> Unused]
  /\ onChain = {}
  /\ memos = [s \in Sig |-> [state |-> "unused", round |-> None, tx |-> None]]

-----------------------------------------------------------------------------
(* The statements of createDispatch.                                       *)

Write(r, new) == row' = [row EXCEPT ![r] = new]

\* UPDATE ... SET dispatch_state = 'sent', txid, settlement WHERE id = ?
Complete(r, t) ==
  Write(r, [row[r] EXCEPT !.dispatch = "sent", !.txid = t, !.settlement = "wallet"])

\* UPDATE ... SET dispatch_state = 'failed' WHERE id = ?
MarkFailed(r) == Write(r, [row[r] EXCEPT !.dispatch = "failed"])

Goto(p, to) == cli' = [cli EXCEPT ![p].pc = to]

\* The process returns, or throws out of its command.
Exit(p) == cli' = [cli EXCEPT ![p] = Idle]

-----------------------------------------------------------------------------
(* send                                                                    *)

\* load() and planSend(): a planned round that pays somebody.
PlanSend(p, r) ==
  /\ cli[p].pc = "idle"
  /\ row[r].dispatch = "planned"
  /\ r \in Payable
  /\ cli' = [cli EXCEPT ![p] = [Idle EXCEPT !.pc = "reviewed", !.round = r]]
  /\ UNCHANGED <<row, ops, onChain, memos>>

\* Mutant: begin() refuses only a round already sent.
BeginUnlessSent(r) == row[r].dispatch # "sent"

\* begin(): the conditional UPDATE.  A process that does not win it throws.
BeginGuard(r) == row[r].dispatch = "planned"

Begin(p) ==
  LET r == cli[p].round IN
  /\ cli[p].pc = "reviewed"
  /\ \/ /\ BeginGuard(r)
        /\ Write(r, [row[r] EXCEPT !.dispatch = "sending"])
        /\ Goto(p, "claimed")
     \/ /\ ~BeginGuard(r)
        /\ Exit(p)
        /\ UNCHANGED row
  /\ UNCHANGED <<ops, onChain, memos>>

\* z_sendmany leaves the process; o stands for this one request.
SendMany(p, o) ==
  /\ cli[p].pc = "claimed"
  /\ ops[o].state = "unused"
  /\ ops' = [ops EXCEPT ![o] = [state |-> "requested", round |-> cli[p].round,
                                tx |-> None]]
  /\ cli' = [cli EXCEPT ![p].pc = "calling", ![p].op = o]
  /\ UNCHANGED <<row, onChain, memos>>

\* The operation id comes back and is written down in the same turn.
RecordOperation(p) ==
  LET r == cli[p].round  o == cli[p].op IN
  /\ cli[p].pc = "calling"
  /\ ops[o].state \notin {"requested", "refused"}
  /\ Write(r, [row[r] EXCEPT !.op = o])
  /\ Goto(p, "polling")
  /\ UNCHANGED <<ops, onChain, memos>>

\* The call throws: an RPC error, an answer that is no JSON, or the client's
\* timeout, which says nothing of what the wallet does with the request.
SendManyThrows(p) ==
  /\ cli[p].pc = "calling"
  /\ MarkFailed(cli[p].round)
  /\ Exit(p)
  /\ UNCHANGED <<ops, onChain, memos>>

\* Mutants: success taken for payment; only success recognised as an end.
AnswerIgnoresBroadcast(o) ==
  IF ops[o].state \in {"paid", "built"} THEN "paid"
  ELSE IF ops[o].state \in Ends THEN ops[o].state ELSE "executing"
AnswerPaidOnly(o) == IF ops[o].state = "paid" THEN "paid" ELSE "executing"

\* operationStatus(): what the wallet says now; the process acts on it later.
Answer(o) == IF ops[o].state \in Ends THEN ops[o].state ELSE "executing"

AskStatus(p) ==
  LET o == cli[p].op IN
  /\ cli[p].pc \in {"polling", "resuming"}
  /\ cli' = [cli EXCEPT ![p].pc = IF @ = "polling" THEN "told" ELSE "retold",
                        ![p].told = Answer(o), ![p].tx = ops[o].tx]
  /\ UNCHANGED <<row, ops, onChain, memos>>

\* One turn of the polling loop.  Only paid, built and the two failures end
\* it; otherwise the deadline may pass, and the round stays in sending.
Poll(p) ==
  LET r == cli[p].round IN
  /\ cli[p].pc = "told"
  /\ \/ /\ cli[p].told = "paid"
        /\ Complete(r, cli[p].tx)
        /\ Exit(p)
     \/ /\ cli[p].told \in {"built", "failed", "cancelled"}
        /\ MarkFailed(r)
        /\ Exit(p)
     \/ /\ cli[p].told \in {"executing", "empty"}
        /\ cli' = [cli EXCEPT ![p].pc = "polling", ![p].told = None, ![p].tx = None]
        /\ UNCHANGED row
     \/ /\ cli[p].told \in {"executing", "empty"}
        /\ Exit(p)
        /\ UNCHANGED row
  /\ UNCHANGED <<ops, onChain, memos>>

-----------------------------------------------------------------------------
(* send --resume                                                           *)

LoadResume(p, r) ==
  /\ cli[p].pc = "idle"
  /\ row[r].dispatch = "sending"
  /\ row[r].op # None
  /\ cli' = [cli EXCEPT ![p] = [Idle EXCEPT !.pc = "resuming", !.round = r,
                                            !.op = row[r].op]]
  /\ UNCHANGED <<row, ops, onChain, memos>>

Resume(p) ==
  LET r == cli[p].round IN
  /\ cli[p].pc = "retold"
  /\ CASE cli[p].told = "paid" -> Complete(r, cli[p].tx)
       [] cli[p].told \in {"failed", "cancelled"} -> MarkFailed(r)
       [] OTHER -> UNCHANGED row
  /\ Exit(p)
  /\ UNCHANGED <<ops, onChain, memos>>

-----------------------------------------------------------------------------
(* settle                                                                  *)

\* The round is planned when loaded; the operator names the transaction.
LoadSettle(p, r, t) ==
  /\ cli[p].pc = "idle"
  /\ row[r].dispatch = "planned"
  /\ cli' = [cli EXCEPT ![p] = [Idle EXCEPT !.pc = "looking", !.round = r, !.tx = t]]
  /\ UNCHANGED <<row, ops, onChain, memos>>

\* The lookup answers: on the chain with a shielded part, or the command ends.
Lookup(p) ==
  /\ cli[p].pc = "looking"
  /\ IF cli[p].tx \in onChain THEN Goto(p, "found") ELSE Exit(p)
  /\ UNCHANGED <<row, ops, onChain, memos>>

\* Mutant: settling is refused only once the round is sent.
SettleUnlessSent(r) == row[r].dispatch # "sent"

\* settleExternally(): conditional on planned, like begin().
SettleGuard(r) == row[r].dispatch = "planned"

SettleExternally(p) ==
  LET r == cli[p].round IN
  /\ cli[p].pc = "found"
  /\ IF SettleGuard(r)
     THEN Write(r, [row[r] EXCEPT !.dispatch = "sent", !.settlement = "external",
                                  !.txid = cli[p].tx])
     ELSE UNCHANGED row
  /\ Exit(p)
  /\ UNCHANGED <<ops, onChain, memos>>

-----------------------------------------------------------------------------
(* anchor                                                                  *)

Anchorable(r) == /\ row[r].dispatch = "sent"
                 /\ row[r].txid # None
                 /\ row[r].anchor = None

LoadAnchor(p, r) ==
  /\ cli[p].pc = "idle"
  /\ Anchorable(r)
  /\ cli' = [cli EXCEPT ![p] = [Idle EXCEPT !.pc = "anchoring", !.round = r,
                                            !.tx = row[r].txid]]
  /\ UNCHANGED <<row, ops, onChain, memos>>

\* The memo names the round and the transaction read when the command began.
SendMemo(p, s) ==
  /\ cli[p].pc = "anchoring"
  /\ memos[s].state = "unused"
  /\ memos' = [memos EXCEPT ![s] = [state |-> "sent", round |-> cli[p].round,
                                    tx |-> cli[p].tx]]
  /\ cli' = [cli EXCEPT ![p].pc = "memoed", ![p].sig = s]
  /\ UNCHANGED <<row, ops, onChain>>

\* anchor --signature: an earlier memo, believed once its logs show the memo,
\* which logs() gives of no transaction that failed.
LoadRecovery(p, r, s) ==
  /\ cli[p].pc = "idle"
  /\ Anchorable(r)
  /\ cli' = [cli EXCEPT ![p] = [Idle EXCEPT !.pc = "recovering", !.round = r,
                                            !.tx = row[r].txid, !.sig = s]]
  /\ UNCHANGED <<row, ops, onChain, memos>>

\* Mutant: any memo that landed is believed.
MemoLanded(p) == memos[cli[p].sig].state = "landed"

MemoMatches(p) ==
  LET m == memos[cli[p].sig] IN
  m.state = "landed" /\ m.round = cli[p].round /\ m.tx = cli[p].tx

\* The loop that waits for what was sent asks status(), which reads how far a
\* transaction is confirmed and not whether it failed.
MemoConfirmed(p) == memos[cli[p].sig].state \in Confirmed

\* recordAnchor(): only a sent round, and only once, in the UPDATE itself.
AnchorGuard(r) == row[r].dispatch = "sent" /\ row[r].anchor = None

RecordAnchor(p) ==
  LET r == cli[p].round IN
  /\ \/ cli[p].pc = "memoed" /\ MemoConfirmed(p)
     \/ cli[p].pc = "recovering" /\ MemoMatches(p)
  /\ IF AnchorGuard(r)
     THEN Write(r, [row[r] EXCEPT !.anchor = cli[p].sig])
     ELSE UNCHANGED row
  /\ Exit(p)
  /\ UNCHANGED <<ops, onChain, memos>>

\* A kill, a dry run, a deadline, or an RPC that throws: what the process
\* held in memory is gone and nothing is written.
Stop(p) == /\ cli[p].pc # "idle"
           /\ Exit(p)
           /\ UNCHANGED <<row, ops, onChain, memos>>

-----------------------------------------------------------------------------
(* External: the wallet, the operator's own wallet, and the two chains.    *)

Fresh(t) == t \notin onChain /\ \A o \in Op : ops[o].tx # t

\* The wallet takes a request in, or answers it with an error; the client may
\* have given up on it by then.
WalletAnswers(o, to) ==
  /\ ops[o].state = "requested"
  /\ to \in {"executing", "refused"}
  /\ ops' = [ops EXCEPT ![o].state = to]
  /\ UNCHANGED <<row, cli, onChain, memos>>

\* paid: built and broadcast.  built: broadcasting is off, so the operation
\* succeeds and nothing leaves.  empty: a success that names no transaction.
WalletFinishes(o, end) ==
  /\ ops[o].state = "executing"
  /\ \/ /\ end \in {"paid", "built"}
        /\ \E t \in Tx :
             /\ Fresh(t)
             /\ ops' = [ops EXCEPT ![o].state = end, ![o].tx = t]
             /\ onChain' = IF end = "paid" THEN onChain \cup {t} ELSE onChain
     \/ /\ end \notin {"paid", "built"}
        /\ ops' = [ops EXCEPT ![o].state = end]
        /\ UNCHANGED onChain
  /\ UNCHANGED <<row, cli, memos>>

HandPayment(t) == /\ Fresh(t)
                  /\ onChain' = onChain \cup {t}
                  /\ UNCHANGED <<row, cli, ops, memos>>

MemoLands(s, end) == /\ memos[s].state = "sent"
                     /\ memos' = [memos EXCEPT ![s].state = end]
                     /\ UNCHANGED <<row, cli, ops, onChain>>

-----------------------------------------------------------------------------
Command(p) ==
  \/ \E r \in Round : \/ PlanSend(p, r) \/ LoadResume(p, r) \/ LoadAnchor(p, r)
                      \/ \E t \in Tx : LoadSettle(p, r, t)
                      \/ \E s \in Sig : LoadRecovery(p, r, s)
  \/ \E o \in Op : SendMany(p, o)
  \/ \E s \in Sig : SendMemo(p, s)
  \/ Begin(p) \/ RecordOperation(p) \/ SendManyThrows(p) \/ AskStatus(p)
  \/ Poll(p) \/ Resume(p) \/ Lookup(p) \/ SettleExternally(p)
  \/ RecordAnchor(p) \/ Stop(p)

Outside ==
  \/ \E o \in Op : \/ \E to \in {"executing", "refused"} : WalletAnswers(o, to)
                   \/ \E end \in Outcomes : WalletFinishes(o, end)
  \/ \E t \in Tx : HandPayment(t)
  \/ \E s \in Sig, end \in Confirmed : MemoLands(s, end)

Next == (\E p \in Proc : Command(p)) \/ Outside

Spec == Init /\ [][Next]_vars

\* A running process takes its next step (which may be its death), and the
\* operator repeats the resume command that send prints until the round is out
\* of sending, not killed every time.
Fairness ==
  /\ \A p \in Proc : WF_vars(cli[p].pc # "idle" /\ Command(p))
  /\ \A r \in Payable :
       /\ SF_vars(\E p \in Proc : LoadResume(p, r))
       /\ SF_vars(\E p \in Proc : cli[p].round = r /\ AskStatus(p))
       /\ SF_vars(\E p \in Proc : cli[p].round = r /\ Resume(p))

FairSpec == Spec /\ Fairness

-----------------------------------------------------------------------------
(* What must hold.                                                         *)

Asked(r) == {o \in Op : ops[o].round = r}

\* However send, resume and settle interleave, crash and time out, z_sendmany
\* is called at most once for a round, and never for one that is settled by
\* hand or that another process could still begin (dispatch.ts:70-83).
PaidAtMostOnce ==
  \A r \in Round :
    /\ \A o1, o2 \in Asked(r) : o1 = o2
    /\ Asked(r) # {} => /\ row[r].dispatch # "planned"
                        /\ row[r].settlement # "external"

\* The books never say more than the wallet and the chain do: a round sent by
\* the wallet rests on its own operation, which paid it with the transaction
\* recorded; one settled by hand rests on a transaction that is on chain; and
\* a round marked failed after its operation was recorded was not paid by it,
\* whichever stale answer the marking process had read (dispatch.ts:118-140).
BooksAreTrue ==
  \A r \in Round :
    /\ row[r].dispatch = "sent" =>
         /\ row[r].txid \in onChain
         /\ row[r].settlement = "wallet" =>
              \E o \in Asked(r) : /\ row[r].op = o
                                  /\ ops[o].state = "paid"
                                  /\ ops[o].tx = row[r].txid
    /\ row[r].dispatch = "failed" /\ row[r].op # None =>
         ops[row[r].op].state \in {"built", "failed", "cancelled"}

\* From claiming a round to hearing the operation id, a process is alone with
\* it: no other process is sending or resuming the same round meanwhile, so the
\* operation id it is about to write is nobody else's (dispatch.ts:70-112).
OnlyOneOwner ==
  \A p, q \in Proc :
    /\ p # q
    /\ cli[p].pc \in {"claimed", "calling"}
    /\ cli[q].pc \in {"claimed", "calling", "polling", "told", "resuming", "retold"}
    => cli[p].round # cli[q].round

\* The anchor of a round is a transaction confirmed on Solana that was made for
\* this round and for the transaction the books name, even when two anchor
\* commands ran at once or one was recovered by --signature
\* (cli/anchor.ts:57-93, 131-146).  That it succeeded is not promised: what was
\* sent is recorded on its confirmation alone, see AnchorCarriesMemo.
AnchorIsTrue ==
  \A r \in Round :
    row[r].anchor # None =>
      LET m == memos[row[r].anchor] IN
      /\ row[r].dispatch = "sent"
      /\ m.state \in Confirmed /\ m.round = r /\ m.tx = row[r].txid

\* A verdict and everything recorded with it are final: no process acting on
\* something it read earlier takes a round out of sent or failed, replaces its
\* transaction or how it was settled, or replaces an anchor.
VerdictIsFinal ==
  [][\A r \in Round :
       /\ row[r].dispatch \in {"sent", "failed"} =>
            /\ row'[r].dispatch = row[r].dispatch
            /\ row'[r].txid = row[r].txid
            /\ row'[r].settlement = row[r].settlement
       /\ row[r].anchor # None => row'[r].anchor = row[r].anchor]_vars

\* How a row reads as the state of the promise made in RoundPayment.
Way(r) == IF row[r].dispatch = "planned" THEN "open"
          ELSE IF row[r].settlement = "external" THEN "external" ELSE "wallet"

Verdict(r) == IF row[r].dispatch \in {"sent", "failed"} THEN row[r].dispatch ELSE "none"

Promise ==
  INSTANCE RoundPayment WITH
    way <- [r \in Round |-> Way(r)],
    calls <- [r \in Round |-> Asked(r)],
    verdict <- [r \in Round |-> Verdict(r)],
    txid <- [r \in Round |-> row[r].txid],
    anchor <- [r \in Round |-> row[r].anchor]

\* The dispatch columns and the calls made of the wallet, whatever the order in
\* which processes read, act and die, implement RoundPayment.
KeepsPromise == Promise!Spec

\* A round whose recorded operation was paid or failed does not stay in sending:
\* whichever processes died while polling it, resuming it ends it, while other
\* commands look at the same round (dispatch.ts:142-146, 152).
RecordedIsResolved ==
  \A r \in Round, o \in Op :
    /\ row[r].dispatch = "sending" /\ row[r].op = o
    /\ ops[o].state \in {"paid", "failed", "cancelled"}
    ~> row[r].dispatch \in {"sent", "failed"}

\* Claimed at dispatch.ts:105: when the call itself failed, nothing is in
\* flight.  No operation of a round marked failed may run or have paid.
FailedIsNotInFlight ==
  \A r \in Round : row[r].dispatch = "failed" =>
    \A o \in Asked(r) : ops[o].state \notin {"executing", "paid"}

\* Claimed at 008_anchor.sql:4: the commitment is written into a Solana memo,
\* which the memo program does only in a transaction that succeeds.
AnchorCarriesMemo ==
  \A r \in Round : row[r].anchor # None => memos[row[r].anchor].state = "landed"

\* Claimed by the test at dispatch.test.ts:216: a built but unbroadcast send is
\* a failure.  The round of such an operation ends up marked failed.
BuiltIsAFailure ==
  \A r \in Round, o \in Op :
    row[r].op = o /\ ops[o].state = "built" ~> row[r].dispatch = "failed"

-----------------------------------------------------------------------------
(* The inductive invariant behind the theorems of DispatchProofs.          *)

Accepted(o) == ops[o].state \in {"executing"} \cup Ends

\* What each dispatch state says of the other columns and of the wallet.
RowInv(r) ==
  /\ row[r].dispatch = "planned" => row[r].op = None /\ Asked(r) = {}
  /\ row[r].dispatch # "sent" => /\ row[r].txid = None
                                 /\ row[r].settlement = None
                                 /\ row[r].anchor = None
  /\ row[r].dispatch = "sent" => /\ row[r].txid \in onChain
                                 /\ row[r].settlement # None
  /\ row[r].settlement = "external" => row[r].op = None /\ Asked(r) = {}
  /\ row[r].settlement = "wallet" => /\ row[r].op # None
                                     /\ ops[row[r].op].state = "paid"
                                     /\ ops[row[r].op].tx = row[r].txid
  /\ row[r].op # None => ops[row[r].op].round = r /\ Accepted(row[r].op)
  /\ row[r].dispatch = "failed" /\ row[r].op # None =>
       ops[row[r].op].state \in {"built", "failed", "cancelled"}
  /\ row[r].anchor # None => /\ memos[row[r].anchor].state \in Confirmed
                             /\ memos[row[r].anchor].round = r
                             /\ memos[row[r].anchor].tx = row[r].txid

OpInv(o) == /\ ops[o].state = "unused" <=> ops[o].round = None
            /\ ops[o].state = "paid" => ops[o].tx \in onChain

OneOpPerRound == \A o1, o2 \in Op :
  ops[o1].round = ops[o2].round /\ ops[o1].round # None => o1 = o2

\* What a process may rely on at each point: what it read is still so.
CliInv(p) ==
  LET c == cli[p]  r == cli[p].round IN
  /\ c.pc # "idle" => r \in Round
  /\ c.pc \in {"claimed", "calling"} => row[r].dispatch = "sending" /\ row[r].op = None
  /\ c.pc = "claimed" => Asked(r) = {}
  /\ c.pc = "calling" => c.op \in Op /\ ops[c.op].round = r
  /\ c.pc \in {"polling", "told", "resuming", "retold"} =>
       c.op \in Op /\ row[r].op = c.op
  /\ c.pc \in {"told", "retold"} /\ c.told \in Ends =>
       ops[c.op].state = c.told /\ ops[c.op].tx = c.tx
  /\ c.pc = "found" => c.tx \in onChain
  /\ c.pc \in {"anchoring", "memoed", "recovering"} =>
       row[r].dispatch = "sent" /\ row[r].txid = c.tx
  /\ c.pc \in {"memoed", "recovering"} => c.sig \in Sig
  /\ c.pc = "memoed" => /\ memos[c.sig].state # "unused"
                        /\ memos[c.sig].round = r /\ memos[c.sig].tx = c.tx

OneClaimer == \A p, q \in Proc :
  /\ cli[p].pc \in {"claimed", "calling"}
  /\ cli[q].pc \in {"claimed", "calling"}
  /\ cli[p].round = cli[q].round
  => p = q

IInv == /\ TypeOK
        /\ \A r \in Round : RowInv(r)
        /\ \A o \in Op : OpInv(o)
        /\ OneOpPerRound
        /\ \A p \in Proc : CliInv(p)
        /\ OneClaimer
=============================================================================
