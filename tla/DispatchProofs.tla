--------------------------- MODULE DispatchProofs ---------------------------
(***************************************************************************)
(* Theorems about Dispatch, for every set of rounds, processes, wallet     *)
(* operations and transactions; about Lookup, which reads the chain for    *)
(* it; and about Receipt, whose roots its anchors carry.                   *)
(***************************************************************************)
EXTENDS Dispatch, Lookup, Receipt, SumProofs

USE DispatchAssumption

\* An idle process holds a record of the right type.
LEMMA IdleType == Idle \in Clis
BY DEF Idle, Clis, Pcs

\* The inductive invariant holds of freshly recorded rounds (005_payout_dispatch.sql).
LEMMA InitIInv == Init => IInv
<1> SUFFICES ASSUME Init PROVE IInv
  OBVIOUS
<1>1. TypeOK
  <2>1. row \in [Round -> Rows]
    BY DEF Init, Rows, States
  <2>2. cli \in [Proc -> Clis]
    BY IdleType DEF Init
  <2>3. ops \in [Op -> Calls]
    BY DEF Init, Calls, Unused, Ends
  <2>4. onChain \subseteq Tx /\ memos \in [Sig -> Memos]
    BY DEF Init, Memos
  <2> QED BY <2>1, <2>2, <2>3, <2>4 DEF TypeOK
<1>2. \A r \in Round : RowInv(r)
  <2> SUFFICES ASSUME NEW r \in Round PROVE RowInv(r)
    OBVIOUS
  <2>1. Asked(r) = {}
    BY DEF Init, Asked, Unused
  <2>2. /\ row[r].dispatch = "planned" /\ row[r].op = None /\ row[r].txid = None
        /\ row[r].settlement = None /\ row[r].anchor = None
    BY DEF Init
  <2> QED BY <2>1, <2>2 DEF RowInv
<1>3. (\A o \in Op : OpInv(o)) /\ OneOpPerRound
  BY DEF Init, OpInv, OneOpPerRound, Unused
<1>4. \A p \in Proc : cli[p].pc = "idle"
  BY DEF Init, Idle
<1>5. (\A p \in Proc : CliInv(p)) /\ OneClaimer
  BY <1>4 DEF CliInv, OneClaimer
<1> QED BY <1>1, <1>2, <1>3, <1>5 DEF IInv

-----------------------------------------------------------------------------
(* Frames: what a step that touches one process, or one process and one    *)
(* row, leaves to be shown.                                                *)

\* A step of p that only moves p, and not into the hands of a claim.
LEMMA CliStep ==
  ASSUME IInv, NEW p \in Proc, NEW c \in Clis, cli' = [cli EXCEPT ![p] = c],
         c.pc \notin {"claimed", "calling"}, UNCHANGED <<row, ops, onChain, memos>>,
         CliInv(p)'
  PROVE  IInv'
<1>1. TypeOK'
  BY DEF IInv, TypeOK
<1>2. \A r \in Round : RowInv(r)'
  BY DEF IInv, RowInv, Asked, Accepted
<1>3. (\A o \in Op : OpInv(o)') /\ OneOpPerRound'
  BY DEF IInv, OpInv, OneOpPerRound
<1>4. cli'[p] = c /\ \A q \in Proc \ {p} : cli'[q] = cli[q]
  BY DEF IInv, TypeOK
<1>5. ASSUME NEW q \in Proc PROVE CliInv(q)'
  <2>1. CASE q # p
    BY <2>1, <1>4 DEF IInv, CliInv, Asked
  <2> QED BY <2>1
<1>6. OneClaimer'
  BY <1>4 DEF IInv, OneClaimer
<1> QED BY <1>1, <1>2, <1>3, <1>5, <1>6 DEF IInv

\* A step of p that also writes row r, keeping what others may have read of it.
LEMMA RowStep ==
  ASSUME IInv, NEW p \in Proc, NEW r \in Round, NEW c \in Clis, NEW new \in Rows,
         cli' = [cli EXCEPT ![p] = c], row' = [row EXCEPT ![r] = new],
         UNCHANGED <<ops, onChain, memos>>,
         row[r].op # None => new.op = row[r].op,
         row[r].dispatch = "sent" => new.dispatch = "sent" /\ new.txid = row[r].txid,
         \A q \in Proc \ {p} :
           cli[q].pc \in {"claimed", "calling"} => cli[q].round # r,
         c.pc \in {"claimed", "calling"} => c.round = r,
         RowInv(r)', CliInv(p)'
  PROVE  IInv'
<1>1. TypeOK'
  BY DEF IInv, TypeOK
<1>2. \A q \in Proc \ {p} : cli'[q] = cli[q]
  BY DEF IInv, TypeOK
<1>3. row'[r] = new /\ \A q \in Round \ {r} : row'[q] = row[q]
  BY DEF IInv, TypeOK
<1>4. ASSUME NEW q \in Round PROVE RowInv(q)'
  <2>1. CASE q # r
    BY <2>1, <1>3 DEF IInv, RowInv, Asked, Accepted
  <2> QED BY <2>1
<1>5. (\A o \in Op : OpInv(o)') /\ OneOpPerRound'
  BY DEF IInv, OpInv, OneOpPerRound
<1>6. ASSUME NEW q \in Proc PROVE CliInv(q)'
  <2>1. CASE q # p
    <3>1. cli'[q] = cli[q] /\ CliInv(q)
      BY <2>1, <1>2 DEF IInv
    <3>2. cli[q].pc \in {"claimed", "calling"} => cli[q].round # r
      BY <2>1
    <3>3. Asked(cli[q].round)' = Asked(cli[q].round)
      BY <3>1 DEF Asked
    <3> QED BY <3>1, <3>2, <3>3, <1>3 DEF CliInv
  <2> QED BY <2>1
<1>7. OneClaimer'
  <2>1. cli'[p] = c
    BY DEF IInv, TypeOK
  <2> QED BY <2>1, <1>2 DEF IInv, OneClaimer
<1> QED BY <1>1, <1>4, <1>5, <1>6, <1>7 DEF IInv

-----------------------------------------------------------------------------
(* One lemma for each action of a process.                                 *)

\* Reading a planned round to send keeps it (dispatch.ts, planSend).
LEMMA PlanSendIInv ==
  ASSUME IInv, NEW p \in Proc, NEW r \in Round, PlanSend(p, r) PROVE IInv'
<1> DEFINE c == [Idle EXCEPT !.pc = "reviewed", !.round = r]
<1>1. c \in Clis /\ c.pc = "reviewed" /\ c.round = r
  BY IdleType DEF Idle, Clis, Pcs
<1>2. cli'[p] = c
  BY DEF PlanSend, IInv, TypeOK
<1>3. CliInv(p)'
  BY <1>1, <1>2 DEF CliInv
<1> QED BY <1>1, <1>3, CliStep DEF PlanSend

\* Reading a round to resume keeps it (cli/send.ts --resume).
LEMMA LoadResumeIInv ==
  ASSUME IInv, NEW p \in Proc, NEW r \in Round, LoadResume(p, r) PROVE IInv'
<1> DEFINE c == [Idle EXCEPT !.pc = "resuming", !.round = r, !.op = row[r].op]
<1>1. c.pc = "resuming" /\ c.round = r /\ c.op = row[r].op
  BY DEF Idle
<1>2. c \in Clis /\ row[r].op \in Op
  BY IdleType DEF Clis, Pcs, LoadResume, IInv, TypeOK, Rows
<1>3. cli'[p] = c /\ UNCHANGED row
  BY DEF LoadResume, IInv, TypeOK
<1>4. CliInv(p)'
  BY <1>1, <1>2, <1>3 DEF CliInv
<1> QED BY <1>1, <1>2, <1>4, CliStep DEF LoadResume

\* Reading a round to settle keeps it (cli/settle.ts).
LEMMA LoadSettleIInv ==
  ASSUME IInv, NEW p \in Proc, NEW r \in Round, NEW t \in Tx, LoadSettle(p, r, t)
  PROVE  IInv'
<1> DEFINE c == [Idle EXCEPT !.pc = "looking", !.round = r, !.tx = t]
<1>1. c \in Clis /\ c.pc = "looking" /\ c.round = r
  BY IdleType DEF Idle, Clis, Pcs
<1>2. cli'[p] = c
  BY DEF LoadSettle, IInv, TypeOK
<1>3. CliInv(p)'
  BY <1>1, <1>2 DEF CliInv
<1> QED BY <1>1, <1>3, CliStep DEF LoadSettle

\* Reading a round to anchor keeps it (cli/anchor.ts).
LEMMA LoadAnchorIInv ==
  ASSUME IInv, NEW p \in Proc, NEW r \in Round, LoadAnchor(p, r) PROVE IInv'
<1> DEFINE c == [Idle EXCEPT !.pc = "anchoring", !.round = r, !.tx = row[r].txid]
<1>1. c.pc = "anchoring" /\ c.round = r /\ c.tx = row[r].txid
  BY DEF Idle
<1>2. c \in Clis /\ row[r].dispatch = "sent"
  BY IdleType DEF Clis, Pcs, LoadAnchor, Anchorable, IInv, TypeOK, Rows
<1>3. cli'[p] = c /\ UNCHANGED row
  BY DEF LoadAnchor, IInv, TypeOK
<1>4. CliInv(p)'
  BY <1>1, <1>2, <1>3 DEF CliInv
<1> QED BY <1>1, <1>2, <1>4, CliStep DEF LoadAnchor

\* Reading a round and a signature keeps it (cli/anchor.ts --signature).
LEMMA LoadRecoveryIInv ==
  ASSUME IInv, NEW p \in Proc, NEW r \in Round, NEW s \in Sig, LoadRecovery(p, r, s)
  PROVE  IInv'
<1> DEFINE c == [Idle EXCEPT !.pc = "recovering", !.round = r,
                             !.tx = row[r].txid, !.sig = s]
<1>1. c.pc = "recovering" /\ c.round = r /\ c.tx = row[r].txid /\ c.sig = s
  BY DEF Idle
<1>2. c \in Clis /\ row[r].dispatch = "sent"
  BY IdleType DEF Clis, Pcs, LoadRecovery, Anchorable, IInv, TypeOK, Rows
<1>3. cli'[p] = c /\ UNCHANGED row
  BY DEF LoadRecovery, IInv, TypeOK
<1>4. CliInv(p)'
  BY <1>1, <1>2, <1>3 DEF CliInv
<1> QED BY <1>1, <1>2, <1>4, CliStep DEF LoadRecovery

\* A process that ends without writing anything.
LEMMA ExitIInv ==
  ASSUME IInv, NEW p \in Proc, Exit(p), UNCHANGED <<row, ops, onChain, memos>>
  PROVE  IInv'
<1>1. Idle.pc = "idle"
  BY DEF Idle
<1>2. cli'[p] = Idle
  BY DEF Exit, IInv, TypeOK
<1>3. CliInv(p)'
  BY <1>1, <1>2 DEF CliInv
<1> QED BY <1>1, <1>3, IdleType, CliStep DEF Exit

\* begin() keeps it: one process wins the conditional UPDATE (payouts.ts, beginSend).
LEMMA BeginIInv == ASSUME IInv, NEW p \in Proc, Begin(p) PROVE IInv'
<1>0. PICK r \in Round : r = cli[p].round
  BY DEF Begin, IInv, CliInv
<1> DEFINE c == [cli[p] EXCEPT !.pc = "claimed"]
           new == [row[r] EXCEPT !.dispatch = "sending"]
<1>1. CASE BeginGuard(r)
  <2>1. row[r].dispatch = "planned" /\ row[r].op = None /\ Asked(r) = {}
    BY <1>1 DEF BeginGuard, IInv, RowInv
  <2>2. cli' = [cli EXCEPT ![p] = c] /\ row' = [row EXCEPT ![r] = new]
    BY <1>0, <1>1 DEF Begin, Write, Goto, IInv, TypeOK
  <2>3. cli[p] \in Clis /\ row[r] \in Rows
    BY <2>1 DEF IInv, TypeOK
  <2>4. c \in Clis /\ c.pc = "claimed" /\ c.round = r
    BY <1>0, <2>3 DEF Clis, Pcs
  <2>5. /\ new \in Rows /\ new.dispatch = "sending" /\ new.op = row[r].op
        /\ new.txid = row[r].txid /\ new.settlement = row[r].settlement
        /\ new.anchor = row[r].anchor
    BY <2>3 DEF Rows, States
  <2>6. cli'[p] = c /\ row'[r] = new /\ UNCHANGED <<ops, onChain, memos>>
    BY <2>1, <2>2 DEF Begin, IInv, TypeOK
  <2>7. Asked(r)' = {}
    BY <2>1, <2>6 DEF Asked
  <2>8. RowInv(r) /\ CliInv(p)
    BY <2>1 DEF IInv
  <2> HIDE DEF c, new
  <2>9. CliInv(p)'
    BY <2>1, <2>4, <2>5, <2>6, <2>7 DEF CliInv
  <2>10. RowInv(r)'
    BY <2>1, <2>5, <2>6, <2>7, <2>8 DEF RowInv
  <2>11. \A q \in Proc \ {p} : cli[q].pc \in {"claimed", "calling"} => cli[q].round # r
    BY <2>1 DEF IInv, CliInv
  <2> QED BY <2>1, <2>2, <2>4, <2>5, <2>6, <2>9, <2>10, <2>11, RowStep
<1>2. CASE ~BeginGuard(r)
  BY <1>0, <1>2, ExitIInv DEF Begin
<1> QED BY <1>1, <1>2

\* A process that writes row r and ends.
LEMMA WriteAndExit ==
  ASSUME IInv, NEW p \in Proc, NEW r \in Round, NEW new \in Rows,
         Write(r, new), Exit(p), UNCHANGED <<ops, onChain, memos>>,
         row[r].op # None => new.op = row[r].op,
         row[r].dispatch = "sent" => new.dispatch = "sent" /\ new.txid = row[r].txid,
         \A q \in Proc \ {p} :
           cli[q].pc \in {"claimed", "calling"} => cli[q].round # r,
         RowInv(r)'
  PROVE  IInv'
<1>1. Idle.pc = "idle"
  BY DEF Idle
<1>2. cli'[p] = Idle
  BY DEF Exit, IInv, TypeOK
<1>3. CliInv(p)'
  BY <1>1, <1>2 DEF CliInv
<1> QED BY <1>1, <1>3, IdleType, RowStep DEF Exit, Write

\* While a process waits on its operation nobody else can be claiming its round.
LEMMA NoOtherClaimer ==
  ASSUME IInv, NEW p \in Proc, NEW r \in Round, r = cli[p].round,
         cli[p].pc \in {"calling", "polling", "told", "resuming", "retold"}
  PROVE  \A q \in Proc \ {p} :
           cli[q].pc \in {"claimed", "calling"} => cli[q].round # r
<1>1. CASE cli[p].pc = "calling"
  BY <1>1 DEF IInv, OneClaimer
<1>2. CASE cli[p].pc # "calling"
  BY <1>2 DEF IInv, CliInv
<1> QED BY <1>1, <1>2

\* Recording a payment the process was told of keeps it (dispatch.ts:118-123, 161-166).
LEMMA CompleteIInv ==
  ASSUME IInv, NEW p \in Proc, cli[p].pc \in {"told", "retold"}, cli[p].told = "paid",
         Complete(cli[p].round, cli[p].tx), Exit(p), UNCHANGED <<ops, onChain, memos>>
  PROVE  IInv'
<1>0. PICK r \in Round : r = cli[p].round
  BY DEF IInv, CliInv
<1> DEFINE new == [row[r] EXCEPT !.dispatch = "sent", !.txid = cli[p].tx,
                                 !.settlement = "wallet"]
<1>1. /\ row[r].op = cli[p].op /\ cli[p].op \in Op /\ ops[cli[p].op].state = "paid"
      /\ ops[cli[p].op].tx = cli[p].tx /\ cli[p].tx \in onChain
  BY <1>0 DEF IInv, CliInv, OpInv, Ends
<1>2. RowInv(r) /\ row[r] \in Rows /\ row[r].op # None
  BY <1>1 DEF IInv, TypeOK
<1>3. row[r].settlement = "wallet" \/ row[r].settlement = None
  BY <1>2 DEF RowInv, Rows
<1>4. row[r].dispatch \in {"sending", "sent"}
  BY <1>1, <1>2 DEF RowInv, Rows, States
<1>5. row[r].dispatch = "sent" => row[r].txid = cli[p].tx
  BY <1>1, <1>2, <1>3 DEF RowInv
<1>6. /\ new \in Rows /\ new.dispatch = "sent" /\ new.op = row[r].op
      /\ new.txid = cli[p].tx /\ new.settlement = "wallet" /\ new.anchor = row[r].anchor
  BY <1>1, <1>2 DEF Rows, States, IInv, TypeOK
<1>7. Write(r, new)
  BY <1>0 DEF Complete, Write
<1> HIDE DEF new
<1>8. row'[r] = new /\ Asked(r)' = Asked(r)
  BY <1>7 DEF Write, IInv, TypeOK, Asked
<1>9. RowInv(r)'
  BY <1>1, <1>2, <1>4, <1>5, <1>6, <1>8 DEF RowInv, Accepted
<1> QED BY <1>0, <1>5, <1>6, <1>7, <1>9, NoOtherClaimer, WriteAndExit

\* Recording a failure the process was told of keeps it (dispatch.ts:125-140).
LEMMA MarkFailedIInv ==
  ASSUME IInv, NEW p \in Proc, cli[p].pc \in {"told", "retold"},
         cli[p].told \in {"built", "failed", "cancelled"},
         MarkFailed(cli[p].round), Exit(p), UNCHANGED <<ops, onChain, memos>>
  PROVE  IInv'
<1>0. PICK r \in Round : r = cli[p].round
  BY DEF IInv, CliInv
<1> DEFINE new == [row[r] EXCEPT !.dispatch = "failed"]
<1>1. /\ row[r].op = cli[p].op /\ cli[p].op \in Op
      /\ ops[cli[p].op].state \in {"built", "failed", "cancelled"}
  BY <1>0 DEF IInv, CliInv, Ends
<1>2. RowInv(r) /\ row[r] \in Rows /\ row[r].op # None
  BY <1>1 DEF IInv, TypeOK
<1>3. row[r].settlement = None /\ row[r].dispatch \in {"sending", "failed"}
  BY <1>1, <1>2 DEF RowInv, Rows, States
<1>4. /\ new \in Rows /\ new.dispatch = "failed" /\ new.op = row[r].op
      /\ new.txid = row[r].txid /\ new.settlement = None /\ new.anchor = row[r].anchor
  BY <1>2, <1>3 DEF Rows, States
<1>5. Write(r, new)
  BY <1>0 DEF MarkFailed, Write
<1> HIDE DEF new
<1>6. row'[r] = new /\ Asked(r)' = Asked(r)
  BY <1>5 DEF Write, IInv, TypeOK, Asked
<1>7. RowInv(r)'
  BY <1>1, <1>2, <1>3, <1>4, <1>6 DEF RowInv, Accepted
<1> QED BY <1>0, <1>3, <1>4, <1>5, <1>7, NoOtherClaimer, WriteAndExit

\* Giving up on z_sendmany keeps it (dispatch.ts:104-108).
LEMMA SendManyThrowsIInv ==
  ASSUME IInv, NEW p \in Proc, SendManyThrows(p) PROVE IInv'
<1>0. PICK r \in Round : r = cli[p].round
  BY DEF SendManyThrows, IInv, CliInv
<1> DEFINE new == [row[r] EXCEPT !.dispatch = "failed"]
<1>1. RowInv(r) /\ row[r] \in Rows /\ row[r].op = None /\ row[r].dispatch = "sending"
  BY <1>0 DEF SendManyThrows, IInv, TypeOK, CliInv
<1>2. /\ new \in Rows /\ new.dispatch = "failed" /\ new.op = None
      /\ new.txid = row[r].txid /\ new.settlement = row[r].settlement
      /\ new.anchor = row[r].anchor
  BY <1>1 DEF Rows, States
<1>3. Write(r, new) /\ Exit(p) /\ UNCHANGED <<ops, onChain, memos>>
  BY <1>0 DEF SendManyThrows, MarkFailed, Write
<1> HIDE DEF new
<1>4. row'[r] = new /\ Asked(r)' = Asked(r)
  BY <1>3 DEF Write, IInv, TypeOK, Asked
<1>5. RowInv(r)'
  BY <1>1, <1>2, <1>4 DEF RowInv
<1>6. cli[p].pc = "calling"
  BY DEF SendManyThrows
<1> QED BY <1>0, <1>1, <1>2, <1>3, <1>5, <1>6, NoOtherClaimer, WriteAndExit

\* Writing the operation id keeps it (dispatch.ts:112).
LEMMA RecordOperationIInv ==
  ASSUME IInv, NEW p \in Proc, RecordOperation(p) PROVE IInv'
<1>0. PICK r \in Round : r = cli[p].round
  BY DEF RecordOperation, IInv, CliInv
<1> DEFINE c == [cli[p] EXCEPT !.pc = "polling"]
           new == [row[r] EXCEPT !.op = cli[p].op]
<1>1. /\ RowInv(r) /\ row[r] \in Rows /\ row[r].op = None
      /\ row[r].dispatch = "sending" /\ cli[p] \in Clis
      /\ cli[p].op \in Op /\ ops[cli[p].op].round = r /\ ops[cli[p].op] \in Calls
      /\ OpInv(cli[p].op)
  BY <1>0 DEF RecordOperation, IInv, TypeOK, CliInv
<1>2. Accepted(cli[p].op)
  BY <1>1 DEF RecordOperation, Accepted, Calls, OpInv
<1>3. /\ new \in Rows /\ new.dispatch = "sending" /\ new.op = cli[p].op
      /\ new.txid = row[r].txid /\ new.settlement = row[r].settlement
      /\ new.anchor = row[r].anchor
  BY <1>1 DEF Rows, States
<1>4. c \in Clis /\ c.pc = "polling" /\ c.round = r /\ c.op = cli[p].op
  BY <1>0, <1>1 DEF Clis, Pcs
<1>5. /\ row' = [row EXCEPT ![r] = new] /\ cli' = [cli EXCEPT ![p] = c]
      /\ UNCHANGED <<ops, onChain, memos>>
  BY <1>0 DEF RecordOperation, Write, Goto, IInv, TypeOK
<1> HIDE DEF c, new
<1>6. row'[r] = new /\ cli'[p] = c /\ Asked(r)' = Asked(r)
  BY <1>5 DEF IInv, TypeOK, Asked
<1>7. RowInv(r)'
  BY <1>1, <1>2, <1>3, <1>5, <1>6 DEF RowInv, Accepted
<1>8. CliInv(p)'
  BY <1>1, <1>3, <1>4, <1>6 DEF CliInv
<1>9. cli[p].pc = "calling"
  BY DEF RecordOperation
<1> QED BY <1>0, <1>1, <1>3, <1>4, <1>5, <1>7, <1>8, <1>9, NoOtherClaimer, RowStep

\* Acting on a polled status keeps it, however old the answer is (dispatch.ts:114-150).
LEMMA PollIInv == ASSUME IInv, NEW p \in Proc, Poll(p) PROVE IInv'
<1>1. CASE cli[p].told = "paid" /\ Complete(cli[p].round, cli[p].tx) /\ Exit(p)
  BY <1>1, CompleteIInv DEF Poll
<1>2. CASE /\ cli[p].told \in {"built", "failed", "cancelled"}
           /\ MarkFailed(cli[p].round) /\ Exit(p)
  BY <1>2, MarkFailedIInv DEF Poll
<1>3. CASE /\ cli' = [cli EXCEPT ![p].pc = "polling", ![p].told = None, ![p].tx = None]
           /\ UNCHANGED row
  <2> DEFINE c == [cli[p] EXCEPT !.pc = "polling", !.told = None, !.tx = None]
  <2>1. cli[p] \in Clis /\ CliInv(p) /\ cli[p].pc = "told"
    BY DEF Poll, IInv, TypeOK
  <2>2. c \in Clis /\ c.pc = "polling" /\ c.round = cli[p].round /\ c.op = cli[p].op
    BY <2>1 DEF Clis, Pcs
  <2>3. cli' = [cli EXCEPT ![p] = c] /\ UNCHANGED <<row, ops, onChain, memos>>
    BY <1>3 DEF Poll, IInv, TypeOK
  <2> HIDE DEF c
  <2>4. cli'[p] = c
    BY <2>3 DEF IInv, TypeOK
  <2>5. CliInv(p)'
    BY <2>1, <2>2, <2>3, <2>4 DEF CliInv
  <2> QED BY <2>2, <2>3, <2>5, CliStep
<1>4. CASE Exit(p) /\ UNCHANGED row
  BY <1>4, ExitIInv DEF Poll
<1> QED BY <1>1, <1>2, <1>3, <1>4 DEF Poll

\* Acting on a resumed status keeps it (dispatch.ts:152-177).
LEMMA ResumeIInv == ASSUME IInv, NEW p \in Proc, Resume(p) PROVE IInv'
<1>1. CASE cli[p].told = "paid"
  BY <1>1, CompleteIInv DEF Resume
<1>2. CASE cli[p].told \in {"failed", "cancelled"}
  BY <1>2, MarkFailedIInv DEF Resume
<1>3. CASE cli[p].told \notin {"paid", "failed", "cancelled"}
  BY <1>3, ExitIInv DEF Resume
<1> QED BY <1>1, <1>2, <1>3

\* An answer of z_getoperationstatus keeps it (zallet.ts:103-138).
LEMMA AskStatusIInv == ASSUME IInv, NEW p \in Proc, AskStatus(p) PROVE IInv'
<1> DEFINE to == IF cli[p].pc = "polling" THEN "told" ELSE "retold"
           c == [cli[p] EXCEPT !.pc = to, !.told = Answer(cli[p].op),
                               !.tx = ops[cli[p].op].tx]
<1>1. /\ cli[p] \in Clis /\ CliInv(p) /\ cli[p].op \in Op
      /\ row[cli[p].round].op = cli[p].op /\ cli[p].round \in Round
  BY DEF AskStatus, IInv, TypeOK, CliInv
<1>2. Answer(cli[p].op) \in Ends \cup {"executing"} /\ ops[cli[p].op].tx \in Tx \cup {None}
  BY <1>1 DEF Answer, IInv, TypeOK, Calls
<1>3. /\ c \in Clis /\ c.pc \in {"told", "retold"} /\ c.round = cli[p].round
      /\ c.op = cli[p].op /\ c.told = Answer(cli[p].op) /\ c.tx = ops[cli[p].op].tx
  <2>1. PICK v \in Clis : v = cli[p]
    BY <1>1
  <2>2. to \in {"told", "retold"}
    OBVIOUS
  <2>3. PICK a \in Ends \cup {"executing"}, t \in Tx \cup {None} :
          a = Answer(cli[p].op) /\ t = ops[cli[p].op].tx
    BY <1>2
  <2> HIDE DEF to
  <2>4. PICK w : w = [v EXCEPT !.pc = to, !.told = a, !.tx = t]
    OBVIOUS
  <2>5. /\ w \in Clis /\ w.pc = to /\ w.round = v.round
        /\ w.op = v.op /\ w.told = a /\ w.tx = t
    BY ONLY <2>2, <2>4 DEF Clis, Pcs
  <2>6. c = w
    BY <2>1, <2>3, <2>4
  <2> QED
    BY ONLY <2>1, <2>2, <2>3, <2>5, <2>6
<1>4. cli' = [cli EXCEPT ![p] = c] /\ UNCHANGED <<row, ops, onChain, memos>>
  BY DEF AskStatus, IInv, TypeOK
<1>5. c.told \in Ends => ops[cli[p].op].state = c.told
  BY <1>3 DEF Answer, Ends
<1> HIDE DEF c
<1>6. cli'[p] = c
  BY <1>4 DEF IInv, TypeOK
<1>7. CliInv(p)'
  BY <1>1, <1>3, <1>4, <1>5, <1>6 DEF CliInv
<1> QED BY <1>3, <1>4, <1>7, CliStep

\* An answer of the chain lookup keeps it (cli/settle.ts:65-77).
LEMMA LookupIInv == ASSUME IInv, NEW p \in Proc, Lookup(p) PROVE IInv'
<1>1. CASE cli[p].tx \in onChain
  <2> DEFINE c == [cli[p] EXCEPT !.pc = "found"]
  <2>1. cli[p] \in Clis /\ cli[p].round \in Round
    BY DEF Lookup, IInv, TypeOK, CliInv
  <2>2. c \in Clis /\ c.pc = "found" /\ c.round = cli[p].round /\ c.tx = cli[p].tx
    BY <2>1 DEF Clis, Pcs
  <2>3. cli' = [cli EXCEPT ![p] = c] /\ UNCHANGED <<row, ops, onChain, memos>>
    BY <1>1 DEF Lookup, Goto, IInv, TypeOK
  <2> HIDE DEF c
  <2>4. cli'[p] = c
    BY <2>3 DEF IInv, TypeOK
  <2>5. CliInv(p)'
    BY <1>1, <2>1, <2>2, <2>3, <2>4 DEF CliInv
  <2> QED BY <2>2, <2>3, <2>5, CliStep
<1>2. CASE cli[p].tx \notin onChain
  BY <1>2, ExitIInv DEF Lookup
<1> QED BY <1>1, <1>2

\* Settling by hand keeps it (payouts.ts, setExternal).
LEMMA SettleExternallyIInv ==
  ASSUME IInv, NEW p \in Proc, SettleExternally(p) PROVE IInv'
<1>0. PICK r \in Round : r = cli[p].round
  BY DEF SettleExternally, IInv, CliInv
<1>1. CASE SettleGuard(r)
  <2> DEFINE new == [row[r] EXCEPT !.dispatch = "sent", !.settlement = "external",
                                   !.txid = cli[p].tx]
  <2>1. /\ RowInv(r) /\ row[r] \in Rows /\ row[r].dispatch = "planned"
        /\ cli[p].tx \in onChain /\ cli[p].tx \in Tx
    BY <1>0, <1>1 DEF SettleExternally, SettleGuard, IInv, TypeOK, CliInv
  <2>2. row[r].op = None /\ Asked(r) = {} /\ row[r].anchor = None
    BY <2>1 DEF RowInv
  <2>3. /\ new \in Rows /\ new.dispatch = "sent" /\ new.op = None
        /\ new.txid = cli[p].tx /\ new.settlement = "external" /\ new.anchor = None
    BY <2>1, <2>2 DEF Rows, States
  <2>4. Write(r, new) /\ Exit(p) /\ UNCHANGED <<ops, onChain, memos>>
    BY <1>0, <1>1 DEF SettleExternally
  <2> HIDE DEF new
  <2>5. row'[r] = new /\ Asked(r)' = {}
    BY <2>2, <2>4 DEF Write, IInv, TypeOK, Asked
  <2>6. RowInv(r)'
    BY <2>1, <2>3, <2>4, <2>5 DEF RowInv
  <2>7. \A q \in Proc \ {p} : cli[q].pc \in {"claimed", "calling"} => cli[q].round # r
    BY <2>1 DEF IInv, CliInv
  <2> QED BY <2>1, <2>2, <2>3, <2>4, <2>6, <2>7, WriteAndExit
<1>2. CASE ~SettleGuard(r)
  BY <1>0, <1>2, ExitIInv DEF SettleExternally
<1> QED BY <1>1, <1>2

\* Recording an anchor keeps it (payouts.ts, setAnchor).
LEMMA RecordAnchorIInv ==
  ASSUME IInv, NEW p \in Proc, RecordAnchor(p) PROVE IInv'
<1>0. PICK r \in Round : r = cli[p].round
  BY DEF RecordAnchor, IInv, CliInv
<1>1. CASE AnchorGuard(r)
  <2> DEFINE new == [row[r] EXCEPT !.anchor = cli[p].sig]
  <2>1. /\ RowInv(r) /\ row[r] \in Rows /\ row[r].dispatch = "sent"
        /\ row[r].txid = cli[p].tx /\ cli[p].sig \in Sig
        /\ memos[cli[p].sig].state \in Confirmed /\ memos[cli[p].sig].round = r
        /\ memos[cli[p].sig].tx = cli[p].tx
    BY <1>0, <1>1
       DEF RecordAnchor, AnchorGuard, MemoMatches, MemoConfirmed, Confirmed, IInv, TypeOK, CliInv
  <2>2. /\ new \in Rows /\ new.dispatch = "sent" /\ new.op = row[r].op
        /\ new.txid = row[r].txid /\ new.settlement = row[r].settlement
        /\ new.anchor = cli[p].sig
    BY <2>1 DEF Rows, States
  <2>3. Write(r, new) /\ Exit(p) /\ UNCHANGED <<ops, onChain, memos>>
    BY <1>0, <1>1 DEF RecordAnchor
  <2> HIDE DEF new
  <2>4. row'[r] = new /\ Asked(r)' = Asked(r)
    BY <2>3 DEF Write, IInv, TypeOK, Asked
  <2>5. RowInv(r)'
    BY <2>1, <2>2, <2>3, <2>4 DEF RowInv, Accepted
  <2>6. \A q \in Proc \ {p} : cli[q].pc \in {"claimed", "calling"} => cli[q].round # r
    BY <2>1 DEF IInv, CliInv
  <2> QED BY <2>1, <2>2, <2>3, <2>5, <2>6, WriteAndExit
<1>2. CASE ~AnchorGuard(r)
  BY <1>0, <1>2, ExitIInv DEF RecordAnchor
<1> QED BY <1>1, <1>2

\* Calling z_sendmany keeps it: no call was made for the round before.
LEMMA SendManyIInv ==
  ASSUME IInv, NEW p \in Proc, NEW o \in Op, SendMany(p, o) PROVE IInv'
<1>0. PICK r \in Round : r = cli[p].round
  BY DEF SendMany, IInv, CliInv
<1> DEFINE c == [cli[p] EXCEPT !.pc = "calling", !.op = o]
           new == [state |-> "requested", round |-> r, tx |-> None]
<1>1. /\ cli[p] \in Clis /\ cli[p].pc = "claimed" /\ CliInv(p)
      /\ row[r].dispatch = "sending" /\ row[r].op = None /\ Asked(r) = {}
  BY <1>0 DEF SendMany, IInv, TypeOK, CliInv
<1>2. /\ ops[o].state = "unused" /\ ops[o].round = None
      /\ ops' = [ops EXCEPT ![o] = new] /\ cli' = [cli EXCEPT ![p] = c]
      /\ UNCHANGED <<row, onChain, memos>>
  BY <1>0 DEF SendMany, IInv, TypeOK, OpInv
<1>3. c \in Clis /\ c.pc = "calling" /\ c.round = r /\ c.op = o
  BY <1>0, <1>1 DEF Clis, Pcs
<1>4. new \in Calls /\ new.state = "requested" /\ new.round = r /\ new.tx = None
  BY DEF Calls
<1> HIDE DEF c, new
<1>5. /\ ops'[o] = new /\ \A q \in Op \ {o} : ops'[q] = ops[q]
      /\ cli'[p] = c /\ \A q \in Proc \ {p} : cli'[q] = cli[q]
  BY <1>2 DEF IInv, TypeOK
<1>6. TypeOK'
  BY <1>2, <1>3, <1>4 DEF IInv, TypeOK
<1>7. ASSUME NEW q \in Round PROVE RowInv(q)'
  <2>1. RowInv(q) /\ row[q] \in Rows
    BY DEF IInv, TypeOK
  <2>2. row[q].op # None => row[q].op # o
    BY <2>1, <1>2 DEF RowInv
  <2>3. q # r => Asked(q)' = Asked(q)
    BY <1>2, <1>4, <1>5 DEF Asked
  <2>4. row[r].settlement # "external"
    BY <1>1 DEF IInv, RowInv
  <2>5. row[q].op # None => row[q].op \in Op /\ ops'[row[q].op] = ops[row[q].op]
    BY <2>1, <2>2, <1>5 DEF Rows
  <2>6. row'[q] = row[q] /\ memos' = memos /\ onChain' = onChain
    BY <1>2
  <2>7. row[q].settlement = "wallet" => row[q].op # None
    BY <2>1 DEF RowInv
  <2>8. /\ q = r => row[q].dispatch = "sending"
        /\ q = r => row[q].settlement # "external"
    BY <1>1, <2>4
  <2> QED BY <2>1, <2>3, <2>5, <2>6, <2>7, <2>8 DEF RowInv, Accepted
<1>8. ASSUME NEW q \in Op PROVE OpInv(q)'
  BY <1>2, <1>4, <1>5 DEF IInv, OpInv
<1>9. OneOpPerRound'
  <2>1. \A q \in Op \ {o} : ops[q].round # r
    BY <1>1 DEF Asked
  <2> QED BY <2>1, <1>4, <1>5 DEF IInv, OneOpPerRound
<1>10. ASSUME NEW q \in Proc PROVE CliInv(q)'
  <2>1. CASE q = p
    BY <2>1, <1>1, <1>2, <1>3, <1>4, <1>5 DEF CliInv
  <2>2. CASE q # p
    <3>1. cli'[q] = cli[q] /\ CliInv(q) /\ cli[q] \in Clis
      BY <2>2, <1>5 DEF IInv, TypeOK
    <3>2. cli[q].pc \in {"claimed", "calling"} =>
            cli[q].round # r /\ cli[q].round \in Round
      BY <2>2, <1>0, <1>1 DEF IInv, OneClaimer, CliInv
    <3>3. cli[q].pc = "claimed" => Asked(cli[q].round)' = Asked(cli[q].round)
      BY <3>1, <3>2, <1>2, <1>4, <1>5 DEF Asked
    <3>4. /\ cli[q].pc = "calling" => cli[q].op # o
          /\ cli[q].pc \in {"told", "retold"} /\ cli[q].told \in Ends => cli[q].op # o
      BY <3>1, <1>2 DEF CliInv, Ends
    <3> QED BY <3>1, <3>3, <3>4, <1>2, <1>5 DEF CliInv
  <2> QED BY <2>1, <2>2
<1>11. OneClaimer'
  BY <1>0, <1>1, <1>3, <1>5 DEF IInv, OneClaimer
<1> QED BY <1>6, <1>7, <1>8, <1>9, <1>10, <1>11 DEF IInv

\* Sending a memo keeps it (cli/anchor.ts).
LEMMA SendMemoIInv ==
  ASSUME IInv, NEW p \in Proc, NEW s \in Sig, SendMemo(p, s) PROVE IInv'
<1> DEFINE c == [cli[p] EXCEPT !.pc = "memoed", !.sig = s]
           new == [state |-> "sent", round |-> cli[p].round, tx |-> cli[p].tx]
<1>1. /\ cli[p] \in Clis /\ cli[p].pc = "anchoring" /\ CliInv(p)
      /\ cli[p].round \in Round
  BY DEF SendMemo, IInv, TypeOK, CliInv
<1>2. /\ memos[s].state = "unused"
      /\ memos' = [memos EXCEPT ![s] = new] /\ cli' = [cli EXCEPT ![p] = c]
      /\ UNCHANGED <<row, ops, onChain>>
  BY DEF SendMemo, IInv, TypeOK
<1>3. /\ c \in Clis /\ c.pc = "memoed" /\ c.round = cli[p].round
      /\ c.tx = cli[p].tx /\ c.sig = s
  BY <1>1 DEF Clis, Pcs
<1>4. /\ new \in Memos /\ new.state = "sent"
      /\ new.round = cli[p].round /\ new.tx = cli[p].tx
  BY <1>1 DEF Memos, Clis
<1> HIDE DEF c, new
<1>5. /\ memos'[s] = new /\ \A q \in Sig \ {s} : memos'[q] = memos[q]
      /\ cli'[p] = c /\ \A q \in Proc \ {p} : cli'[q] = cli[q]
  BY <1>2 DEF IInv, TypeOK
<1>6. TypeOK'
  BY <1>2, <1>3, <1>4 DEF IInv, TypeOK
<1>7. ASSUME NEW q \in Round PROVE RowInv(q)'
  <2>1. RowInv(q) /\ row[q] \in Rows /\ Asked(q)' = Asked(q)
    BY <1>2 DEF IInv, TypeOK, Asked
  <2>2. row[q].anchor # None => row[q].anchor \in Sig /\ row[q].anchor # s
    BY <2>1, <1>2 DEF RowInv, Rows, Confirmed
  <2>3. row[q].anchor # None => memos'[row[q].anchor] = memos[row[q].anchor]
    BY <1>5, <2>2
  <2> QED BY <2>1, <2>3, <1>2 DEF RowInv, Accepted
<1>8. (\A o \in Op : OpInv(o)') /\ OneOpPerRound'
  BY <1>2 DEF IInv, OpInv, OneOpPerRound
<1>9. ASSUME NEW q \in Proc PROVE CliInv(q)'
  <2>1. CASE q = p
    BY <2>1, <1>1, <1>2, <1>3, <1>4, <1>5 DEF CliInv
  <2>2. CASE q # p
    <3>1. cli'[q] = cli[q] /\ CliInv(q) /\ Asked(cli[q].round)' = Asked(cli[q].round)
      BY <2>2, <1>2, <1>5 DEF IInv, Asked
    <3>2. cli[q].pc = "memoed" => cli[q].sig # s
      BY <1>2 DEF IInv, CliInv
    <3> QED BY <3>1, <3>2, <1>2, <1>5 DEF CliInv
  <2> QED BY <2>1, <2>2
<1>10. OneClaimer'
  BY <1>1, <1>3, <1>5 DEF IInv, OneClaimer
<1> QED BY <1>6, <1>7, <1>8, <1>9, <1>10 DEF IInv

-----------------------------------------------------------------------------
(* The wallet, the operator and the chains.                                *)

\* A step of the wallet: operation o moves on for the same round, an operation
\* that has ended stays as it is, and what it paid with is on the chain.
LEMMA WalletStep ==
  ASSUME IInv, NEW o \in Op, NEW new \in Calls, NEW chain \in SUBSET Tx,
         ops' = [ops EXCEPT ![o] = new], onChain' = chain, onChain \subseteq chain,
         UNCHANGED <<row, cli, memos>>,
         ops[o].state \in {"requested", "executing"}, new.state # "unused",
         new.round = ops[o].round, new.state = "paid" => new.tx \in chain,
         ops[o].state = "executing" => new.state \in {"executing"} \cup Ends
  PROVE  IInv'
<1>1. ops'[o] = new /\ \A q \in Op \ {o} : ops'[q] = ops[q]
  BY DEF IInv, TypeOK
<1>2. TypeOK'
  BY DEF IInv, TypeOK
<1>3. \A q \in Op : ops'[q].round = ops[q].round
  BY <1>1
<1>4. ASSUME NEW q \in Round PROVE RowInv(q)'
  <2>1. RowInv(q) /\ row[q] \in Rows /\ Asked(q)' = Asked(q)
    BY <1>3 DEF IInv, TypeOK, Asked
  <2>2. /\ row[q].settlement = "wallet" => row[q].op # o
        /\ row[q].dispatch = "failed" /\ row[q].op # None => row[q].op # o
    BY <2>1 DEF RowInv
  <2>3. row[q].op # None => row[q].op \in Op
    BY <2>1 DEF Rows
  <2>4. /\ row[q].op # None => ops'[row[q].op].round = q
        /\ row[q].op # None => ops'[row[q].op].state \in {"executing"} \cup Ends
    BY <2>1, <2>3, <1>1, <1>3 DEF RowInv, Accepted, Ends
  <2>5. /\ row[q].settlement = "wallet" => ops'[row[q].op] = ops[row[q].op]
        /\ row[q].dispatch = "failed" /\ row[q].op # None =>
             ops'[row[q].op] = ops[row[q].op]
    BY <2>1, <2>2, <2>3, <1>1 DEF RowInv
  <2> QED BY <2>1, <2>4, <2>5 DEF RowInv, Accepted
<1>5. ASSUME NEW q \in Op PROVE OpInv(q)'
  BY <1>1 DEF IInv, OpInv
<1>6. OneOpPerRound'
  BY <1>3 DEF IInv, OneOpPerRound
<1>7. ASSUME NEW q \in Proc PROVE CliInv(q)'
  <2>1. CliInv(q) /\ Asked(cli[q].round)' = Asked(cli[q].round)
    BY <1>3 DEF IInv, Asked
  <2>2. /\ cli[q].pc \in {"told", "retold"} /\ cli[q].told \in Ends =>
             cli[q].op \in Op /\ ops'[cli[q].op] = ops[cli[q].op]
        /\ cli[q].pc = "calling" => ops'[cli[q].op].round = ops[cli[q].op].round
    BY <2>1, <1>1, <1>3 DEF CliInv, Ends
  <2> QED BY <2>1, <2>2 DEF CliInv
<1>8. OneClaimer'
  BY DEF IInv, OneClaimer
<1> QED BY <1>2, <1>4, <1>5, <1>6, <1>7, <1>8 DEF IInv

\* The wallet taking or refusing a call keeps it.
LEMMA WalletAnswersIInv ==
  ASSUME IInv, NEW o \in Op, NEW to \in {"executing", "refused"}, WalletAnswers(o, to)
  PROVE  IInv'
<1> DEFINE new == [ops[o] EXCEPT !.state = to]
<1>1. ops[o] \in Calls /\ ops[o].state = "requested" /\ onChain \in SUBSET Tx
  BY DEF WalletAnswers, IInv, TypeOK
<1>2. new \in Calls /\ new.state = to /\ new.round = ops[o].round
  BY <1>1 DEF Calls
<1>3. ops' = [ops EXCEPT ![o] = new] /\ UNCHANGED <<row, cli, onChain, memos>>
  BY DEF WalletAnswers, IInv, TypeOK
<1> HIDE DEF new
<1> QED BY <1>1, <1>2, <1>3, WalletStep

\* The wallet finishing an operation keeps it.
LEMMA WalletFinishesIInv ==
  ASSUME IInv, NEW o \in Op, NEW end \in Outcomes, WalletFinishes(o, end) PROVE IInv'
<1>1. /\ ops[o] \in Calls /\ ops[o].state = "executing" /\ end \in Ends
      /\ onChain \in SUBSET Tx
  BY DEF WalletFinishes, IInv, TypeOK
<1>2. CASE end \in {"paid", "built"}
  <2>1. PICK t \in Tx :
          /\ ops' = [ops EXCEPT ![o].state = end, ![o].tx = t]
          /\ onChain' = IF end = "paid" THEN onChain \cup {t} ELSE onChain
    BY <1>2 DEF WalletFinishes
  <2> DEFINE new == [ops[o] EXCEPT !.state = end, !.tx = t]
             chain == IF end = "paid" THEN onChain \cup {t} ELSE onChain
  <2>2. new \in Calls /\ new.state = end /\ new.round = ops[o].round /\ new.tx = t
    BY <1>1 DEF Calls
  <2>3. ops' = [ops EXCEPT ![o] = new] /\ UNCHANGED <<row, cli, memos>>
    BY <2>1 DEF WalletFinishes, IInv, TypeOK
  <2>4. /\ onChain' = chain /\ chain \in SUBSET Tx /\ onChain \subseteq chain
        /\ end = "paid" => t \in chain
    BY <1>1, <2>1
  <2> HIDE DEF new, chain
  <2> QED BY <1>1, <2>2, <2>3, <2>4, WalletStep DEF Ends
<1>3. CASE end \notin {"paid", "built"}
  <2> DEFINE new == [ops[o] EXCEPT !.state = end]
  <2>1. new \in Calls /\ new.state = end /\ new.round = ops[o].round
    BY <1>1 DEF Calls
  <2>2. ops' = [ops EXCEPT ![o] = new] /\ UNCHANGED <<row, cli, onChain, memos>>
    BY <1>3 DEF WalletFinishes, IInv, TypeOK
  <2> HIDE DEF new
  <2> QED BY <1>1, <1>3, <2>1, <2>2, WalletStep DEF Ends
<1> QED BY <1>2, <1>3

\* The operator's own payment keeps it.
LEMMA HandPaymentIInv ==
  ASSUME IInv, NEW t \in Tx, HandPayment(t) PROVE IInv'
<1> USE DEF HandPayment
<1>1. TypeOK'
  BY DEF IInv, TypeOK
<1>2. \A r \in Round : RowInv(r)'
  BY DEF IInv, RowInv, Asked, Accepted
<1>3. (\A o \in Op : OpInv(o)') /\ OneOpPerRound'
  BY DEF IInv, OpInv, OneOpPerRound
<1>4. (\A p \in Proc : CliInv(p)') /\ OneClaimer'
  BY DEF IInv, CliInv, OneClaimer, Asked
<1> QED BY <1>1, <1>2, <1>3, <1>4 DEF IInv

\* A memo confirmed on Solana, landed or failed, keeps it.
LEMMA MemoLandsIInv ==
  ASSUME IInv, NEW s \in Sig, NEW end \in Confirmed, MemoLands(s, end) PROVE IInv'
<1>1. /\ UNCHANGED <<row, cli, ops, onChain>>
      /\ \A q \in Sig : /\ memos'[q].round = memos[q].round
                        /\ memos'[q].tx = memos[q].tx
                        /\ memos[q].state # "unused" => memos'[q].state # "unused"
                        /\ memos[q].state \in Confirmed => memos'[q].state \in Confirmed
  BY DEF MemoLands, IInv, TypeOK, Memos, Confirmed
<1>2. TypeOK'
  <2>1. [memos[s] EXCEPT !.state = end] \in Memos
    BY DEF IInv, TypeOK, Memos
  <2> QED BY <2>1, <1>1 DEF MemoLands, IInv, TypeOK
<1>3. ASSUME NEW r \in Round PROVE RowInv(r)'
  <2>1. RowInv(r) /\ row[r] \in Rows /\ Asked(r)' = Asked(r)
    BY <1>1 DEF IInv, TypeOK, Asked
  <2>2. row[r].anchor # None => row[r].anchor \in Sig
    BY <2>1 DEF Rows
  <2> QED BY <2>1, <2>2, <1>1 DEF RowInv, Accepted
<1>4. (\A o \in Op : OpInv(o)') /\ OneOpPerRound'
  BY <1>1 DEF IInv, OpInv, OneOpPerRound
<1>5. ASSUME NEW p \in Proc PROVE CliInv(p)'
  <2>1. CliInv(p) /\ Asked(cli[p].round)' = Asked(cli[p].round)
    BY <1>1 DEF IInv, Asked
  <2> QED BY <2>1, <1>1 DEF CliInv
<1>6. OneClaimer'
  BY <1>1 DEF IInv, OneClaimer
<1> QED BY <1>2, <1>3, <1>4, <1>5, <1>6 DEF IInv

\* A step that changes nothing keeps it.
LEMMA StutterIInv == ASSUME IInv, UNCHANGED vars PROVE IInv'
BY DEF vars, IInv, TypeOK, RowInv, OpInv, OneOpPerRound, CliInv, OneClaimer,
       Asked, Accepted

\* Every step of a command keeps it.
LEMMA CommandIInv == ASSUME IInv, NEW p \in Proc, Command(p) PROVE IInv'
<1>1. CASE \E r \in Round : PlanSend(p, r) \/ LoadResume(p, r) \/ LoadAnchor(p, r)
  BY <1>1, PlanSendIInv, LoadResumeIInv, LoadAnchorIInv
<1>2. CASE \E r \in Round, t \in Tx : LoadSettle(p, r, t)
  BY <1>2, LoadSettleIInv
<1>3. CASE \E r \in Round, s \in Sig : LoadRecovery(p, r, s)
  BY <1>3, LoadRecoveryIInv
<1>4. CASE (\E o \in Op : SendMany(p, o)) \/ (\E s \in Sig : SendMemo(p, s))
  BY <1>4, SendManyIInv, SendMemoIInv
<1>5. CASE Begin(p) \/ RecordOperation(p) \/ SendManyThrows(p) \/ AskStatus(p)
  BY <1>5, BeginIInv, RecordOperationIInv, SendManyThrowsIInv, AskStatusIInv
<1>6. CASE Poll(p) \/ Resume(p) \/ Lookup(p) \/ SettleExternally(p) \/ RecordAnchor(p)
  BY <1>6, PollIInv, ResumeIInv, LookupIInv, SettleExternallyIInv, RecordAnchorIInv
<1>7. CASE Stop(p)
  BY <1>7, ExitIInv DEF Stop
<1> QED BY <1>1, <1>2, <1>3, <1>4, <1>5, <1>6, <1>7 DEF Command

\* Every step of the wallet and the chains keeps it.
LEMMA OutsideIInv == ASSUME IInv, Outside PROVE IInv'
BY WalletAnswersIInv, WalletFinishesIInv, HandPaymentIInv, MemoLandsIInv DEF Outside

\* The inductive invariant is inductive.
LEMMA NextIInv == IInv /\ [Next]_vars => IInv'
BY CommandIInv, OutsideIInv, StutterIInv DEF Next

-----------------------------------------------------------------------------
\* Every reachable state is well typed and satisfies the inductive invariant.
THEOREM SpecIInv == Spec => []IInv
BY InitIInv, NextIInv, PTL DEF Spec

\* The dispatch columns, the processes and the wallet keep their types, for any
\* number of rounds and processes (payouts.ts:302-319).
THEOREM SpecTypeOK == Spec => []TypeOK
<1>1. IInv => TypeOK
  BY DEF IInv
<1> QED BY <1>1, SpecIInv, PTL

\* z_sendmany is called at most once for a round however many processes send,
\* resume and settle it (dispatch.ts:70-83, payouts.ts:361-390).
THEOREM SpecPaidAtMostOnce == Spec => []PaidAtMostOnce
<1>1. IInv => PaidAtMostOnce
  <2> SUFFICES ASSUME IInv, NEW r \in Round
      PROVE /\ \A o1, o2 \in Asked(r) : o1 = o2
            /\ Asked(r) # {} => /\ row[r].dispatch # "planned"
                                /\ row[r].settlement # "external"
    BY DEF PaidAtMostOnce
  <2>1. \A o1, o2 \in Asked(r) : o1 = o2
    BY DEF IInv, OneOpPerRound, Asked
  <2>2. RowInv(r)
    BY DEF IInv
  <2> QED BY <2>1, <2>2 DEF RowInv
<1> QED BY <1>1, SpecIInv, PTL

\* What the books record of a payment is what the wallet and the chain did.
THEOREM SpecBooksAreTrue == Spec => []BooksAreTrue
<1>1. IInv => BooksAreTrue
  <2> SUFFICES ASSUME IInv, NEW r \in Round
      PROVE /\ row[r].dispatch = "sent" =>
                 /\ row[r].txid \in onChain
                 /\ row[r].settlement = "wallet" =>
                      \E o \in Asked(r) : /\ row[r].op = o
                                          /\ ops[o].state = "paid"
                                          /\ ops[o].tx = row[r].txid
            /\ row[r].dispatch = "failed" /\ row[r].op # None =>
                 ops[row[r].op].state \in {"built", "failed", "cancelled"}
    BY DEF BooksAreTrue
  <2>1. RowInv(r) /\ row[r] \in Rows
    BY DEF IInv, TypeOK
  <2>2. row[r].op # None => row[r].op \in Asked(r)
    BY <2>1 DEF RowInv, Rows, Asked
  <2> QED BY <2>1, <2>2 DEF RowInv
<1> QED BY <1>1, SpecIInv, PTL

\* An anchor commits to the transaction the books name (cli/anchor.ts).
THEOREM SpecAnchorIsTrue == Spec => []AnchorIsTrue
<1>1. IInv => AnchorIsTrue
  BY DEF IInv, RowInv, AnchorIsTrue
<1> QED BY <1>1, SpecIInv, PTL

\* Between claiming a round and hearing its operation id, a process is alone
\* with it (dispatch.ts:70-112): the others at work on a round know its
\* operation, and the round of a claimer has none.
THEOREM SpecOnlyOneOwner == Spec => []OnlyOneOwner
<1>1. IInv => OnlyOneOwner
  <2> SUFFICES ASSUME IInv, NEW p \in Proc, NEW q \in Proc, p # q,
                      cli[p].pc \in {"claimed", "calling"},
                      cli[q].pc \in {"claimed", "calling", "polling", "told",
                                     "resuming", "retold"}
               PROVE  cli[p].round # cli[q].round
    BY DEF OnlyOneOwner
  <2>1. CASE cli[q].pc \in {"claimed", "calling"}
    BY <2>1 DEF IInv, OneClaimer
  <2>2. CASE cli[q].pc \in {"polling", "told", "resuming", "retold"}
    <3>1. row[cli[p].round].op = None
      BY DEF IInv, CliInv
    <3>2. row[cli[q].round].op = cli[q].op /\ cli[q].op \in Op
      BY <2>2 DEF IInv, CliInv
    <3> QED BY <3>1, <3>2, DispatchAssumption
  <2> QED BY <2>1, <2>2
<1> QED BY <1>1, SpecIInv, PTL

-----------------------------------------------------------------------------
(* What a step may do to a row: the step simulation behind both the action *)
(* property and the refinement.                                            *)

\* A process that acts on a paid answer finds its round in sending, or already
\* recorded as sent with that very transaction.
LEMMA CompleteEffect ==
  ASSUME IInv, NEW p \in Proc, cli[p].pc \in {"told", "retold"}, cli[p].told = "paid"
  PROVE  LET r == cli[p].round IN
         /\ r \in Round /\ row[r].op # None /\ cli[p].tx \in Tx
         /\ row[r].settlement # "external"
         /\ \/ row[r].dispatch = "sending"
            \/ /\ row[r].dispatch = "sent" /\ row[r].txid = cli[p].tx
               /\ row[r].settlement = "wallet"
<1> DEFINE r == cli[p].round
<1>1. /\ r \in Round /\ row[r].op = cli[p].op /\ cli[p].op \in Op
      /\ ops[cli[p].op].state = "paid" /\ ops[cli[p].op].tx = cli[p].tx
      /\ RowInv(r) /\ row[r] \in Rows
  BY DEF IInv, TypeOK, CliInv, Ends
<1>2. cli[p].tx \in Tx
  BY <1>1 DEF IInv, TypeOK, OpInv
<1> QED BY <1>1, <1>2 DEF RowInv, Rows, States

\* A process that acts on any other end finds its round in sending or failed.
LEMMA MarkFailedEffect ==
  ASSUME IInv, NEW p \in Proc, cli[p].pc \in {"told", "retold"},
         cli[p].told \in {"built", "failed", "cancelled"}
  PROVE  LET r == cli[p].round IN
         /\ r \in Round /\ row[r].op # None
         /\ row[r].settlement = None
         /\ row[r].dispatch \in {"sending", "failed"}
<1> DEFINE r == cli[p].round
<1>1. /\ r \in Round /\ row[r].op = cli[p].op /\ cli[p].op \in Op
      /\ ops[cli[p].op].state = cli[p].told /\ RowInv(r) /\ row[r] \in Rows
  BY DEF IInv, TypeOK, CliInv, Ends
<1> QED BY <1>1 DEF RowInv, Rows, States

\* The changes a step can make to the dispatch columns.
RowChanges ==
  \/ UNCHANGED row
  \/ \E r \in Round :
       \/ /\ row[r].dispatch = "planned"
          /\ row' = [row EXCEPT ![r] = [row[r] EXCEPT !.dispatch = "sending"]]
       \/ /\ row[r].dispatch = "sending" /\ row[r].op = None
          /\ \E o \in Op : row' = [row EXCEPT ![r] = [row[r] EXCEPT !.op = o]]
       \/ /\ row[r].dispatch = "sending" /\ Asked(r) # {}
          /\ row' = [row EXCEPT ![r] = [row[r] EXCEPT !.dispatch = "failed"]]
       \/ /\ row[r].dispatch = "sending" /\ Asked(r) # {}
          /\ \E t \in Tx : row' = [row EXCEPT ![r] =
               [row[r] EXCEPT !.dispatch = "sent", !.txid = t, !.settlement = "wallet"]]
       \/ /\ row[r].dispatch = "planned"
          /\ \E t \in Tx : row' = [row EXCEPT ![r] =
               [row[r] EXCEPT !.dispatch = "sent", !.settlement = "external", !.txid = t]]
       \/ /\ row[r].dispatch = "sent" /\ row[r].anchor = None
          /\ \E s \in Sig : row' = [row EXCEPT ![r] = [row[r] EXCEPT !.anchor = s]]

\* Recording a payment changes a row as RoundPayment allows.
LEMMA CompleteChanges ==
  ASSUME IInv, NEW p \in Proc, cli[p].pc \in {"told", "retold"}, cli[p].told = "paid",
         Complete(cli[p].round, cli[p].tx)
  PROVE  RowChanges
<1>1. PICK r \in Round : r = cli[p].round
  BY CompleteEffect
<1>2. row[r] \in Rows /\ RowInv(r)
  BY DEF IInv, TypeOK
<1>3. row' = [row EXCEPT ![r] = [row[r] EXCEPT !.dispatch = "sent",
                                 !.txid = cli[p].tx, !.settlement = "wallet"]]
  BY <1>1 DEF Complete, Write
<1>4. CASE row[r].dispatch = "sending"
  <2>1. row[r].op \in Asked(r) /\ cli[p].tx \in Tx
    BY <1>1, <1>2, CompleteEffect DEF RowInv, Rows, Asked
  <2> QED BY <1>3, <1>4, <2>1 DEF RowChanges
<1>5. CASE row[r].dispatch # "sending"
  <2>1. row[r].dispatch = "sent" /\ row[r].txid = cli[p].tx /\ row[r].settlement = "wallet"
    BY <1>1, <1>5, CompleteEffect
  <2>2. [row[r] EXCEPT !.dispatch = "sent", !.txid = cli[p].tx,
                       !.settlement = "wallet"] = row[r]
    BY <1>2, <2>1 DEF Rows
  <2>3. row' = row
    BY <1>3, <2>2 DEF IInv, TypeOK
  <2> QED BY <2>3 DEF RowChanges
<1> QED BY <1>4, <1>5

\* Recording a failure changes a row as RoundPayment allows.
LEMMA MarkFailedChanges ==
  ASSUME IInv, NEW p \in Proc, cli[p].pc \in {"told", "retold"},
         cli[p].told \in {"built", "failed", "cancelled"}, MarkFailed(cli[p].round)
  PROVE  RowChanges
<1>1. PICK r \in Round : r = cli[p].round
  BY MarkFailedEffect
<1>2. row[r] \in Rows /\ RowInv(r)
  BY DEF IInv, TypeOK
<1>3. row' = [row EXCEPT ![r] = [row[r] EXCEPT !.dispatch = "failed"]]
  BY <1>1 DEF MarkFailed, Write
<1>4. CASE row[r].dispatch = "sending"
  <2>1. row[r].op \in Asked(r)
    BY <1>1, <1>2, MarkFailedEffect DEF RowInv, Rows, Asked
  <2> QED BY <1>3, <1>4, <2>1 DEF RowChanges
<1>5. CASE row[r].dispatch # "sending"
  <2>1. row[r].dispatch = "failed"
    BY <1>1, <1>5, MarkFailedEffect
  <2>2. [row[r] EXCEPT !.dispatch = "failed"] = row[r]
    BY <1>2, <2>1 DEF Rows
  <2>3. row' = row
    BY <1>3, <2>2 DEF IInv, TypeOK
  <2> QED BY <2>3 DEF RowChanges
<1> QED BY <1>4, <1>5

\* A step either changes one row in one of those ways, or calls the wallet.
LEMMA NextChanges ==
  ASSUME IInv, [Next]_vars
  PROVE  \/ RowChanges /\ \A r \in Round : Asked(r)' = Asked(r)
         \/ \E p \in Proc, o \in Op : SendMany(p, o)
<1>1. ASSUME NEW p \in Proc, Command(p), ~\E o \in Op : SendMany(p, o)
      PROVE  RowChanges /\ UNCHANGED ops
  <2>1. CASE \/ \E r \in Round : PlanSend(p, r) \/ LoadResume(p, r) \/ LoadAnchor(p, r)
             \/ \E r \in Round, t \in Tx : LoadSettle(p, r, t)
             \/ \E r \in Round, s \in Sig : LoadRecovery(p, r, s)
             \/ \E s \in Sig : SendMemo(p, s)
             \/ AskStatus(p) \/ Lookup(p) \/ Stop(p)
    BY <2>1 DEF RowChanges, PlanSend, LoadResume, LoadAnchor, LoadSettle,
                LoadRecovery, SendMemo, AskStatus, Lookup, Stop
  <2>2. CASE Begin(p)
    <3>1. CASE BeginGuard(cli[p].round)
      <4>1. PICK r \in Round : r = cli[p].round
        BY <2>2 DEF Begin, IInv, CliInv
      <4> QED BY <2>2, <3>1, <4>1 DEF Begin, BeginGuard, Write, RowChanges
    <3>2. CASE ~BeginGuard(cli[p].round)
      BY <2>2, <3>2 DEF Begin, RowChanges
    <3> QED BY <3>1, <3>2
  <2>3. CASE RecordOperation(p)
    <3>1. PICK r \in Round : r = cli[p].round
      BY <2>3 DEF RecordOperation, IInv, CliInv
    <3>2. row[r].dispatch = "sending" /\ row[r].op = None /\ cli[p].op \in Op
      BY <2>3, <3>1 DEF RecordOperation, IInv, CliInv
    <3> QED BY <2>3, <3>1, <3>2 DEF RecordOperation, Write, RowChanges
  <2>4. CASE SendManyThrows(p)
    <3>1. PICK r \in Round : r = cli[p].round
      BY <2>4 DEF SendManyThrows, IInv, CliInv
    <3>2. row[r].dispatch = "sending" /\ cli[p].op \in Asked(r)
      <4>1. cli[p].pc = "calling" /\ CliInv(p)
        <5>1. cli[p].pc = "calling"
          BY <2>4 DEF SendManyThrows
        <5>2. CliInv(p)
          BY Zenon DEF IInv
        <5> QED BY <5>1, <5>2
      <4> QED BY <3>1, <4>1 DEF CliInv, Asked
    <3> QED BY <2>4, <3>1, <3>2 DEF SendManyThrows, MarkFailed, Write, RowChanges
  <2>5. CASE Poll(p)
    <3>1. cli[p].pc = "told" /\ UNCHANGED ops
      BY Zenon, <2>5 DEF Poll
    <3>2. \/ cli[p].told = "paid" /\ Complete(cli[p].round, cli[p].tx)
          \/ /\ cli[p].told \in {"built", "failed", "cancelled"}
             /\ MarkFailed(cli[p].round)
          \/ UNCHANGED row
      BY Zenon, <2>5 DEF Poll
    <3> QED BY <3>1, <3>2, CompleteChanges, MarkFailedChanges DEF RowChanges
  <2>6. CASE Resume(p)
    <3>1. cli[p].pc = "retold" /\ UNCHANGED ops
      BY <2>6 DEF Resume
    <3>2. \/ cli[p].told = "paid" /\ Complete(cli[p].round, cli[p].tx)
          \/ /\ cli[p].told \in {"built", "failed", "cancelled"}
             /\ MarkFailed(cli[p].round)
          \/ UNCHANGED row
      BY <2>6 DEF Resume
    <3> QED BY <3>1, <3>2, CompleteChanges, MarkFailedChanges DEF RowChanges
  <2>7. CASE SettleExternally(p)
    <3>1. CASE SettleGuard(cli[p].round)
      <4>1. PICK r \in Round : r = cli[p].round
        BY <2>7 DEF SettleExternally, IInv, CliInv
      <4>2. cli[p].tx \in Tx
        BY <2>7 DEF SettleExternally, IInv, TypeOK, CliInv
      <4> QED BY <2>7, <3>1, <4>1, <4>2
              DEF SettleExternally, SettleGuard, Write, RowChanges
    <3>2. CASE ~SettleGuard(cli[p].round)
      BY <2>7, <3>2 DEF SettleExternally, RowChanges
    <3> QED BY <2>7, <3>1, <3>2
  <2>8. CASE RecordAnchor(p)
    <3>1. CASE AnchorGuard(cli[p].round)
      <4>1. PICK r \in Round : r = cli[p].round
        BY <2>8 DEF RecordAnchor, IInv, CliInv
      <4>2. cli[p].sig \in Sig
        BY <2>8 DEF RecordAnchor, IInv, CliInv
      <4> QED BY <2>8, <3>1, <4>1, <4>2 DEF RecordAnchor, AnchorGuard, Write, RowChanges
    <3>2. CASE ~AnchorGuard(cli[p].round)
      BY <2>8, <3>2 DEF RecordAnchor, RowChanges
    <3> QED BY <2>8, <3>1, <3>2
  <2>9. \/ \/ \E r \in Round : PlanSend(p, r) \/ LoadResume(p, r) \/ LoadAnchor(p, r)
           \/ \E r \in Round, t \in Tx : LoadSettle(p, r, t)
           \/ \E r \in Round, s \in Sig : LoadRecovery(p, r, s)
           \/ \E s \in Sig : SendMemo(p, s)
           \/ AskStatus(p) \/ Lookup(p) \/ Stop(p)
        \/ Begin(p) \/ RecordOperation(p) \/ SendManyThrows(p) \/ Poll(p)
        \/ Resume(p) \/ SettleExternally(p) \/ RecordAnchor(p)
    <3>1. ASSUME NEW r \in Round,
                 \/ PlanSend(p, r) \/ LoadResume(p, r) \/ LoadAnchor(p, r)
                 \/ \E t \in Tx : LoadSettle(p, r, t)
                 \/ \E s \in Sig : LoadRecovery(p, r, s)
          PROVE  \/ \E q \in Round : PlanSend(p, q) \/ LoadResume(p, q) \/ LoadAnchor(p, q)
                 \/ \E q \in Round, t \in Tx : LoadSettle(p, q, t)
                 \/ \E q \in Round, s \in Sig : LoadRecovery(p, q, s)
      BY ONLY Zenon, <3>1
    <3> QED BY ONLY Zenon, <1>1, <3>1 DEF Command
  <2> QED BY ONLY Zenon, <2>1, <2>2, <2>3, <2>4, <2>5, <2>6, <2>7, <2>8, <2>9
<1>2. ASSUME Outside
      PROVE  RowChanges /\ \A o \in Op : ops'[o].round = ops[o].round
  <2>1. UNCHANGED row
    BY <1>2 DEF Outside, WalletAnswers, WalletFinishes, HandPayment, MemoLands
  <2>2. \A o \in Op : ops'[o].round = ops[o].round
    <3>1. ASSUME NEW o \in Op, NEW to \in {"executing", "refused"}, WalletAnswers(o, to)
          PROVE  \A q \in Op : ops'[q].round = ops[q].round
      BY <3>1 DEF WalletAnswers, IInv, TypeOK, Calls
    <3>2. ASSUME NEW o \in Op, NEW end \in Outcomes, WalletFinishes(o, end)
          PROVE  \A q \in Op : ops'[q].round = ops[q].round
      BY <3>2 DEF WalletFinishes, IInv, TypeOK, Calls
    <3> QED BY <1>2, <3>1, <3>2 DEF Outside, HandPayment, MemoLands
  <2> QED BY <2>1, <2>2 DEF RowChanges
<1>3. CASE UNCHANGED vars
  BY <1>3 DEF vars, RowChanges, Asked
<1> QED BY <1>1, <1>2, <1>3 DEF Next, Asked

\* A verdict, its transaction, how it was settled and the anchor are final
\* (payouts.ts:361-390, 432-446).
THEOREM SpecVerdictIsFinal == Spec => VerdictIsFinal
<1> DEFINE Kept == \A r \in Round :
             /\ row[r].dispatch \in {"sent", "failed"} =>
                  /\ row'[r].dispatch = row[r].dispatch
                  /\ row'[r].txid = row[r].txid
                  /\ row'[r].settlement = row[r].settlement
             /\ row[r].anchor # None => row'[r].anchor = row[r].anchor
<1>1. IInv /\ [Next]_vars => Kept
  <2> SUFFICES ASSUME IInv, [Next]_vars PROVE Kept
    OBVIOUS
  <2>1. CASE RowChanges
    <3>1. CASE UNCHANGED row
      BY <3>1
    <3>2. ASSUME NEW r \in Round, NEW new, row' = [row EXCEPT ![r] = new],
                 \/ /\ row[r].dispatch \in {"planned", "sending"}
                    /\ new.anchor = row[r].anchor
                 \/ /\ new.dispatch = row[r].dispatch /\ new.txid = row[r].txid
                    /\ new.settlement = row[r].settlement
                    /\ row[r].anchor = None
          PROVE  Kept
      BY <3>2 DEF IInv, TypeOK
    <3>3. \A r \in Round : row[r] \in Rows
      BY DEF IInv, TypeOK
    <3> HIDE DEF Kept
    <3> QED BY <2>1, <3>1, <3>2, <3>3 DEF RowChanges, Rows
  <2>2. CASE \E p \in Proc, o \in Op : SendMany(p, o)
    BY <2>2 DEF SendMany
  <2> QED BY <2>1, <2>2, NextChanges
<1>2. IInv /\ [Next]_vars => [Kept]_vars
  BY <1>1
<1> QED BY <1>2, SpecIInv, PTL DEF Spec, VerdictIsFinal

-----------------------------------------------------------------------------
(* Refinement: Dispatch keeps the promise of RoundPayment.                 *)

\* The initial rows map to an initial state of RoundPayment.
LEMMA InitPromise == Init => Promise!Init
<1> SUFFICES ASSUME Init PROVE Promise!Init
  OBVIOUS
<1>1. ASSUME NEW r \in Round
      PROVE  /\ Way(r) = "open" /\ Verdict(r) = "none" /\ Asked(r) = {}
             /\ row[r].txid = None /\ row[r].anchor = None
  <2>1. row[r].dispatch = "planned" /\ row[r].txid = None /\ row[r].anchor = None
    BY DEF Init
  <2>2. Asked(r) = {}
    BY DEF Init, Asked, Unused
  <2> QED BY <2>1, <2>2 DEF Way, Verdict
<1> QED BY <1>1 DEF Promise!Init

\* The abstract values a step leaves alone: those of every row but one, and of
\* that one whatever is not listed as changed.
LEMMA RowStepPromise ==
  ASSUME IInv, NEW r \in Round, NEW new \in Rows, row' = [row EXCEPT ![r] = new],
         \A q \in Round : Asked(q)' = Asked(q)
  PROVE  /\ row'[r] = new
         /\ \A q \in Round : q # r => /\ Way(q)' = Way(q) /\ Verdict(q)' = Verdict(q)
                                      /\ row'[q] = row[q]
BY DEF IInv, TypeOK, Way, Verdict

\* What a row changes to, in one step.
Change(r, new) ==
  \/ /\ row[r].dispatch = "planned"
     /\ new = [row[r] EXCEPT !.dispatch = "sending"]
  \/ /\ row[r].dispatch = "sending" /\ row[r].op = None
     /\ \E o \in Op : new = [row[r] EXCEPT !.op = o]
  \/ /\ row[r].dispatch = "sending" /\ Asked(r) # {}
     /\ new = [row[r] EXCEPT !.dispatch = "failed"]
  \/ /\ row[r].dispatch = "sending" /\ Asked(r) # {}
     /\ \E t \in Tx : new = [row[r] EXCEPT !.dispatch = "sent", !.txid = t,
                                           !.settlement = "wallet"]
  \/ /\ row[r].dispatch = "planned"
     /\ \E t \in Tx : new = [row[r] EXCEPT !.dispatch = "sent", !.settlement = "external",
                                           !.txid = t]
  \/ /\ row[r].dispatch = "sent" /\ row[r].anchor = None
     /\ \E s \in Sig : new = [row[r] EXCEPT !.anchor = s]

\* A step that rewrites one row and asks nothing of the wallet is a step of the
\* promise, one abstract action for each way a row may change.
LEMMA RowPromise ==
  ASSUME IInv, RowChanges, ~(UNCHANGED row), \A q \in Round : Asked(q)' = Asked(q)
  PROVE  [Promise!Next]_Promise!vars
<1>1. PICK r \in Round, new \in Rows :
        /\ row' = [row EXCEPT ![r] = new]
        /\ Change(r, new)
  <2>1. \A q \in Round : row[q] \in Rows
    BY DEF IInv, TypeOK
  <2>2. \A q \in Round :
          /\ [row[q] EXCEPT !.dispatch = "sending"] \in Rows
          /\ [row[q] EXCEPT !.dispatch = "failed"] \in Rows
          /\ \A o \in Op : [row[q] EXCEPT !.op = o] \in Rows
          /\ \A s \in Sig : [row[q] EXCEPT !.anchor = s] \in Rows
    BY <2>1 DEF Rows, States
  <2>3. ASSUME NEW q \in Round, NEW t \in Tx
        PROVE  /\ [row[q] EXCEPT !.dispatch = "sent", !.txid = t, !.settlement = "wallet"]
                    \in Rows
               /\ [row[q] EXCEPT !.dispatch = "sent", !.settlement = "external",
                                !.txid = t] \in Rows
    <3>1. row[q] \in Rows
      BY <2>1
    <3>2. ASSUME NEW v \in Rows
          PROVE  /\ [v EXCEPT !.dispatch = "sent"] \in Rows
                 /\ [v EXCEPT !.txid = t] \in Rows
                 /\ [v EXCEPT !.settlement = "wallet"] \in Rows
                 /\ [v EXCEPT !.settlement = "external"] \in Rows
      BY DEF Rows, States
    <3>3. [row[q] EXCEPT !.dispatch = "sent", !.txid = t, !.settlement = "wallet"] \in Rows
      BY <3>1, <3>2
    <3>4. [row[q] EXCEPT !.dispatch = "sent", !.settlement = "external", !.txid = t] \in Rows
      BY <3>1, <3>2
    <3> QED BY <3>3, <3>4
  <2>4. PICK r \in Round : RowChanges!2!(r)
    BY DEF RowChanges
  <2> SUFFICES \E new \in Rows : row' = [row EXCEPT ![r] = new] /\ Change(r, new)
    OBVIOUS
  <2>5. CASE /\ row[r].dispatch = "planned"
             /\ row' = [row EXCEPT ![r] = [row[r] EXCEPT !.dispatch = "sending"]]
    <3>1. Change(r, [row[r] EXCEPT !.dispatch = "sending"])
      BY <2>5 DEF Change
    <3> QED BY <2>2, <2>5, <3>1
  <2>6. CASE /\ row[r].dispatch = "sending" /\ row[r].op = None
             /\ \E o \in Op : row' = [row EXCEPT ![r] = [row[r] EXCEPT !.op = o]]
    <3>1. \A o \in Op : Change(r, [row[r] EXCEPT !.op = o])
      BY <2>6 DEF Change
    <3> QED BY <2>2, <2>6, <3>1
  <2>7. CASE /\ row[r].dispatch = "sending" /\ Asked(r) # {}
             /\ row' = [row EXCEPT ![r] = [row[r] EXCEPT !.dispatch = "failed"]]
    <3>1. Change(r, [row[r] EXCEPT !.dispatch = "failed"])
      BY <2>7 DEF Change
    <3> QED BY <2>2, <2>7, <3>1
  <2>8. CASE /\ row[r].dispatch = "sending" /\ Asked(r) # {}
             /\ \E t \in Tx : row' = [row EXCEPT ![r] =
                  [row[r] EXCEPT !.dispatch = "sent", !.txid = t, !.settlement = "wallet"]]
    <3>1. \A t \in Tx : Change(r, [row[r] EXCEPT !.dispatch = "sent", !.txid = t,
                                                 !.settlement = "wallet"])
      BY <2>8 DEF Change
    <3> QED BY <2>3, <2>8, <3>1
  <2>9. CASE /\ row[r].dispatch = "planned"
             /\ \E t \in Tx : row' = [row EXCEPT ![r] =
                  [row[r] EXCEPT !.dispatch = "sent", !.settlement = "external", !.txid = t]]
    <3>1. \A t \in Tx : Change(r, [row[r] EXCEPT !.dispatch = "sent",
                                                 !.settlement = "external", !.txid = t])
      BY <2>9 DEF Change
    <3> QED BY <2>3, <2>9, <3>1
  <2>10. CASE /\ row[r].dispatch = "sent" /\ row[r].anchor = None
              /\ \E s \in Sig : row' = [row EXCEPT ![r] = [row[r] EXCEPT !.anchor = s]]
    <3>1. \A s \in Sig : Change(r, [row[r] EXCEPT !.anchor = s])
      BY <2>10 DEF Change
    <3> QED BY <2>2, <2>10, <3>1
  <2> QED BY <2>4, <2>5, <2>6, <2>7, <2>8, <2>9, <2>10
<1>2. RowInv(r) /\ row[r] \in Rows
  BY DEF IInv, TypeOK
<1>3. /\ row'[r] = new
      /\ \A q \in Round : q # r => /\ Way(q)' = Way(q) /\ Verdict(q)' = Verdict(q)
                                   /\ row'[q] = row[q]
  BY <1>1, RowStepPromise
<1>4. \A q \in Round : Asked(q)' = Asked(q)
  OBVIOUS
<1>5. CASE row[r].dispatch = "planned" /\ new = [row[r] EXCEPT !.dispatch = "sending"]
  <2>1. /\ new.dispatch = "sending" /\ new.settlement = None
        /\ new.txid = row[r].txid /\ new.anchor = row[r].anchor
    BY <1>2, <1>5 DEF Rows, RowInv
  <2>2. /\ Way(r) = "open" /\ Way(r)' = "wallet"
        /\ Verdict(r) = "none" /\ Verdict(r)' = "none"
    BY <1>3, <1>5, <2>1, DispatchAssumption DEF Way, Verdict
  <2>3. Promise!Claim(r)
    BY <1>3, <1>4, <2>1, <2>2 DEF Promise!Claim
  <2> QED BY <2>3 DEF Promise!Next
<1>6. CASE /\ row[r].dispatch = "sending" /\ row[r].op = None
           /\ \E o \in Op : new = [row[r] EXCEPT !.op = o]
  <2>1. /\ new.dispatch = "sending" /\ new.settlement = row[r].settlement
        /\ new.txid = row[r].txid /\ new.anchor = row[r].anchor
    BY <1>2, <1>6 DEF Rows
  <2>2. Way(r)' = Way(r) /\ Verdict(r)' = Verdict(r)
    BY <1>3, <1>6, <2>1 DEF Way, Verdict
  <2> QED BY <1>3, <1>4, <2>1, <2>2 DEF Promise!vars
<1>7. CASE /\ row[r].dispatch = "sending" /\ Asked(r) # {}
           /\ new = [row[r] EXCEPT !.dispatch = "failed"]
  <2>1. /\ new.dispatch = "failed" /\ new.settlement = row[r].settlement
        /\ row[r].settlement = None
        /\ new.txid = row[r].txid /\ new.anchor = row[r].anchor
    BY <1>2, <1>7 DEF Rows, RowInv
  <2>2. /\ Way(r) = "wallet" /\ Way(r)' = "wallet"
        /\ Verdict(r) = "none" /\ Verdict(r)' = "failed"
    BY <1>3, <1>7, <2>1, DispatchAssumption DEF Way, Verdict
  <2>3. Promise!Fail(r)
    BY <1>3, <1>4, <1>7, <2>1, <2>2 DEF Promise!Fail
  <2> QED BY <2>3 DEF Promise!Next
<1>8. CASE /\ row[r].dispatch = "sending" /\ Asked(r) # {}
           /\ \E t \in Tx : new = [row[r] EXCEPT !.dispatch = "sent", !.txid = t,
                                                 !.settlement = "wallet"]
  <2>1. PICK t \in Tx : new = [row[r] EXCEPT !.dispatch = "sent", !.txid = t,
                                             !.settlement = "wallet"]
    BY <1>8
  <2>2. /\ new.dispatch = "sent" /\ new.settlement = "wallet"
        /\ row[r].settlement = None /\ new.txid = t /\ new.anchor = row[r].anchor
    BY <1>2, <1>8, <2>1 DEF Rows, RowInv
  <2>3. /\ Way(r) = "wallet" /\ Way(r)' = "wallet"
        /\ Verdict(r) = "none" /\ Verdict(r)' = "sent"
    BY <1>3, <1>8, <2>2, DispatchAssumption DEF Way, Verdict
  <2>4. /\ Asked(r) # {} /\ row'[r].txid = t /\ row'[r].anchor = row[r].anchor
        /\ \A q \in Round : q # r => row'[q] = row[q]
        /\ \A q \in Round : Way(q)' = Way(q) /\ (q # r => Verdict(q)' = Verdict(q))
    BY <1>3, <1>8, <2>2, <2>3
  <2> HIDE <1>1, <1>3, <1>8
  <2>5. Promise!Complete(r, t)
    BY <1>4, <2>3, <2>4 DEF Promise!Complete
  <2> QED BY <2>5 DEF Promise!Next
<1>9. CASE /\ row[r].dispatch = "planned"
           /\ \E t \in Tx : new = [row[r] EXCEPT !.dispatch = "sent", !.settlement = "external",
                                                 !.txid = t]
  <2>1. PICK t \in Tx : new = [row[r] EXCEPT !.dispatch = "sent", !.settlement = "external",
                                             !.txid = t]
    BY <1>9
  <2>2. /\ new.dispatch = "sent" /\ new.settlement = "external"
        /\ new.txid = t /\ new.anchor = row[r].anchor
    BY <1>2, <1>9, <2>1 DEF Rows, RowInv
  <2>3. /\ Way(r) = "open" /\ Way(r)' = "external"
        /\ Verdict(r)' = "sent"
    BY <1>3, <1>9, <2>2 DEF Way, Verdict
  <2>4. /\ row'[r].txid = t /\ row'[r].anchor = row[r].anchor
        /\ \A q \in Round : q # r => row'[q] = row[q]
        /\ \A q \in Round : Verdict(q)' = IF q = r THEN "sent" ELSE Verdict(q)
        /\ \A q \in Round : q # r => Way(q)' = Way(q)
    BY <1>3, <1>9, <2>2, <2>3
  <2> HIDE <1>1, <1>3, <1>9
  <2>5. Promise!Settle(r, t)
    BY <1>4, <2>3, <2>4 DEF Promise!Settle
  <2> QED BY <2>5 DEF Promise!Next
<1>10. CASE /\ row[r].dispatch = "sent" /\ row[r].anchor = None
            /\ \E s \in Sig : new = [row[r] EXCEPT !.anchor = s]
  <2>1. PICK s \in Sig : new = [row[r] EXCEPT !.anchor = s]
    BY <1>10
  <2>2. /\ new.dispatch = "sent" /\ new.settlement = row[r].settlement
        /\ new.txid = row[r].txid /\ new.anchor = s
    BY <1>2, <1>10, <2>1 DEF Rows
  <2>3. Way(r)' = Way(r) /\ Verdict(r)' = Verdict(r) /\ Verdict(r) = "sent"
    BY <1>3, <1>10, <2>2 DEF Way, Verdict
  <2>4. Promise!Anchor(r, s)
    BY <1>3, <1>4, <1>10, <2>2, <2>3 DEF Promise!Anchor
  <2> QED BY <2>4 DEF Promise!Next
<1> QED BY <1>1, <1>5, <1>6, <1>7, <1>8, <1>9, <1>10 DEF Change

\* Every step of the commands and the wallet is a step of RoundPayment or a stutter.
LEMMA StepPromise == ASSUME IInv, [Next]_vars PROVE [Promise!Next]_Promise!vars
<1>1. CASE UNCHANGED row /\ \A r \in Round : Asked(r)' = Asked(r)
  <2>1. \A r \in Round : /\ Way(r)' = Way(r) /\ Verdict(r)' = Verdict(r)
                         /\ row'[r] = row[r]
    BY <1>1 DEF Way, Verdict
  <2> QED BY <1>1, <2>1 DEF Promise!vars
<1>2. CASE \E p \in Proc, o \in Op : SendMany(p, o)
  <2>1. PICK p \in Proc, o \in Op : SendMany(p, o)
    BY <1>2
  <2>2. PICK r \in Round : r = cli[p].round
    BY <2>1 DEF SendMany, IInv, CliInv
  <2>3. /\ row[r].dispatch = "sending" /\ Asked(r) = {} /\ RowInv(r)
        /\ ops[o].round = None /\ ops[o].state = "unused"
    BY <2>1, <2>2 DEF SendMany, IInv, CliInv, OpInv
  <2>4. Way(r) = "wallet" /\ Verdict(r) = "none"
    BY <2>3 DEF Way, Verdict, RowInv
  <2>5. Asked(r)' = {o} /\ \A q \in Round : q # r => Asked(q)' = Asked(q)
    BY <2>1, <2>2, <2>3 DEF SendMany, IInv, TypeOK, Asked
  <2>6. \A q \in Round : Way(q)' = Way(q) /\ Verdict(q)' = Verdict(q) /\ row'[q] = row[q]
    BY <2>1 DEF SendMany, Way, Verdict
  <2>7. \A q \in Round : o \notin Asked(q)
    BY <2>3 DEF Asked
  <2>8. Promise!Call(r, o)
    BY <2>3, <2>4, <2>5, <2>6, <2>7 DEF Promise!Call
  <2> QED BY <2>8 DEF Promise!Next
<1>3. CASE RowChanges /\ ~(UNCHANGED row) /\ \A q \in Round : Asked(q)' = Asked(q)
  BY <1>3, RowPromise
<1> QED BY <1>1, <1>2, <1>3, NextChanges

\* However the commands interleave and die, the dispatch columns and the calls
\* made of the wallet implement RoundPayment (payouts.ts:361-446, dispatch.ts).
THEOREM SpecKeepsPromise == Spec => KeepsPromise
BY InitPromise, StepPromise, SpecIInv, PTL DEF Spec, KeepsPromise, Promise!Spec

-----------------------------------------------------------------------------
(* What `zgrove settle' asks the chain (Lookup), for every transaction,     *)
(* block and number of lookups.                                            *)

HIDE DispatchAssumption

\* What has been heard belongs to what the service set out to answer.
HeardOfReply ==
  /\ status = "5" => reply # Null /\ reply.kind = "not_found"
  /\ status = "14" => reply # Null /\ reply.kind = "failure"
  /\ got # 0 => reply # Null /\ reply.kind \in {"found", "empty"} \cup Unread
  /\ got = 2 => reply.kind # "empty"
  /\ source = "explorer" /\ ~settled => reply = Null

\* A service that saw the transaction saw it in its block or not yet in one.
SeenWhereItIs == reply \in Found => reply.height \in {0, mined}

\* Nothing is told before it is settled, and no absence without an answer.
ToldOnce ==
  /\ ~settled => verdict = Null
  /\ verdict = Absent => reply # Null

\* What was heard names no transaction, and a stream was heard to its end.
AbsenceHeard ==
  /\ reply.kind \in {"not_found", "empty", "other"}
  /\ source = "lightwalletd" =>
       status = "5" \/ got = IF reply.kind = "empty" THEN 1 ELSE 2

LookupInv ==
  /\ LookupTypeOK /\ HeardOfReply /\ SeenWhereItIs /\ ToldOnce
  /\ NoAnswerIsNotAbsence /\ FactsAreTrue

\* A verdict is told once: it is the one there was or the one v now made.
LEMMA LookupDone ==
  ASSUME LookupInv, UNCHANGED <<tx, mined, asked, source, reply, status, got>>,
         ended' \in BOOLEAN, ended => ended', NEW v, Done(v),
         v \in {Unavailable} \cup Facts \cup {Absent},
         v = Absent => ended' /\ reply # Null /\ AbsenceHeard,
         v \in Facts =>
           /\ v.blockHeight # Null => v.blockHeight = mined
           /\ v.shielded => tx.decoded \/ tx.orchard
           /\ ~tx.inputs => v.shielded
  PROVE  LookupInv'
<1>1. verdict' \in {verdict, v} /\ settled'
  BY DEF Done
<1>2. LookupTypeOK'
  BY <1>1 DEF LookupInv, LookupTypeOK, Done
<1>3. HeardOfReply' /\ SeenWhereItIs'
  BY <1>1 DEF LookupInv, HeardOfReply, SeenWhereItIs, Found
<1>4. CASE verdict' = verdict
  BY <1>1, <1>2, <1>3, <1>4
     DEF AbsenceHeard, LookupInv, ToldOnce, NoAnswerIsNotAbsence, FactsAreTrue,
         Found, Facts, Absent
<1>5. CASE verdict' = v
  BY <1>1, <1>2, <1>3, <1>5
     DEF AbsenceHeard, LookupInv, ToldOnce, NoAnswerIsNotAbsence, FactsAreTrue,
         Found, Facts, Absent
<1> QED BY <1>1, <1>4, <1>5

\* What transaction() makes of a stream that ends: an absence only where the
\* server said so, and facts only of a transaction read in full.
LEMMA ReadAnswerTells ==
  ASSUME LookupInv, reply # Null
  PROVE  LET v == ReadAnswer IN
         /\ v \in {Unavailable} \cup Facts \cup {Absent}
         /\ v = Absent => AbsenceHeard
         /\ v \in Facts =>
              /\ v.blockHeight # Null => v.blockHeight = mined
              /\ v.shielded => tx.decoded \/ tx.orchard
              /\ ~tx.inputs => v.shielded
<1> DEFINE v == ReadAnswer
           Fact == [exists |-> TRUE, blockHeight |-> BlockHeight(reply.height),
                    shielded |-> SpendsNothingTransparent]
<1>1. CASE status = "5"
  BY <1>1 DEF LookupInv, HeardOfReply, ReadAnswer, AbsenceHeard, Facts, Absent
<1>2. CASE status = "14" \/ (status = "0" /\ ~(got > 0 /\ Whole))
  <2>1. v = Unavailable
    BY <1>2 DEF ReadAnswer
  <2> QED BY LookupAssumption, <2>1
<1>3. CASE status = "0" /\ got > 0 /\ Whole
  <2>1. /\ v = Message /\ reply \in Replies
        /\ reply.kind \in {"found", "empty", "garbage", "other"}
    BY <1>3 DEF LookupInv, HeardOfReply, LookupTypeOK, ReadAnswer, Unread
  <2>2. CASE reply.kind = "garbage"
    BY LookupAssumption, <2>1, <2>2 DEF Message
  <2>3. CASE reply.kind \in {"empty", "other"}
    <3>1. got = IF reply.kind = "empty" THEN 1 ELSE 2
      BY <1>3, <2>3 DEF Whole, LookupInv, LookupTypeOK, HeardOfReply
    <3> QED BY <2>1, <2>3, <3>1 DEF Message, AbsenceHeard, Facts, Absent
  <2>4. CASE reply.kind = "found"
    <3>1. got = 2 /\ reply \in Found
      BY <1>3, <2>1, <2>4 DEF Whole, Replies, Unread
    <3>2. v = IF tx.ancient THEN Unavailable ELSE Fact
      BY <2>1, <2>4, <3>1 DEF Message
    <3>3. reply.height \in {0, mined} /\ reply.height \in 0..MaxHeight
      BY <3>1 DEF LookupInv, SeenWhereItIs, Found
    <3>4. Fact \in Facts
      BY <3>3 DEF Facts, BlockHeight, SpendsNothingTransparent
    <3>5. Fact.blockHeight # Null => Fact.blockHeight = mined
      BY <3>3 DEF BlockHeight
    <3>6. /\ Fact.shielded <=> ~tx.inputs
          /\ ~tx.inputs => tx.decoded \/ tx.orchard
      BY LookupAssumption DEF LookupInv, LookupTypeOK, SpendsNothingTransparent
    <3>7. Fact # Absent
      BY DEF Absent
    <3> QED BY LookupAssumption, <3>2, <3>4, <3>5, <3>6, <3>7
  <2> QED BY <2>1, <2>2, <2>3, <2>4
<1> QED BY <1>1, <1>2, <1>3 DEF LookupInv, LookupTypeOK

LEMMA InitLookupInv ==
  ASSUME LookupInit
  PROVE  LookupInv
<1>1. LookupTypeOK
  <2>1. 0 \in 0..MaxHeight /\ 0 \in 0..MaxAsked
    BY LookupAssumption
  <2>2. reply \in Replies \cup {Null} /\ source \in {Null, "lightwalletd", "explorer"}
    BY DEF LookupInit
  <2>3. verdict \in {Null, Unavailable} \cup Facts \cup {Absent}
    BY DEF LookupInit
  <2>4. /\ tx \in Transaction /\ mined \in 0..MaxHeight /\ asked \in 0..MaxAsked
        /\ ended \in BOOLEAN /\ settled \in BOOLEAN
    BY <2>1 DEF LookupInit
  <2>5. status \in {"0", "5", "14"} /\ got \in 0..2
    BY DEF LookupInit
  <2> QED BY <2>2, <2>3, <2>4, <2>5 DEF LookupTypeOK
<1>2. verdict = Null /\ verdict \notin Facts \cup {Absent}
  BY LookupAssumption DEF LookupInit
<1>3. Null \notin Found
  BY LookupAssumption DEF Replies
<1> QED BY <1>1, <1>2, <1>3
           DEF LookupInv, LookupInit, HeardOfReply, SeenWhereItIs, ToldOnce,
               NoAnswerIsNotAbsence, FactsAreTrue

LEMMA LookupStep ==
  ASSUME LookupInv, [LookupNext]_lookupVars
  PROVE  LookupInv'
<1>0. \A e \in {Null, Unavailable} : e \notin Found \cup Facts \cup {Absent}
  BY LookupAssumption DEF Replies
<1>1. CASE Ask
  <2>1. LookupTypeOK'
    <3>1. asked' \in 0..MaxAsked
      BY LookupAssumption, <1>1 DEF LookupInv, LookupTypeOK, Ask
    <3>2. reply' \in Replies \cup {Null}
      BY <1>1 DEF Ask
    <3>3. source' \in {Null, "lightwalletd", "explorer"}
      BY <1>1 DEF Ask
    <3>4. verdict' \in {Null, Unavailable} \cup Facts \cup {Absent}
      BY <1>1 DEF Ask
    <3>5. tx' \in Transaction /\ mined' \in 0..MaxHeight /\ ended' \in BOOLEAN /\ settled' \in BOOLEAN
      BY <1>1 DEF LookupInv, LookupTypeOK, Ask
    <3>6. status' \in {"0", "5", "14"} /\ got' \in 0..2
      BY <1>1 DEF Ask
    <3> QED BY <3>1, <3>2, <3>3, <3>4, <3>5, <3>6 DEF LookupTypeOK
  <2> QED BY <1>0, <1>1, <2>1
             DEF Ask, LookupInv, HeardOfReply, SeenWhereItIs, ToldOnce,
                 NoAnswerIsNotAbsence, FactsAreTrue
<1>2. CASE ServerReplies
  <2>1. LookupTypeOK' /\ reply' \in Replies
    BY <1>2 DEF LookupInv, LookupTypeOK, ServerReplies
  <2>2. verdict # Absent
    BY <1>2 DEF LookupInv, ToldOnce, ServerReplies
  <2>3. reply' \in Found => reply'.kind = "found"
    BY DEF Found
  <2>4. got = 0 /\ status = "0"
    BY <1>2 DEF LookupInv, LookupTypeOK, HeardOfReply, ServerReplies
  <2> QED BY <1>2, <2>1, <2>2, <2>3, <2>4
             DEF ServerReplies, LookupInv, HeardOfReply, SeenWhereItIs, ToldOnce,
                 NoAnswerIsNotAbsence, FactsAreTrue
<1>3. CASE Noted
  <2>1. LookupTypeOK'
    BY <1>3 DEF LookupInv, LookupTypeOK, Noted
  <2>2. HeardOfReply'
    BY <1>3 DEF LookupInv, HeardOfReply, Noted
  <2> QED BY <1>3, <2>1, <2>2
             DEF Noted, LookupInv, SeenWhereItIs, ToldOnce,
                 NoAnswerIsNotAbsence, FactsAreTrue, Found
<1>4. CASE Data
  <2>1. /\ reply \in Replies /\ reply # Null
        /\ reply.kind \in {"found", "empty", "not_found", "failure"} \cup Unread
    BY <1>4 DEF LookupInv, LookupTypeOK, Data, Replies, Found
  <2>2. /\ got' = got + 1
        /\ reply.kind \in {"found"} \cup Unread => got < 2
        /\ reply.kind = "empty" => got < 1
        /\ reply.kind \in {"not_found", "failure"} => got < 0
    BY <1>4 DEF Data, Unread
  <2>3. got \in 0..2
    BY DEF LookupInv, LookupTypeOK
  <2>4. /\ got' \in 1..2 /\ reply.kind \in {"found", "empty"} \cup Unread
        /\ got' = 2 => reply.kind # "empty"
    BY <2>1, <2>2, <2>3 DEF Unread
  <2>5. LookupTypeOK'
    BY <1>4, <2>4 DEF LookupInv, LookupTypeOK, Data
  <2>6. HeardOfReply'
    BY <1>4, <2>1, <2>4 DEF LookupInv, HeardOfReply, Data
  <2> QED BY <1>4, <2>5, <2>6
             DEF Data, LookupInv, SeenWhereItIs, ToldOnce,
                 NoAnswerIsNotAbsence, FactsAreTrue, Found
<1>5. CASE End
  <2>1. ended' \in BOOLEAN /\ reply # Null /\ Done(ReadAnswer)
    BY <1>5 DEF End
  <2> QED BY <1>5, <2>1, ReadAnswerTells, LookupDone DEF End
<1>6. CASE Error \/ TimedOut
  <2>1. ended' \in BOOLEAN /\ Done(Unavailable)
    BY <1>6 DEF Error, TimedOut, LookupInv, LookupTypeOK
  <2> QED BY <1>0, <1>6, <2>1, LookupDone DEF Error, TimedOut
<1>7. CASE ExplorerAnswers
  <2>1. ~settled /\ settled' /\ verdict = Null
    BY <1>7 DEF ExplorerAnswers, Done, LookupInv, ToldOnce
  <2>2. /\ reply' \in Replies
        /\ reply'.kind \in {"found", "not_found", "failure", "garbage", "other"}
        /\ reply'.kind = "found" => reply'.height = mined /\ reply' \in Found
    BY <1>7 DEF ExplorerAnswers, Replies, Unread, Found
  <2>3. UNCHANGED <<tx, mined, asked, source, status, got>> /\ ended' = TRUE
    BY <1>7 DEF ExplorerAnswers
  <2>4. SeenWhereItIs'
    BY <2>2, <2>3 DEF SeenWhereItIs, Found
  <2>5. HeardOfReply'
    BY <1>7, <2>1, <2>3 DEF HeardOfReply, LookupInv, LookupTypeOK, ExplorerAnswers
  <2>9. /\ tx' \in Transaction /\ mined' \in 0..MaxHeight /\ asked' \in 0..MaxAsked
        /\ source' \in {Null, "lightwalletd", "explorer"}
        /\ reply' \in Replies \cup {Null} /\ reply' # Null
        /\ status' \in {"0", "5", "14"} /\ got' \in 0..2
        /\ ended' \in BOOLEAN /\ settled' \in BOOLEAN
    BY LookupAssumption, <2>1, <2>2, <2>3 DEF LookupInv, LookupTypeOK
  <2>10. ASSUME verdict' \in {Unavailable} \cup Facts \cup {Absent},
                verdict' = Absent => reply'.kind \in {"not_found", "other"},
                verdict' \in Facts =>
                  /\ verdict'.blockHeight # Null => verdict'.blockHeight = mined
                  /\ verdict'.shielded => tx.decoded \/ tx.orchard
                  /\ ~tx.inputs => verdict'.shielded
         PROVE  LookupInv'
    BY <1>7, <2>1, <2>3, <2>4, <2>5, <2>9, <2>10
       DEF ExplorerAnswers, LookupInv, LookupTypeOK, ToldOnce, NoAnswerIsNotAbsence, FactsAreTrue
  <2> DEFINE Fact == [exists |-> TRUE, blockHeight |-> BlockHeight(reply'.height),
                      shielded |-> Shielded]
  <2>6. CASE reply'.kind \in {"failure", "garbage"}
    <3>1. verdict' = Unavailable
      BY <1>7, <2>1, <2>6 DEF ExplorerAnswers, Done
    <3> QED BY <1>0, <2>10, <3>1
  <2>7. CASE reply'.kind \in {"not_found", "other"}
    <3>1. verdict' = Absent
      BY <1>7, <2>1, <2>7 DEF ExplorerAnswers, Done
    <3>2. Absent \notin Facts
      BY DEF Absent, Facts
    <3> QED BY <2>7, <2>10, <3>1, <3>2
  <2>8. CASE reply'.kind = "found"
    <3>1. verdict' = Fact
      BY <1>7, <2>1, <2>8 DEF ExplorerAnswers, Done
    <3>2. mined \in 0..MaxHeight /\ reply'.height = mined
      BY <2>2, <2>8 DEF LookupInv, LookupTypeOK
    <3>3. BlockHeight(reply'.height) \in {Null} \cup {mined}
      BY <3>2 DEF BlockHeight
    <3>4. Fact \in Facts
      <4>1. BlockHeight(reply'.height) \in {Null} \cup 1..MaxHeight
        BY <3>2 DEF BlockHeight
      <4>2. Shielded \in BOOLEAN
        BY DEF LookupInv, LookupTypeOK, Shielded, SpentOnlyShielded,
               InputCountIsZero
      <4> QED BY <4>1, <4>2 DEF Facts
    <3>5. /\ Shielded => tx.decoded \/ tx.orchard
          /\ ~tx.inputs => Shielded
      BY LookupAssumption DEF LookupInv, LookupTypeOK, Shielded, SpentOnlyShielded,
             InputCountIsZero
    <3>6. Fact # Absent
      BY DEF Absent
    <3>7. /\ Fact.blockHeight # Null => Fact.blockHeight = mined
          /\ Fact.shielded => tx.decoded \/ tx.orchard
          /\ ~tx.inputs => Fact.shielded
      BY <3>3, <3>5
    <3> QED BY <2>10, <3>1, <3>4, <3>6, <3>7
  <2> QED BY <2>2, <2>6, <2>7, <2>8
<1>8. CASE Mined
  <2>1. LookupTypeOK'
    BY <1>8 DEF LookupInv, LookupTypeOK, Mined
  <2>2. verdict \in Facts => verdict.blockHeight = Null
    <3>1. verdict \in Facts => verdict.blockHeight \in {Null} \cup 1..MaxHeight
      BY DEF Facts
    <3>2. mined = 0 /\ 0 \notin 1..MaxHeight
      BY <1>8 DEF Mined
    <3> QED BY <3>1, <3>2 DEF LookupInv, FactsAreTrue
  <2> QED BY <1>8, <2>1, <2>2
             DEF Mined, LookupInv, HeardOfReply, SeenWhereItIs, ToldOnce,
                 NoAnswerIsNotAbsence, FactsAreTrue
<1>9. CASE UNCHANGED lookupVars
  BY <1>9 DEF lookupVars, LookupInv, LookupTypeOK, HeardOfReply, SeenWhereItIs, ToldOnce,
              NoAnswerIsNotAbsence, FactsAreTrue
<1> QED BY <1>1, <1>2, <1>3, <1>4, <1>5, <1>6, <1>7, <1>8, <1>9 DEF LookupNext

\* "No such transaction" is read only from an answer heard to its end that names
\* none: not from a failure said as one, a cut, an error or a timeout
\* (lightwalletd.ts:177-206, chain.ts:56-82).  An error in another explorer's
\* shape is such an answer: FailureIsNotAbsence in Lookup.
THEOREM SpecNoAnswerIsNotAbsence == LookupSpec => []NoAnswerIsNotAbsence
<1>1. LookupInit => LookupInv
  BY InitLookupInv
<1>2. LookupInv /\ [LookupNext]_lookupVars => LookupInv'
  BY LookupStep
<1>3. LookupInv => NoAnswerIsNotAbsence
  BY DEF LookupInv
<1> QED BY <1>1, <1>2, <1>3, PTL DEF LookupSpec

\* What is reported of a transaction is true of it: its block, and whether it is
\* shielded (chain.ts:93-122, lightwalletd.ts:144-157).
THEOREM SpecFactsAreTrue == LookupSpec => []FactsAreTrue
<1>1. LookupInit => LookupInv
  BY InitLookupInv
<1>2. LookupInv /\ [LookupNext]_lookupVars => LookupInv'
  BY LookupStep
<1>3. LookupInv => FactsAreTrue
  BY DEF LookupInv
<1> QED BY <1>1, <1>2, <1>3, PTL DEF LookupSpec

-----------------------------------------------------------------------------
(* What an anchored round shows of itself (Receipt), for any accounts,     *)
(* amounts and orders of the ids.                                          *)


\* A list of n hashes.
Listed(x, n) == n \in Nat \ {0} /\ DOMAIN x = 1..n /\ Len(x) = n

LEMMA ListedLen ==
  ASSUME NEW x, NEW n \in Nat \ {0}, DOMAIN x = 1..n, x = [i \in 1..n |-> x[i]]
  PROVE  Listed(x, n)
BY DEF Listed

ElementsOf(x) == {x[i] : i \in DOMAIN x}

LEMMA Halves ==
  ASSUME NEW n \in Nat \ {0}
  PROVE  /\ (n + 1) \div 2 \in Nat \ {0}
         /\ (n + 1) \div 2 <= n
         /\ n # 1 => (n + 1) \div 2 < n
         /\ \A i \in 1..((n + 1) \div 2) : 2 * i - 1 \in 1..n
         /\ \A i \in 1..n : (i + 1) \div 2 \in 1..((n + 1) \div 2)
OBVIOUS

\* An odd i and the even one after it share a parent.
LEMMA Parents ==
  ASSUME NEW i \in Nat \ {0}
  PROVE  /\ i % 2 = 1 => 2 * ((i + 1) \div 2) - 1 = i
         /\ i % 2 = 0 => 2 * ((i + 1) \div 2) - 1 = i - 1 /\ i - 1 \in Nat \ {0}
         /\ i % 2 = 0 => (i - 1) % 2 = 1
         /\ i % 2 = 1 => (i + 1) % 2 = 0
         /\ i % 2 \in {0, 1} /\ (2 * i - 1) % 2 = 1 /\ (2 * i) % 2 = 0
OBVIOUS

\* What Up() makes of a list: at i the hash of the two below it, the odd one of
\* them twice where the list ends there.
LEMMA UpIs ==
  ASSUME NEW x, NEW n, Listed(x, n)
  PROVE  /\ Listed(Up(x), (n + 1) \div 2)
         /\ \A i \in 1..((n + 1) \div 2) :
              /\ 2 * i - 1 \in 1..n
              /\ Up(x)[i] =
                   HashNode(x[2 * i - 1], IF 2 * i \in 1..n THEN x[2 * i] ELSE x[2 * i - 1])
<1>1. n \in Nat \ {0} /\ DOMAIN x = 1..n /\ Len(x) = n
  BY DEF Listed
<1> DEFINE m == (n + 1) \div 2
<1>2. m \in Nat \ {0} /\ \A i \in 1..m : 2 * i - 1 \in 1..n
  BY <1>1, Halves
<1>3. Up(x) = [i \in 1..m |->
                      HashNode(x[2 * i - 1], Sibling(x, 2 * i - 1))]
  BY <1>1 DEF Up
<1>4. ASSUME NEW i \in 1..m
      PROVE  Sibling(x, 2 * i - 1) = IF 2 * i \in 1..n THEN x[2 * i] ELSE x[2 * i - 1]
  <2>1. i \in Nat \ {0}
    BY <1>2
  <2>2. (2 * i - 1) % 2 = 1 /\ (2 * i - 1) + 1 = 2 * i
    BY <2>1, Parents
  <2> QED BY <1>1, <2>2 DEF Sibling
<1>5. Listed(Up(x), m)
  <2> DEFINE u == Up(x)
  <2>1. DOMAIN u = 1..m /\ u = [i \in 1..m |-> u[i]]
    BY <1>3
  <2>2. Listed(u, m)
    <3> HIDE DEF m, u
    <3> QED BY <1>2, <2>1, ListedLen
  <2> QED BY <2>2
<1> QED BY <1>2, <1>3, <1>4, <1>5

LEMMA HashesApart ==
  ASSUME NEW a, NEW b, NEW c, NEW d
  PROVE  /\ HashNode(a, b) = HashNode(c, d) => a = c /\ b = d
         /\ HashNode(a, b)[2] = a /\ HashNode(a, b)[3] = b
         /\ HashNode(a, b) # HashLeafContent(c)
         /\ HashLeafContent(c) = HashLeafContent(d) => c[1] = d[1] /\ c[2] = d[2]
BY DEF HashNode, HashLeafContent, NodeTag, LeafTag

\* The elements of a list are the halves of the hashes above it.
LEMMA UpElements ==
  ASSUME NEW x, NEW n, Listed(x, n)
  PROVE  ElementsOf(x) = {h[2] : h \in ElementsOf(Up(x))}
                           \cup {h[3] : h \in ElementsOf(Up(x))}
<1> DEFINE m == (n + 1) \div 2
           u == Up(x)
<1>1. n \in Nat \ {0} /\ DOMAIN x = 1..n
  BY DEF Listed
<1>2. DOMAIN u = 1..m /\ m \in Nat \ {0}
  BY UpIs DEF Listed
<1>3. \A i \in 1..m : /\ 2 * i - 1 \in 1..n /\ u[i][2] = x[2 * i - 1]
                      /\ u[i][3] = IF 2 * i \in 1..n THEN x[2 * i] ELSE x[2 * i - 1]
  BY UpIs, HashesApart
<1>4. ASSUME NEW i \in 1..m
      PROVE  u[i][2] \in ElementsOf(x) /\ u[i][3] \in ElementsOf(x)
  BY <1>1, <1>3 DEF ElementsOf
<1>5. ASSUME NEW k \in 1..n
      PROVE  \E i \in 1..m : x[k] = u[i][2] \/ x[k] = u[i][3]
  <2> DEFINE i == (k + 1) \div 2
  <2>1. i \in 1..m
    BY <1>1, Halves
  <2>2. CASE k % 2 = 1
    <3>1. 2 * i - 1 = k
      BY <2>2, Parents
    <3> QED BY <1>3, <2>1, <3>1
  <2>3. CASE k % 2 = 0
    <3>1. 2 * i - 1 = k - 1
      BY <2>3, Parents
    <3>2. 2 * i = k
      BY <3>1
    <3> QED BY <1>3, <2>1, <3>2
  <2> QED BY <2>2, <2>3, Parents
<1>6. ElementsOf(u) = {u[i] : i \in 1..m} /\ ElementsOf(x) = {x[k] : k \in 1..n}
  BY <1>1, <1>2 DEF ElementsOf
<1>7. ElementsOf(x) = {h[2] : h \in ElementsOf(u)} \cup {h[3] : h \in ElementsOf(u)}
  <2> HIDE DEF u, m
  <2>1. ASSUME NEW h \in ElementsOf(u)
        PROVE  h[2] \in ElementsOf(x) /\ h[3] \in ElementsOf(x)
    BY <1>4, <1>6, <2>1
  <2>2. ASSUME NEW e \in ElementsOf(x)
        PROVE  \E h \in ElementsOf(u) : e = h[2] \/ e = h[3]
    BY <1>5, <1>6, <2>2
  <2> QED BY <2>1, <2>2
<1> QED BY <1>7

\* The recursion of Level(): every level is made of the one below.
LEMMA LevelRecursion ==
  ASSUME NEW leaves
  PROVE  /\ Level(leaves)[0] = leaves
         /\ \A k \in Nat : Level(leaves)[k + 1] = Up(Level(leaves)[k])
<1> DEFINE Then(k, e) == Up(e)
           Step(f, k) == IF k = 0 THEN leaves ELSE Then(k, f[k - 1])
           Upto(f, n) == \A k \in 0..n : f[k] = Step(f, k)
<1>1. \A n \in Nat : \E f : Upto(f, n)
  <2> DEFINE W == {n \in Nat : \E f : Upto(f, n)}
  <2>1. 0 \in W
    <3>1. Upto([k \in {0} |-> leaves], 0)
      OBVIOUS
    <3> QED BY <3>1
  <2>2. ASSUME NEW n \in Nat, n \in W
        PROVE  n + 1 \in W
    <3>1. PICK f : Upto(f, n)
      BY <2>2
    <3> DEFINE g == [k \in 0..(n + 1) |-> IF k = n + 1 THEN Then(n + 1, f[n]) ELSE f[k]]
    <3>2. ASSUME NEW k \in 0..(n + 1)
          PROVE  g[k] = Step(g, k)
      <4> HIDE DEF Then
      <4>1. CASE k = n + 1
        <5>1. g[k] = Then(n + 1, f[n]) /\ g[n] = f[n]
          BY <4>1
        <5> QED BY <4>1, <5>1
      <4>2. CASE k # n + 1 /\ k # 0
        <5>1. k \in 0..n /\ k - 1 \in 0..n
          BY <4>2
        <5>2. g[k] = f[k] /\ g[k - 1] = f[k - 1]
          BY <5>1
        <5> QED BY <3>1, <4>2, <5>1, <5>2
      <4>3. CASE k = 0
        BY <3>1, <4>3
      <4> QED BY <4>1, <4>2, <4>3
    <3> QED
      <4>1. Upto(g, n + 1)
        BY <3>2
      <4>2. \E h : Upto(h, n + 1)
        <5> HIDE DEF g, Upto
        <5> QED BY <4>1
      <4> HIDE DEF Upto
      <4> QED BY <4>2
  <2> HIDE DEF W
  <2>3. Nat \subseteq W
    BY <2>1, <2>2, NatSetInduction
  <2> QED BY <2>3 DEF W
<1>2. ASSUME NEW f, NEW g, NEW n \in Nat, Upto(f, n), NEW m \in Nat, m <= n, Upto(g, m)
      PROVE  f[m] = g[m]
  <2> DEFINE W == {k \in Nat : k <= m => f[k] = g[k]}
  <2> HIDE DEF Then
  <2>1. 0 \in W
    BY <1>2
  <2>2. ASSUME NEW k \in Nat, k \in W
        PROVE  k + 1 \in W
    <3> SUFFICES ASSUME k + 1 <= m
                 PROVE  f[k + 1] = g[k + 1]
      OBVIOUS
    <3>1. f[k] = g[k]
      BY <2>2
    <3>2. k + 1 \in 0..n /\ k + 1 \in 0..m /\ (k + 1) - 1 = k /\ k + 1 # 0
      BY <1>2
    <3> QED BY <1>2, <3>1, <3>2
  <2>3. Nat \subseteq W
    <3> HIDE DEF W
    <3> QED BY <2>1, <2>2, NatSetInduction
  <2> QED BY <2>3
<1> DEFINE F(n) == CHOOSE f : Upto(f, n)
           G == [k \in Nat |-> F(k)[k]]
<1>3. \A n \in Nat : Upto(F(n), n)
  <2> HIDE DEF Upto
  <2> QED BY <1>1
<1>4. ASSUME NEW k \in Nat
      PROVE  G[k] = Step(G, k)
  <2> HIDE DEF Then
  <2>1. F(k)[k] = Step(F(k), k)
    <3> HIDE DEF F, Step
    <3> QED BY <1>3
  <2>2. k # 0 => F(k)[k - 1] = F(k - 1)[k - 1]
    <3> SUFFICES ASSUME k # 0
                 PROVE  F(k)[k - 1] = F(k - 1)[k - 1]
      OBVIOUS
    <3>1. k - 1 \in Nat /\ k - 1 <= k
      OBVIOUS
    <3>2. Upto(F(k), k) /\ Upto(F(k - 1), k - 1)
      BY <1>3, <3>1
    <3> HIDE DEF F, Upto
    <3> QED BY <1>2, <3>1, <3>2
  <2>3. G[k] = F(k)[k] /\ (k # 0 => G[k - 1] = F(k - 1)[k - 1])
    <3> HIDE DEF F
    <3> QED OBVIOUS
  <2> HIDE DEF F, G
  <2> QED BY <2>1, <2>2, <2>3
<1>5. Level(leaves) = CHOOSE f : f = [k \in Nat |-> Step(f, k)]
  BY DEF Level
<1>6. G = [k \in Nat |-> Step(G, k)]
  <2>1. G = [k \in Nat |-> G[k]]
    OBVIOUS
  <2> HIDE DEF G, Step
  <2> QED BY <1>4, <2>1
<1>7. Level(leaves) = [k \in Nat |-> Step(Level(leaves), k)]
  <2> HIDE DEF G, Step
  <2> QED BY <1>5, <1>6
<1> DEFINE f == Level(leaves)
<1>8. f[0] = leaves
  <2>1. f[0] = Step(f, 0)
    <3> HIDE DEF Step, f
    <3> QED BY <1>7 DEF f
  <2> QED BY <2>1
<1>9. ASSUME NEW k \in Nat
      PROVE  f[k + 1] = Then(k + 1, f[k])
  <2>1. f[k + 1] = Step(f, k + 1)
    <3> HIDE DEF Step, f
    <3> QED BY <1>7 DEF f
  <2>2. k + 1 # 0 /\ (k + 1) - 1 = k
    OBVIOUS
  <2> HIDE DEF Then, f
  <2> QED BY <2>1, <2>2
<1> QED BY <1>8, <1>9

\* The recursion of Above(): the parent of the node before.
LEMMA AboveRecursion ==
  ASSUME NEW i
  PROVE  /\ Above(i)[0] = i
         /\ \A k \in Nat : Above(i)[k + 1] = (Above(i)[k] + 1) \div 2
<1> DEFINE Then(k, e) == (e + 1) \div 2
           Step(f, k) == IF k = 0 THEN i ELSE Then(k, f[k - 1])
           Upto(f, n) == \A k \in 0..n : f[k] = Step(f, k)
<1>1. \A n \in Nat : \E f : Upto(f, n)
  <2> DEFINE W == {n \in Nat : \E f : Upto(f, n)}
  <2>1. 0 \in W
    <3>1. Upto([k \in {0} |-> i], 0)
      OBVIOUS
    <3> QED BY <3>1
  <2>2. ASSUME NEW n \in Nat, n \in W
        PROVE  n + 1 \in W
    <3>1. PICK f : Upto(f, n)
      BY <2>2
    <3> DEFINE g == [k \in 0..(n + 1) |-> IF k = n + 1 THEN Then(n + 1, f[n]) ELSE f[k]]
    <3>2. ASSUME NEW k \in 0..(n + 1)
          PROVE  g[k] = Step(g, k)
      <4> HIDE DEF Then
      <4>1. CASE k = n + 1
        <5>1. g[k] = Then(n + 1, f[n]) /\ g[n] = f[n]
          BY <4>1
        <5> QED BY <4>1, <5>1
      <4>2. CASE k # n + 1 /\ k # 0
        <5>1. k \in 0..n /\ k - 1 \in 0..n
          BY <4>2
        <5>2. g[k] = f[k] /\ g[k - 1] = f[k - 1]
          BY <5>1
        <5> QED BY <3>1, <4>2, <5>1, <5>2
      <4>3. CASE k = 0
        BY <3>1, <4>3
      <4> QED BY <4>1, <4>2, <4>3
    <3> QED
      <4>1. Upto(g, n + 1)
        BY <3>2
      <4>2. \E h : Upto(h, n + 1)
        <5> HIDE DEF g, Upto
        <5> QED BY <4>1
      <4> HIDE DEF Upto
      <4> QED BY <4>2
  <2> HIDE DEF W
  <2>3. Nat \subseteq W
    BY <2>1, <2>2, NatSetInduction
  <2> QED BY <2>3 DEF W
<1>2. ASSUME NEW f, NEW g, NEW n \in Nat, Upto(f, n), NEW m \in Nat, m <= n, Upto(g, m)
      PROVE  f[m] = g[m]
  <2> DEFINE W == {k \in Nat : k <= m => f[k] = g[k]}
  <2> HIDE DEF Then
  <2>1. 0 \in W
    BY <1>2
  <2>2. ASSUME NEW k \in Nat, k \in W
        PROVE  k + 1 \in W
    <3> SUFFICES ASSUME k + 1 <= m
                 PROVE  f[k + 1] = g[k + 1]
      OBVIOUS
    <3>1. f[k] = g[k]
      BY <2>2
    <3>2. k + 1 \in 0..n /\ k + 1 \in 0..m /\ (k + 1) - 1 = k /\ k + 1 # 0
      BY <1>2
    <3> QED BY <1>2, <3>1, <3>2
  <2>3. Nat \subseteq W
    <3> HIDE DEF W
    <3> QED BY <2>1, <2>2, NatSetInduction
  <2> QED BY <2>3
<1> DEFINE F(n) == CHOOSE f : Upto(f, n)
           G == [k \in Nat |-> F(k)[k]]
<1>3. \A n \in Nat : Upto(F(n), n)
  <2> HIDE DEF Upto
  <2> QED BY <1>1
<1>4. ASSUME NEW k \in Nat
      PROVE  G[k] = Step(G, k)
  <2> HIDE DEF Then
  <2>1. F(k)[k] = Step(F(k), k)
    <3> HIDE DEF F, Step
    <3> QED BY <1>3
  <2>2. k # 0 => F(k)[k - 1] = F(k - 1)[k - 1]
    <3> SUFFICES ASSUME k # 0
                 PROVE  F(k)[k - 1] = F(k - 1)[k - 1]
      OBVIOUS
    <3>1. k - 1 \in Nat /\ k - 1 <= k
      OBVIOUS
    <3>2. Upto(F(k), k) /\ Upto(F(k - 1), k - 1)
      BY <1>3, <3>1
    <3> HIDE DEF F, Upto
    <3> QED BY <1>2, <3>1, <3>2
  <2>3. G[k] = F(k)[k] /\ (k # 0 => G[k - 1] = F(k - 1)[k - 1])
    <3> HIDE DEF F
    <3> QED OBVIOUS
  <2> HIDE DEF F, G
  <2> QED BY <2>1, <2>2, <2>3
<1>5. Above(i) = CHOOSE f : f = [k \in Nat |-> Step(f, k)]
  BY DEF Above
<1>6. G = [k \in Nat |-> Step(G, k)]
  <2>1. G = [k \in Nat |-> G[k]]
    OBVIOUS
  <2> HIDE DEF G, Step
  <2> QED BY <1>4, <2>1
<1>7. Above(i) = [k \in Nat |-> Step(Above(i), k)]
  <2> HIDE DEF G, Step
  <2> QED BY <1>5, <1>6
<1> DEFINE f == Above(i)
<1>8. f[0] = i
  <2>1. f[0] = Step(f, 0)
    <3> HIDE DEF Step, f
    <3> QED BY <1>7 DEF f
  <2> QED BY <2>1
<1>9. ASSUME NEW k \in Nat
      PROVE  f[k + 1] = Then(k + 1, f[k])
  <2>1. f[k + 1] = Step(f, k + 1)
    <3> HIDE DEF Step, f
    <3> QED BY <1>7 DEF f
  <2>2. k + 1 # 0 /\ (k + 1) - 1 = k
    OBVIOUS
  <2> HIDE DEF Then, f
  <2> QED BY <2>1, <2>2
<1> QED BY <1>8, <1>9

\* The recursion of Climb(): one hash with the sibling, on its side.
LEMMA ClimbRecursion ==
  ASSUME NEW p
  PROVE  /\ Climb(p)[0] = HashLeafContent(p.content)
         /\ \A k \in Nat : Climb(p)[k + 1] =
              IF p.path[k + 1].right
              THEN HashNode(Climb(p)[k], p.path[k + 1].hash)
              ELSE HashNode(p.path[k + 1].hash, Climb(p)[k])
<1> DEFINE Then(k, e) == IF p.path[k].right THEN HashNode(e, p.path[k].hash)
                                          ELSE HashNode(p.path[k].hash, e)
           Step(f, k) == IF k = 0 THEN HashLeafContent(p.content) ELSE Then(k, f[k - 1])
           Upto(f, n) == \A k \in 0..n : f[k] = Step(f, k)
<1>1. \A n \in Nat : \E f : Upto(f, n)
  <2> DEFINE W == {n \in Nat : \E f : Upto(f, n)}
  <2>1. 0 \in W
    <3>1. Upto([k \in {0} |-> HashLeafContent(p.content)], 0)
      OBVIOUS
    <3> QED BY <3>1
  <2>2. ASSUME NEW n \in Nat, n \in W
        PROVE  n + 1 \in W
    <3>1. PICK f : Upto(f, n)
      BY <2>2
    <3> DEFINE g == [k \in 0..(n + 1) |-> IF k = n + 1 THEN Then(n + 1, f[n]) ELSE f[k]]
    <3>2. ASSUME NEW k \in 0..(n + 1)
          PROVE  g[k] = Step(g, k)
      <4> HIDE DEF Then
      <4>1. CASE k = n + 1
        <5>1. g[k] = Then(n + 1, f[n]) /\ g[n] = f[n]
          BY <4>1
        <5> QED BY <4>1, <5>1
      <4>2. CASE k # n + 1 /\ k # 0
        <5>1. k \in 0..n /\ k - 1 \in 0..n
          BY <4>2
        <5>2. g[k] = f[k] /\ g[k - 1] = f[k - 1]
          BY <5>1
        <5> QED BY <3>1, <4>2, <5>1, <5>2
      <4>3. CASE k = 0
        BY <3>1, <4>3
      <4> QED BY <4>1, <4>2, <4>3
    <3> QED
      <4>1. Upto(g, n + 1)
        BY <3>2
      <4>2. \E h : Upto(h, n + 1)
        <5> HIDE DEF g, Upto
        <5> QED BY <4>1
      <4> HIDE DEF Upto
      <4> QED BY <4>2
  <2> HIDE DEF W
  <2>3. Nat \subseteq W
    BY <2>1, <2>2, NatSetInduction
  <2> QED BY <2>3 DEF W
<1>2. ASSUME NEW f, NEW g, NEW n \in Nat, Upto(f, n), NEW m \in Nat, m <= n, Upto(g, m)
      PROVE  f[m] = g[m]
  <2> DEFINE W == {k \in Nat : k <= m => f[k] = g[k]}
  <2> HIDE DEF Then
  <2>1. 0 \in W
    BY <1>2
  <2>2. ASSUME NEW k \in Nat, k \in W
        PROVE  k + 1 \in W
    <3> SUFFICES ASSUME k + 1 <= m
                 PROVE  f[k + 1] = g[k + 1]
      OBVIOUS
    <3>1. f[k] = g[k]
      BY <2>2
    <3>2. k + 1 \in 0..n /\ k + 1 \in 0..m /\ (k + 1) - 1 = k /\ k + 1 # 0
      BY <1>2
    <3> QED BY <1>2, <3>1, <3>2
  <2>3. Nat \subseteq W
    <3> HIDE DEF W
    <3> QED BY <2>1, <2>2, NatSetInduction
  <2> QED BY <2>3
<1> DEFINE F(n) == CHOOSE f : Upto(f, n)
           G == [k \in Nat |-> F(k)[k]]
<1>3. \A n \in Nat : Upto(F(n), n)
  <2> HIDE DEF Upto
  <2> QED BY <1>1
<1>4. ASSUME NEW k \in Nat
      PROVE  G[k] = Step(G, k)
  <2> HIDE DEF Then
  <2>1. F(k)[k] = Step(F(k), k)
    <3> HIDE DEF F, Step
    <3> QED BY <1>3
  <2>2. k # 0 => F(k)[k - 1] = F(k - 1)[k - 1]
    <3> SUFFICES ASSUME k # 0
                 PROVE  F(k)[k - 1] = F(k - 1)[k - 1]
      OBVIOUS
    <3>1. k - 1 \in Nat /\ k - 1 <= k
      OBVIOUS
    <3>2. Upto(F(k), k) /\ Upto(F(k - 1), k - 1)
      BY <1>3, <3>1
    <3> HIDE DEF F, Upto
    <3> QED BY <1>2, <3>1, <3>2
  <2>3. G[k] = F(k)[k] /\ (k # 0 => G[k - 1] = F(k - 1)[k - 1])
    <3> HIDE DEF F
    <3> QED OBVIOUS
  <2> HIDE DEF F, G
  <2> QED BY <2>1, <2>2, <2>3
<1>5. Climb(p) = CHOOSE f : f = [k \in Nat |-> Step(f, k)]
  BY DEF Climb
<1>6. G = [k \in Nat |-> Step(G, k)]
  <2>1. G = [k \in Nat |-> G[k]]
    OBVIOUS
  <2> HIDE DEF G, Step
  <2> QED BY <1>4, <2>1
<1>7. Climb(p) = [k \in Nat |-> Step(Climb(p), k)]
  <2> HIDE DEF G, Step
  <2> QED BY <1>5, <1>6
<1> DEFINE f == Climb(p)
<1>8. f[0] = HashLeafContent(p.content)
  <2>1. f[0] = Step(f, 0)
    <3> HIDE DEF Step, f
    <3> QED BY <1>7 DEF f
  <2> QED BY <2>1
<1>9. ASSUME NEW k \in Nat
      PROVE  f[k + 1] = Then(k + 1, f[k])
  <2>1. f[k + 1] = Step(f, k + 1)
    <3> HIDE DEF Step, f
    <3> QED BY <1>7 DEF f
  <2>2. k + 1 # 0 /\ (k + 1) - 1 = k
    OBVIOUS
  <2> HIDE DEF Then, f
  <2> QED BY <2>1, <2>2
<1> QED BY <1>8, <1>9

\* The accounts paid, in order, are those paid, each at one place.
LEMMA SortedIs ==
  ASSUME NEW order \in Collations, NEW es
  PROVE  LET n == Cardinality(Paid(es)) IN
         /\ n \in Nat /\ IsFiniteSet(Paid(es))
         /\ \A i \in 1..n : Sorted(es, order)[i] \in Paid(es)
         /\ \A a \in Paid(es) : \E i \in 1..n : Sorted(es, order)[i] = a
<1> DEFINE P == Paid(es)
           n == Cardinality(P)
           UpTo(a) == {b \in P : order[b] <= order[a]}
           place(a) == Cardinality(UpTo(a))
<1>1. /\ P \subseteq Accounts /\ IsFiniteSet(Accounts)
      /\ \A a \in Accounts : order[a] \in Nat
      /\ \A a, b \in Accounts : order[a] = order[b] => a = b
  BY ReceiptAssumption DEF Paid
<1>2. IsFiniteSet(P) /\ n \in Nat
  <2> HIDE DEF P
  <2> QED BY <1>1, FS_Subset, FS_CardinalityType
<1>3. ASSUME NEW a \in P
      PROVE  IsFiniteSet(UpTo(a)) /\ place(a) \in 1..n
  <2>1. UpTo(a) \in SUBSET P /\ a \in UpTo(a)
    BY <1>1
  <2> HIDE DEF UpTo, P
  <2>2. IsFiniteSet(UpTo(a)) /\ place(a) \in Nat /\ place(a) <= n
    BY <1>2, <2>1, FS_Subset, FS_CardinalityType
  <2>3. place(a) # 0
    BY <2>1, <2>2, FS_EmptySet
  <2> QED BY <1>2, <2>2, <2>3
<1>4. ASSUME NEW a \in P, NEW b \in P, order[a] < order[b]
      PROVE  place(a) < place(b)
  <2>1. UpTo(a) \cup {b} \in SUBSET UpTo(b) /\ b \notin UpTo(a)
    BY <1>1, <1>4
  <2>2. IsFiniteSet(UpTo(a)) /\ IsFiniteSet(UpTo(b)) /\ place(a) \in 1..n /\ place(b) \in 1..n
    BY <1>3
  <2> HIDE DEF UpTo
  <2>3. Cardinality(UpTo(a) \cup {b}) = place(a) + 1
    BY <2>1, <2>2, FS_AddElement
  <2>4. Cardinality(UpTo(a) \cup {b}) <= place(b)
    BY <2>1, <2>2, FS_Subset
  <2> QED BY <1>2, <2>2, <2>3, <2>4
<1>5. ASSUME NEW a \in P, NEW b \in P, place(a) = place(b)
      PROVE  a = b
  <2>1. place(a) \in 1..n /\ place(b) \in 1..n
    BY <1>3
  <2> HIDE DEF place
  <2>2. ~(order[a] < order[b]) /\ ~(order[b] < order[a])
    BY <1>2, <1>4, <1>5, <2>1
  <2> QED BY <1>1, <2>2
<1>6. ASSUME NEW i \in 1..n
      PROVE  \E a \in P : place(a) = i
  <2> SUFFICES ASSUME \A a \in P : place(a) # i
               PROVE  FALSE
    OBVIOUS
  <2> DEFINE Q == (1..n) \ {i}
             f == [a \in P |-> place(a)]
  <2>1. IsFiniteSet(1..n) /\ Cardinality(1..n) = n
    <3> HIDE DEF n
    <3>1. n \in Int /\ 1 \in Int /\ ~(1 > n)
      BY <1>2
    <3>2. n - 1 + 1 = n
      BY <1>2
    <3> QED BY <3>1, <3>2, FS_Interval
  <2>2. IsFiniteSet(Q) /\ Cardinality(Q) < Cardinality(P)
    <3> HIDE DEF P, n
    <3>1. IsFiniteSet(Q) /\ Cardinality(Q) = Cardinality(1..n) - 1
      BY <2>1, FS_RemoveElement
    <3> QED BY <1>2, <2>1, <3>1 DEF n
  <2>3. f \in [P -> Q]
    <3> HIDE DEF place
    <3> QED BY <1>3
  <2>4. PICK a \in P, b \in P : a # b /\ f[a] = f[b]
    <3> HIDE DEF f, Q, P
    <3> QED BY <1>2, <2>2, <2>3, FS_PigeonHole
  <2>5. place(a) = place(b)
    <3> HIDE DEF place
    <3> QED BY <2>4
  <2> QED BY <1>5, <2>4, <2>5
<1> DEFINE s == Sorted(es, order)
<1> DEFINE treePlace(a) == Cardinality(UpTo(a))
<1>7. /\ s = [i \in 1..n |-> CHOOSE a \in P : treePlace(a) = i]
      /\ \A a : treePlace(a) = place(a)
  <2>1. n = Cardinality(P)
    OBVIOUS
  <2>2. \A a : treePlace(a) = place(a)
    OBVIOUS
  <2>3. s = [i \in 1..Cardinality(P) |-> CHOOSE a \in P : treePlace(a) = i]
    BY DEF Sorted
  <2> HIDE DEF n, treePlace, place, P
  <2> QED BY <2>1, <2>2, <2>3
<1> HIDE DEF treePlace
<1> HIDE DEF s, place, n, P
<1>8. ASSUME NEW i \in 1..n
      PROVE  s[i] \in P /\ place(s[i]) = i
  BY <1>6, <1>7
<1>9. ASSUME NEW a \in P
      PROVE  s[place(a)] = a
  BY <1>3, <1>5, <1>8
<1> QED BY <1>2, <1>3, <1>8, <1>9 DEF s, n, P

\* The leaves commit to the entries that pay something and to nothing else.
LEMMA LeavesAre ==
  ASSUME NEW order \in Collations, NEW es, Paid(es) # {}
  PROVE  /\ Listed(Leaves(es, order), Cardinality(Paid(es)))
         /\ ElementsOf(Leaves(es, order)) =
              {HashLeafContent(Content(es, a)) : a \in Paid(es)}
<1> DEFINE P == Paid(es)
           n == Cardinality(P)
           s == Sorted(es, order)
           x == Leaves(es, order)
           leaf(a) == HashLeafContent(Content(es, a))
<1>1. /\ n \in Nat /\ IsFiniteSet(P)
      /\ \A i \in 1..n : s[i] \in P
      /\ \A a \in P : \E i \in 1..n : s[i] = a
  BY SortedIs
<1>2. n # 0
  <2> HIDE DEF P
  <2> QED BY <1>1, FS_EmptySet DEF P
<1>3. x = [i \in 1..n |-> leaf(s[i])]
  BY DEF Leaves
<1>4. Listed(x, n)
  <2>1. DOMAIN x = 1..n /\ x = [i \in 1..n |-> x[i]]
    BY <1>3
  <2> HIDE DEF x, n
  <2> QED BY <1>1, <1>2, <2>1, ListedLen
<1>5. ElementsOf(x) = {leaf(a) : a \in P}
  <2> HIDE DEF P, n, s, x, leaf
  <2> QED BY <1>1, <1>3 DEF ElementsOf
<1> QED BY <1>4, <1>5

\* Each level is a list, and shorter than the one below until it is a single hash.
LEMMA LevelsShrink ==
  ASSUME NEW x, NEW n, Listed(x, n), NEW k \in Nat
  PROVE  \E m : Listed(Level(x)[k], m) /\ (m = 1 \/ m + k <= n)
<1> DEFINE level == Level(x)
           Fine(j) == \E m : Listed(level[j], m) /\ (m = 1 \/ m + j <= n)
           W == {j \in Nat : Fine(j)}
<1>1. n \in Nat
  BY DEF Listed
<1>2. 0 \in W
  <2>1. level[0] = x
    BY LevelRecursion
  <2>2. Listed(level[0], n) /\ n + 0 <= n
    BY <1>1, <2>1
  <2> HIDE DEF level
  <2> QED BY <2>2
<1>3. ASSUME NEW j \in Nat, j \in W
      PROVE  j + 1 \in W
  <2> HIDE DEF level
  <2>1. PICK m : Listed(level[j], m) /\ (m = 1 \/ m + j <= n)
    BY <1>3
  <2>2. level[j + 1] = Up(level[j])
    BY LevelRecursion DEF level
  <2>3. Listed(level[j + 1], (m + 1) \div 2)
    BY <2>1, <2>2, UpIs
  <2>4. m \in Nat \ {0}
    BY <2>1 DEF Listed
  <2>5. (m + 1) \div 2 = 1 \/ (m + 1) \div 2 + (j + 1) <= n
    <3>1. CASE m = 1
      BY <3>1
    <3>2. CASE m # 1
      <4>1. (m + 1) \div 2 < m /\ (m + 1) \div 2 \in Nat
        BY <2>4, <3>2, Halves
      <4> QED BY <1>1, <2>1, <2>4, <3>2, <4>1
    <3> QED BY <3>1, <3>2
  <2> QED BY <2>3, <2>5
<1>4. Nat \subseteq W
  <2> HIDE DEF W
  <2> QED BY <1>2, <1>3, NatSetInduction
<1> QED BY <1>4

\* Levels() ends in a level of one hash, the root.
LEMMA TopIsAlone ==
  ASSUME NEW x, NEW n, Listed(x, n)
  PROVE  Top(x) \in Nat /\ Listed(Level(x)[Top(x)], 1)
<1> DEFINE level == Level(x)
           Alone == {k \in 0..n : Len(level[k]) = 1}
<1>1. n \in Nat \ {0} /\ Len(x) = n
  BY DEF Listed
<1>2. \A k \in Nat : \E m : Listed(level[k], m) /\ (m = 1 \/ m + k <= n)
  BY LevelsShrink
<1> HIDE DEF level
<1>3. n \in Alone
  <2>1. PICK m : Listed(level[n], m) /\ (m = 1 \/ m + n <= n)
    BY <1>1, <1>2
  <2>2. m \in Nat \ {0} /\ Len(level[n]) = m
    BY <2>1 DEF Listed
  <2>3. m = 1
    BY <1>1, <2>1, <2>2
  <2> QED BY <1>1, <2>2, <2>3
<1>4. PICK k \in Alone : \A j \in Alone : <<j, k>> \notin OpToRel(<, Nat)
  <2>1. Alone \subseteq Nat
    OBVIOUS
  <2> HIDE DEF Alone
  <2> QED BY <1>3, <2>1, WFMin, NatLessThanWellFounded
<1>5. ASSUME NEW j \in 0..(k - 1)
      PROVE  Len(level[j]) # 1
  <2>1. j \in Nat /\ k \in Nat /\ j < k /\ j \in 0..n
    BY <1>1
  <2>2. <<j, k>> \in OpToRel(<, Nat)
    BY <2>1 DEF OpToRel
  <2>3. j \notin Alone
    BY <1>4, <2>2
  <2> QED BY <2>1, <2>3
<1> DEFINE First(i) == Len(level[i]) = 1 /\ \A j \in 0..(i - 1) : Len(level[j]) # 1
<1>6. Top(x) = CHOOSE i \in 0..n : First(i)
  BY <1>1 DEF Top, level
<1>7. k \in 0..n /\ First(k)
  BY <1>4, <1>5
<1>8. Top(x) \in 0..n /\ First(Top(x))
  <2> HIDE DEF First
  <2> QED BY <1>6, <1>7
<1>9. PICK m : Listed(level[Top(x)], m)
  BY <1>1, <1>2, <1>8
<1>10. m = 1
  BY <1>8, <1>9 DEF Listed
<1> QED BY <1>1, <1>8, <1>9, <1>10 DEF level

LEMMA LevelsAre ==
  ASSUME NEW x, NEW n, Listed(x, n)
  PROVE  LET levels == Levels(x) IN
         /\ Listed(levels, Top(x) + 1)
         /\ \A k \in 1..(Top(x) + 1) : levels[k] = Level(x)[k - 1]
         /\ Last(levels)[1] = Level(x)[Top(x)][1]
<1> DEFINE levels == Levels(x)
           top == Top(x)
           level == Level(x)
<1>1. top \in Nat
  BY TopIsAlone
<1>2. levels = [k \in 1..(top + 1) |-> level[k - 1]]
  BY DEF Levels
<1> HIDE DEF levels, top, level
<1>3. Listed(levels, top + 1)
  <2>1. DOMAIN levels = 1..(top + 1) /\ levels = [k \in 1..(top + 1) |-> levels[k]]
    BY <1>2
  <2>2. top + 1 \in Nat \ {0}
    BY <1>1
  <2> QED BY <2>1, <2>2, ListedLen
<1>4. \A k \in 1..(top + 1) : levels[k] = level[k - 1]
  BY <1>2
<1>5. Last(levels) = levels[top + 1]
  BY <1>3 DEF Last, Listed
<1>6. levels[top + 1] = level[top]
  BY <1>1, <1>4
<1> QED BY <1>3, <1>4, <1>5, <1>6 DEF levels, top, level

\* A list of leaves: nothing but hashes of contents.
OfLeaves(x) == \A e \in ElementsOf(x) : \E c : e = HashLeafContent(c)

\* The first hash of a level is made of the first one below it.
LEMMA FirstAbove ==
  ASSUME NEW x, NEW n, Listed(x, n), NEW k \in Nat
  PROVE  \E h : Level(x)[k + 1][1] = HashNode(Level(x)[k][1], h)
<1>1. PICK m : Listed(Level(x)[k], m)
  BY LevelsShrink
<1>2. m \in Nat \ {0}
  BY <1>1 DEF Listed
<1>3. 1 \in 1..((m + 1) \div 2)
  <2>1. (m + 1) \div 2 \in Nat \ {0}
    BY <1>2, Halves
  <2> QED BY <2>1
<1>4. Level(x)[k + 1] = Up(Level(x)[k])
  BY LevelRecursion
<1> DEFINE y == Level(x)[k]
<1>5. \A i \in 1..((m + 1) \div 2) :
        Up(y)[i] =
          HashNode(y[2 * i - 1], IF 2 * i \in 1..m THEN y[2 * i] ELSE y[2 * i - 1])
  <2> HIDE DEF y
  <2> QED BY <1>1, UpIs DEF y
<1>6. Up(y)[1] = HashNode(y[2 * 1 - 1], IF 2 * 1 \in 1..m THEN y[2 * 1] ELSE y[2 * 1 - 1])
  <2> HIDE DEF y
  <2> QED BY <1>3, <1>5
<1>7. y[2 * 1 - 1] = y[1]
  OBVIOUS
<1> QED BY <1>4, <1>6, <1>7

\* A hash of leaves and a hash of nodes are never the same, nor are those of
\* different heights: the tags of the two kinds tell them apart.
LEMMA HeightsApart ==
  ASSUME NEW x, NEW n, Listed(x, n), OfLeaves(x),
         NEW y, NEW m, Listed(y, m), OfLeaves(y)
  PROVE  \A k, j \in Nat : Level(x)[k][1] = Level(y)[j][1] => k = j
<1> DEFINE f == Level(x)
           g == Level(y)
           W == {k \in Nat : \A j \in Nat : f[k][1] = g[j][1] => k = j}
<1>1. /\ \A k \in Nat : \E h : f[k + 1][1] = HashNode(f[k][1], h)
      /\ \A k \in Nat : \E h : g[k + 1][1] = HashNode(g[k][1], h)
  BY FirstAbove
<1>2. (\E c : f[0][1] = HashLeafContent(c)) /\ (\E c : g[0][1] = HashLeafContent(c))
  <2>1. f[0] = x /\ g[0] = y
    BY LevelRecursion
  <2>2. x[1] \in ElementsOf(x) /\ y[1] \in ElementsOf(y)
    BY DEF Listed, ElementsOf
  <2> QED BY <2>1, <2>2 DEF OfLeaves
<1> HIDE DEF f, g
<1>3. 0 \in W
  <2> SUFFICES ASSUME NEW j \in Nat, f[0][1] = g[j][1]
               PROVE  0 = j
    OBVIOUS
  <2> SUFFICES ASSUME j # 0
               PROVE  FALSE
    OBVIOUS
  <2>1. j - 1 \in Nat /\ (j - 1) + 1 = j
    OBVIOUS
  <2>2. PICK h : g[j][1] = HashNode(g[j - 1][1], h)
    BY <1>1, <2>1
  <2>3. PICK c : f[0][1] = HashLeafContent(c)
    BY <1>2
  <2> QED BY <2>2, <2>3, HashesApart
<1>4. ASSUME NEW k \in Nat, k \in W
      PROVE  k + 1 \in W
  <2> SUFFICES ASSUME NEW j \in Nat, f[k + 1][1] = g[j][1]
               PROVE  k + 1 = j
    OBVIOUS
  <2>1. PICK h : f[k + 1][1] = HashNode(f[k][1], h)
    BY <1>1
  <2>2. j # 0
    <3> SUFFICES ASSUME j = 0
                 PROVE  FALSE
      OBVIOUS
    <3>1. PICK c : g[0][1] = HashLeafContent(c)
      BY <1>2
    <3> QED BY <2>1, <3>1, HashesApart
  <2>3. j - 1 \in Nat /\ (j - 1) + 1 = j
    BY <2>2
  <2>4. PICK e : g[j][1] = HashNode(g[j - 1][1], e)
    BY <1>1, <2>3
  <2>5. f[k][1] = g[j - 1][1]
    <3>1. HashNode(f[k][1], h) = HashNode(g[j - 1][1], e)
      BY <2>1, <2>4
    <3> QED BY ONLY <3>1, HashesApart
  <2>6. k = j - 1
    BY <1>4, <2>3, <2>5
  <2> QED BY <2>3, <2>6
<1>5. Nat \subseteq W
  <2> HIDE DEF W
  <2> QED BY <1>3, <1>4, NatSetInduction
<1> QED BY <1>5 DEF f, g

\* Two lists whose levels so high have the same hashes have the same hashes.
LEMMA SameBelow ==
  ASSUME NEW x, NEW n, Listed(x, n), NEW y, NEW m, Listed(y, m), NEW k \in Nat,
         ElementsOf(Level(x)[k]) = ElementsOf(Level(y)[k])
  PROVE  ElementsOf(x) = ElementsOf(y)
<1> DEFINE f == Level(x)
           g == Level(y)
           W == {j \in Nat : ElementsOf(f[j]) = ElementsOf(g[j]) => ElementsOf(x) = ElementsOf(y)}
<1>1. 0 \in W
  BY LevelRecursion
<1>2. ASSUME NEW j \in Nat, j \in W
      PROVE  j + 1 \in W
  <2> SUFFICES ASSUME ElementsOf(f[j + 1]) = ElementsOf(g[j + 1])
               PROVE  ElementsOf(f[j]) = ElementsOf(g[j])
    BY <1>2
  <2>1. f[j + 1] = Up(f[j]) /\ g[j + 1] = Up(g[j])
    BY LevelRecursion
  <2>2. (\E i : Listed(f[j], i)) /\ (\E i : Listed(g[j], i))
    BY LevelsShrink
  <2> HIDE DEF f, g
  <2>3. ElementsOf(f[j]) = {h[2] : h \in ElementsOf(f[j + 1])} \cup {h[3] : h \in ElementsOf(f[j + 1])}
    BY <2>1, <2>2, UpElements
  <2>4. ElementsOf(g[j]) = {h[2] : h \in ElementsOf(g[j + 1])} \cup {h[3] : h \in ElementsOf(g[j + 1])}
    BY <2>1, <2>2, UpElements
  <2> QED BY <2>3, <2>4
<1>3. Nat \subseteq W
  <2> HIDE DEF W
  <2> QED BY <1>1, <1>2, NatSetInduction
<1> QED BY <1>3

\* One root, one set of leaves.
LEMMA RootsApart ==
  ASSUME NEW x, NEW n, Listed(x, n), OfLeaves(x),
         NEW y, NEW m, Listed(y, m), OfLeaves(y),
         Last(Levels(x))[1] = Last(Levels(y))[1]
  PROVE  ElementsOf(x) = ElementsOf(y)
<1> DEFINE k == Top(x)
           j == Top(y)
           f == Level(x)
           g == Level(y)
<1>1. k \in Nat /\ Listed(f[k], 1) /\ j \in Nat /\ Listed(g[j], 1)
  BY TopIsAlone
<1>2. f[k][1] = g[j][1]
  BY LevelsAre
<1>3. k = j
  BY <1>1, <1>2, HeightsApart
<1>4. ElementsOf(f[k]) = {f[k][1]} /\ ElementsOf(g[k]) = {g[k][1]}
  <2> HIDE DEF f, g, k, j
  <2> QED BY <1>1, <1>3 DEF Listed, ElementsOf
<1>5. ElementsOf(f[k]) = ElementsOf(g[k])
  BY <1>2, <1>3, <1>4
<1> QED BY <1>1, <1>5, SameBelow

\* Every hash of the tree over a list of leaves.
HashesOf(x) == UNION {ToSet(level) : level \in ToSet(Levels(x))}

LEMMA HashesAre ==
  ASSUME NEW x, NEW n, Listed(x, n)
  PROVE  /\ \A h \in HashesOf(x) : \E k \in 0..Top(x) : h \in ElementsOf(Level(x)[k])
         /\ \A k \in 0..Top(x) : ElementsOf(Level(x)[k]) \subseteq HashesOf(x)
<1> DEFINE levels == Levels(x)
           top == Top(x)
           level == Level(x)
<1>1. top \in Nat
  BY TopIsAlone
<1>2. DOMAIN levels = 1..(top + 1) /\ \A k \in 1..(top + 1) : levels[k] = level[k - 1]
  BY LevelsAre DEF Listed
<1>3. HashesOf(x) = UNION {ElementsOf(levels[k]) : k \in 1..(top + 1)}
  BY <1>2 DEF HashesOf, ToSet, ElementsOf
<1> HIDE DEF levels, top, level
<1>4. ASSUME NEW h \in HashesOf(x)
      PROVE  \E k \in 0..top : h \in ElementsOf(level[k])
  <2>1. PICK k \in 1..(top + 1) : h \in ElementsOf(levels[k])
    BY <1>3
  <2>2. k - 1 \in 0..top /\ levels[k] = level[k - 1]
    BY <1>1, <1>2
  <2> QED BY <2>1, <2>2
<1>5. ASSUME NEW k \in 0..top
      PROVE  ElementsOf(level[k]) \subseteq HashesOf(x)
  <2>1. k + 1 \in 1..(top + 1) /\ levels[k + 1] = level[k]
    BY <1>1, <1>2
  <2> QED BY <1>3, <2>1
<1> QED BY <1>4, <1>5 DEF top, level

\* What a hash of the tree was made from is in the tree, down to the leaves.
LEMMA ClosedBelow ==
  ASSUME NEW x, NEW n, Listed(x, n), OfLeaves(x)
  PROVE  /\ \A l, r : HashNode(l, r) \in HashesOf(x) => l \in HashesOf(x) /\ r \in HashesOf(x)
         /\ \A c : HashLeafContent(c) \in HashesOf(x)
                     => HashLeafContent(c) \in ElementsOf(x)
<1> DEFINE level == Level(x)
           top == Top(x)
<1>1. top \in Nat
  BY TopIsAlone
<1>2. level[0] = x
  BY LevelRecursion
<1>3. ASSUME NEW k \in 0..top, k # 0, NEW h \in ElementsOf(level[k])
      PROVE  \E l, r \in HashesOf(x) : h = HashNode(l, r)
  <2>1. k - 1 \in Nat /\ k - 1 \in 0..top /\ (k - 1) + 1 = k
    BY <1>1, <1>3
  <2>2. level[k] = Up(level[k - 1])
    BY <2>1, LevelRecursion
  <2>3. PICK m : Listed(level[k - 1], m)
    BY <2>1, LevelsShrink
  <2>4. ElementsOf(level[k - 1]) \subseteq HashesOf(x)
    BY <2>1, HashesAre
  <2> HIDE DEF level
  <2>5. /\ DOMAIN level[k] = 1..((m + 1) \div 2)
        /\ \A i \in 1..((m + 1) \div 2) :
              /\ 2 * i - 1 \in 1..m
              /\ level[k][i] = HashNode(level[k - 1][2 * i - 1],
                   IF 2 * i \in 1..m THEN level[k - 1][2 * i] ELSE level[k - 1][2 * i - 1])
    BY <2>2, <2>3, UpIs DEF Listed
  <2>6. PICK i \in 1..((m + 1) \div 2) : h = level[k][i]
    BY <1>3, <2>5 DEF ElementsOf
  <2>7. \A e \in 1..m : level[k - 1][e] \in HashesOf(x)
    BY <2>3, <2>4 DEF Listed, ElementsOf
  <2> DEFINE r == IF 2 * i \in 1..m THEN level[k - 1][2 * i] ELSE level[k - 1][2 * i - 1]
  <2>8. level[k - 1][2 * i - 1] \in HashesOf(x) /\ r \in HashesOf(x)
    BY <2>5, <2>7
  <2>9. h = HashNode(level[k - 1][2 * i - 1], r)
    BY <2>5, <2>6
  <2> QED BY <2>8, <2>9
<1>4. \A h \in HashesOf(x) : h \in ElementsOf(x) \/ \E l, r \in HashesOf(x) : h = HashNode(l, r)
  <2> SUFFICES ASSUME NEW h \in HashesOf(x), h \notin ElementsOf(x)
               PROVE  \E l, r \in HashesOf(x) : h = HashNode(l, r)
    OBVIOUS
  <2>1. PICK k \in 0..top : h \in ElementsOf(level[k])
    BY HashesAre
  <2>2. k # 0
    BY <1>2, <2>1
  <2> QED BY <1>3, <2>1, <2>2
<1> HIDE DEF level, top
<1>5. ASSUME NEW l, NEW r, HashNode(l, r) \in HashesOf(x)
      PROVE  l \in HashesOf(x) /\ r \in HashesOf(x)
  <2>1. HashNode(l, r) \notin ElementsOf(x)
    BY HashesApart DEF OfLeaves
  <2>2. PICK a, b \in HashesOf(x) : HashNode(l, r) = HashNode(a, b)
    BY <1>4, <1>5, <2>1
  <2>3. l = a /\ r = b
    BY ONLY <2>2, HashesApart
  <2> QED BY <2>3
<1>6. ASSUME NEW c, HashLeafContent(c) \in HashesOf(x)
      PROVE  HashLeafContent(c) \in ElementsOf(x)
  BY <1>4, <1>6, HashesApart
<1> QED BY <1>5, <1>6

\* A proof that runs into the tree started in it.
LEMMA ClimbInside ==
  ASSUME NEW x, NEW n, Listed(x, n), OfLeaves(x), NEW p, NEW k \in Nat,
         Climb(p)[k] \in HashesOf(x)
  PROVE  HashLeafContent(p.content) \in ElementsOf(x)
<1> DEFINE run == Climb(p)
           W == {j \in Nat : run[j] \in HashesOf(x) => run[0] \in HashesOf(x)}
<1>1. 0 \in W
  OBVIOUS
<1>2. ASSUME NEW j \in Nat, j \in W
      PROVE  j + 1 \in W
  <2> SUFFICES ASSUME run[j + 1] \in HashesOf(x)
               PROVE  run[j] \in HashesOf(x)
    BY <1>2
  <2>1. \E e : run[j + 1] = HashNode(run[j], e) \/ run[j + 1] = HashNode(e, run[j])
    BY ClimbRecursion
  <2> HIDE DEF run
  <2>2. PICK e : run[j + 1] = HashNode(run[j], e) \/ run[j + 1] = HashNode(e, run[j])
    BY <2>1
  <2> QED BY <2>2, ClosedBelow
<1>3. Nat \subseteq W
  <2> HIDE DEF W
  <2> QED BY <1>1, <1>2, NatSetInduction
<1>4. run[0] \in HashesOf(x)
  BY <1>3
<1>5. run[0] = HashLeafContent(p.content)
  BY ClimbRecursion
<1> HIDE DEF run
<1> QED BY <1>4, <1>5, ClosedBelow

\* The root of a commitment is the hash at the top of the tree.
LEMMA RootIs ==
  ASSUME NEW order \in Collations, NEW es, Paid(es) # {}
  PROVE  LET x == Leaves(es, order) IN
         /\ Listed(x, Cardinality(Paid(es)))
         /\ OfLeaves(x)
         /\ ElementsOf(x) = {HashLeafContent(Content(es, a)) : a \in Paid(es)}
         /\ MerkleRoot(es, order) = Last(Levels(x))[1]
         /\ MerkleRoot(es, order) = Level(x)[Top(x)][1]
         /\ MerkleRoot(es, order) \in HashesOf(x)
<1> DEFINE x == Leaves(es, order)
           n == Cardinality(Paid(es))
           top == Top(x)
           level == Level(x)
<1>1. Listed(x, n) /\ ElementsOf(x) = {HashLeafContent(Content(es, a)) : a \in Paid(es)}
  BY LeavesAre
<1>2. OfLeaves(x)
  BY <1>1 DEF OfLeaves
<1>3. MerkleRoot(es, order) = Last(Levels(x))[1]
  BY DEF MerkleRoot
<1> HIDE DEF x, n
<1>4. Last(Levels(x))[1] = level[top][1]
  BY <1>1, LevelsAre
<1>5. top \in Nat /\ Listed(level[top], 1)
  BY <1>1, TopIsAlone
<1>6. ElementsOf(level[top]) \subseteq HashesOf(x)
  BY <1>1, <1>5, HashesAre
<1> HIDE DEF level, top
<1>7. level[top][1] \in HashesOf(x)
  BY <1>5, <1>6 DEF Listed, ElementsOf
<1> QED BY <1>1, <1>2, <1>3, <1>4, <1>7 DEF x, n, level, top

\* What verifies against the root of some entries is one of them.
LEMMA VerifiesOnlyEntries ==
  ASSUME NEW order \in Collations, NEW es, Paid(es) # {},
         NEW c, NEW path, Len(path) \in Nat, c = <<c[1], c[2]>>,
         VerifyProof([content |-> c, path |-> path,
                           commitment |-> MerkleRoot(es, order)])
  PROVE  \E a \in Paid(es) : c = Content(es, a)
<1> DEFINE x == Leaves(es, order)
           p == [content |-> c, path |-> path, commitment |-> MerkleRoot(es, order)]
           n == Cardinality(Paid(es))
<1>1. /\ Listed(x, n) /\ OfLeaves(x)
      /\ ElementsOf(x) = {HashLeafContent(Content(es, a)) : a \in Paid(es)}
      /\ MerkleRoot(es, order) \in HashesOf(x)
  BY RootIs
<1>2. Climb(p)[Len(path)] \in HashesOf(x)
  BY <1>1 DEF VerifyProof
<1>3. p.content = c
  OBVIOUS
<1> HIDE DEF x, p, n
<1>4. HashLeafContent(p.content) \in ElementsOf(x)
  BY <1>1, <1>2, ClimbInside
<1>5. PICK a \in Paid(es) :
        HashLeafContent(c) = HashLeafContent(Content(es, a))
  BY <1>1, <1>3, <1>4
<1>6. c[1] = Content(es, a)[1] /\ c[2] = Content(es, a)[2]
  BY ONLY <1>5, HashesApart
<1>7. c = Content(es, a)
  BY <1>6 DEF Content
<1> QED BY <1>7

\* The proof that is made for an entry verifies.
LEMMA MadeProofVerifies ==
  ASSUME NEW order \in Collations, NEW es, NEW a \in Paid(es)
  PROVE  /\ VerifyProof(ProofFor(es, order, a))
         /\ ProofFor(es, order, a).commitment = MerkleRoot(es, order)
<1> DEFINE x == Leaves(es, order)
           n == Cardinality(Paid(es))
           levels == Levels(x)
           top == Top(x)
           level == Level(x)
           leaf == CHOOSE i \in 1..Len(levels[1]) : Sorted(es, order)[i] = a
           above == Above(leaf)
           p == ProofFor(es, order, a)
           climb == Climb(p)
<1>1. /\ Listed(x, n)
      /\ MerkleRoot(es, order) = Last(levels)[1]
      /\ MerkleRoot(es, order) = level[top][1]
  BY RootIs
<1>2. /\ Listed(levels, top + 1)
      /\ \A k \in 1..(top + 1) : levels[k] = level[k - 1]
      /\ top \in Nat /\ Listed(level[top], 1)
  <2> HIDE DEF x, n
  <2> QED BY <1>1, LevelsAre, TopIsAlone
<1>3. level[0] = x
  BY LevelRecursion
<1>4. levels[1] = x /\ Len(levels[1]) = n /\ n \in Nat \ {0}
  <2> HIDE DEF x, n, levels, level, top
  <2> QED BY <1>1, <1>2, <1>3 DEF Listed
<1>5. leaf \in 1..n /\ Sorted(es, order)[leaf] = a
  <2>1. \E i \in 1..n : Sorted(es, order)[i] = a
    BY SortedIs
  <2> HIDE DEF x, n, levels
  <2> QED BY <1>4, <2>1
<1>6. x[leaf] = HashLeafContent(Content(es, a))
  <2> HIDE DEF leaf
  <2> QED BY <1>5 DEF Leaves
<1>7. /\ p.content = Content(es, a)
      /\ p.commitment = Last(levels)[1]
      /\ p.path = [k \in 1..(Len(levels) - 1) |->
                     [hash |-> Sibling(levels[k], above[k - 1]),
                      right |-> SiblingIsRight(above[k - 1])]]
  BY DEF ProofFor
<1>8. climb[0] = x[leaf]
  BY <1>6, <1>7, ClimbRecursion
<1>9. \A k \in Nat : climb[k + 1] =
        IF p.path[k + 1].right THEN HashNode(climb[k], p.path[k + 1].hash)
                               ELSE HashNode(p.path[k + 1].hash, climb[k])
  BY ClimbRecursion
<1>10. above[0] = leaf /\ \A k \in Nat : above[k + 1] = (above[k] + 1) \div 2
  <2> HIDE DEF leaf
  <2> QED BY ONLY AboveRecursion
<1>11. VerifyProof(p) <=> climb[Len(p.path)] = p.commitment
  BY DEF VerifyProof
<1>12. \A k \in Nat : (\E m : Listed(level[k], m)) /\ level[k + 1] = Up(level[k])
  <2> HIDE DEF x, n
  <2> QED BY <1>1, LevelsShrink, LevelRecursion
<1> HIDE DEF x, n, levels, top, level, leaf, above, p, climb
<1>13. Len(levels) = top + 1
  BY <1>2 DEF Listed
<1>14. p.path = [k \in 1..top |-> [hash |-> Sibling(levels[k], above[k - 1]),
                                   right |-> SiblingIsRight(above[k - 1])]]
  BY <1>2, <1>7, <1>13
<1>15. Len(p.path) = top
  BY <1>2, <1>14
<1> DEFINE Right(k) == above[k] \in DOMAIN level[k] /\ climb[k] = level[k][above[k]]
           W == {k \in Nat : k <= top => Right(k)}
<1>16. 0 \in W
  BY <1>1, <1>3, <1>5, <1>8, <1>10 DEF Listed
<1>17. ASSUME NEW k \in Nat, k \in W
       PROVE  k + 1 \in W
  <2> SUFFICES ASSUME k + 1 <= top
               PROVE  Right(k + 1)
    OBVIOUS
  <2> DEFINE y == level[k]
             i == above[k]
             j == (i + 1) \div 2
  <2>1. Right(k)
    BY <1>2, <1>17
  <2>2. PICK m : Listed(y, m)
    BY <1>12
  <2>3. m \in Nat \ {0} /\ DOMAIN y = 1..m /\ i \in 1..m
    BY <2>1, <2>2 DEF Listed
  <2>4. above[k + 1] = j /\ level[k + 1] = Up(y)
    BY <1>10, <1>12
  <2>5. p.path[k + 1] = [hash |-> Sibling(y, i), right |-> SiblingIsRight(i)]
    <3>1. k + 1 \in 1..top /\ k + 1 \in 1..(top + 1) /\ (k + 1) - 1 = k
      BY <1>2
    <3>2. levels[k + 1] = y
      BY <1>2, <3>1
    <3> QED BY <1>14, <3>1, <3>2
  <2>6. climb[k] = y[i]
    BY <2>1
  <2>7. climb[k + 1] = IF i % 2 = 1 THEN HashNode(y[i], Sibling(y, i))
                                    ELSE HashNode(Sibling(y, i), y[i])
    <3>1. /\ p.path[k + 1].hash = Sibling(y, i)
          /\ p.path[k + 1].right = SiblingIsRight(i)
      BY <2>5
    <3> HIDE DEF y, i
    <3>2. climb[k + 1] = IF SiblingIsRight(i) THEN HashNode(y[i], Sibling(y, i))
                                                   ELSE HashNode(Sibling(y, i), y[i])
      BY <1>9, <2>6, <3>1
    <3> QED BY <3>2 DEF SiblingIsRight
  <2> HIDE DEF y, i
  <2>8. j \in 1..((m + 1) \div 2)
    BY <2>3, Halves
  <2>9. Up(y)[j] =
          HashNode(y[2 * j - 1], IF 2 * j \in 1..m THEN y[2 * j] ELSE y[2 * j - 1])
    <3> HIDE DEF j
    <3> QED BY <2>2, <2>8, UpIs
  <2>10. climb[k + 1] = Up(y)[j]
    <3>1. i \in Nat \ {0}
      BY <2>3
    <3>2. CASE i % 2 = 1
      <4>1. 2 * j - 1 = i /\ 2 * j = i + 1 /\ (i % 2 = 0) = FALSE
        BY <3>1, <3>2
      <4>2. Sibling(y, i) = IF i + 1 \in 1..m THEN y[i + 1] ELSE y[i]
        BY <2>3, <4>1 DEF Sibling
      <4> QED BY <2>7, <2>9, <3>2, <4>1, <4>2
    <3>3. CASE i % 2 = 0
      <4>1. 2 * j - 1 = i - 1 /\ 2 * j = i /\ (i % 2 = 1) = FALSE /\ i - 1 \in 1..m
        BY <2>3, <3>1, <3>3
      <4>2. Sibling(y, i) = y[i - 1]
        BY <2>3, <3>3, <4>1 DEF Sibling
      <4> QED BY <2>3, <2>7, <2>9, <4>1, <4>2
    <3> QED BY <3>1, <3>2, <3>3
  <2>11. DOMAIN Up(y) = 1..((m + 1) \div 2)
    BY <2>2, UpIs DEF Listed
  <2> QED BY <2>4, <2>8, <2>10, <2>11
<1>18. Nat \subseteq W
  <2> HIDE DEF W
  <2> QED BY <1>16, <1>17, NatSetInduction
<1>19. Right(top)
  BY <1>2, <1>18
<1>20. above[top] = 1
  BY <1>2, <1>19 DEF Listed
<1>21. climb[Len(p.path)] = p.commitment
  BY <1>1, <1>7, <1>15, <1>19, <1>20
<1> QED BY <1>1, <1>7, <1>11, <1>21 DEF p

\* One root, one set of entries, whatever order each side sorted them in.
LEMMA RootTellsEntries ==
  ASSUME NEW es \in [Accounts -> Amounts], Paid(es) # {}, NEW order \in Collations,
         NEW fs \in [Accounts -> Amounts], Paid(fs) # {}, NEW other \in Collations,
         MerkleRoot(es, order) = MerkleRoot(fs, other)
  PROVE  es = fs
<1> DEFINE x == Leaves(es, order)
           y == Leaves(fs, other)
           leaf(gs, a) == HashLeafContent(Content(gs, a))
<1>1. /\ \E n : Listed(x, n)
      /\ OfLeaves(x) /\ ElementsOf(x) = {leaf(es, a) : a \in Paid(es)}
      /\ MerkleRoot(es, order) = Last(Levels(x))[1]
  BY RootIs
<1>2. /\ \E n : Listed(y, n)
      /\ OfLeaves(y) /\ ElementsOf(y) = {leaf(fs, a) : a \in Paid(fs)}
      /\ MerkleRoot(fs, other) = Last(Levels(y))[1]
  BY RootIs
<1> HIDE DEF x, y
<1>3. ElementsOf(x) = ElementsOf(y)
  BY <1>1, <1>2, RootsApart
<1>4. ASSUME NEW a, NEW b, leaf(es, a) = leaf(fs, b)
      PROVE  a = b /\ es[a] = fs[b]
  <2>1. Content(es, a)[1] = Content(fs, b)[1] /\ Content(es, a)[2] = Content(fs, b)[2]
    <3>1. HashLeafContent(Content(es, a)) = HashLeafContent(Content(fs, b))
      BY <1>4
    <3> HIDE DEF leaf
    <3> QED BY ONLY <3>1 DEF HashLeafContent
  <2> QED BY <2>1 DEF Content
<1> HIDE DEF leaf
<1>5. {leaf(es, a) : a \in Paid(es)} = {leaf(fs, a) : a \in Paid(fs)}
  BY <1>1, <1>2, <1>3
<1>6. ASSUME NEW a \in Accounts
      PROVE  es[a] = fs[a]
  <2>1. CASE a \in Paid(es)
    <3>1. PICK b \in Paid(fs) : leaf(es, a) = leaf(fs, b)
      BY <1>5, <2>1
    <3> QED BY <1>4, <3>1
  <2>2. CASE a \in Paid(fs)
    <3>1. PICK b \in Paid(es) : leaf(es, b) = leaf(fs, a)
      BY <1>5, <2>2
    <3> QED BY <1>4, <3>1
  <2>3. CASE a \notin Paid(es) /\ a \notin Paid(fs)
    <3>1. es[a] \in 0..MaxZat /\ fs[a] \in 0..MaxZat /\ MaxZat \in Nat
      BY ReceiptAssumption DEF Amounts
    <3> QED BY <2>3, <3>1 DEF Paid
  <2> QED BY <2>1, <2>2, <2>3
<1> QED BY <1>6

Committed(c) ==
  /\ c.entries \in [Accounts -> Amounts]
  /\ Paid(c.entries) # {}
  /\ \E order \in Collations : c.commitment = MerkleRoot(c.entries, order)

Proving(c) ==
  /\ c.entries \in [Accounts -> Amounts]
  /\ \E order \in Collations : \E a \in Paid(c.entries) :
       c.proof = ProofFor(c.entries, order, a)

\* What was committed to or printed was made, in the order of some host, from
\* the entries that it is kept beside.
ReceiptInv ==
  /\ entries \in [Accounts -> Amounts]
  /\ memo # Nothing => Committed(memo)
  /\ ReceiptPrinted => Committed(printed)
  /\ ProofPrinted => Proving(printed)

LEMMA InitReceiptInv ==
  ASSUME ReceiptInit
  PROVE  ReceiptInv
BY DEF ReceiptInit, ReceiptInv, ReceiptPrinted, ProofPrinted

LEMMA MadeCommitment ==
  ASSUME NEW order \in Collations, entries \in [Accounts -> Amounts],
         Paid(entries) # {}
  PROVE  Committed(Commitment(order)) /\ Commitment(order).kind = "receipt"
<1> DEFINE c == Commitment(order)
<1>1. c.entries = entries /\ c.commitment = MerkleRoot(entries, order) /\ c.kind = "receipt"
  BY DEF Commitment
<1> HIDE DEF c
<1>2. Committed(c)
  BY <1>1 DEF Committed
<1> QED BY <1>1, <1>2 DEF c

LEMMA NextReceiptInv ==
  ASSUME ReceiptInv, [ReceiptNext]_receiptVars
  PROVE  ReceiptInv'
<1>1. ASSUME NEW order \in Collations, Anchor(order)
      PROVE  ReceiptInv'
  <2>1. entries' = entries /\ printed' = printed /\ memo' = Commitment(order)
    BY <1>1 DEF Anchor
  <2>2. Committed(memo')
    BY <1>1, <2>1, MadeCommitment DEF ReceiptInv, Anchor
  <2>3. (ReceiptPrinted => Committed(printed))' /\ (ProofPrinted => Proving(printed))'
    BY <2>1 DEF ReceiptInv, ReceiptPrinted, ProofPrinted, Committed, Proving
  <2> QED BY <2>1, <2>2, <2>3 DEF ReceiptInv, Committed
<1>2. ASSUME NEW order \in Collations, IssueReceipt(order)
      PROVE  ReceiptInv'
  <2>1. entries' = entries /\ memo' = memo /\ printed' = Commitment(order)
    BY <1>2 DEF IssueReceipt
  <2>2. Committed(printed') /\ printed'.kind = "receipt"
    BY <1>2, <2>1, MadeCommitment DEF ReceiptInv, IssueReceipt
  <2>3. (memo # Nothing => Committed(memo))'
    BY <2>1 DEF ReceiptInv, Committed
  <2>4. ~ProofPrinted'
    BY <2>2 DEF ProofPrinted
  <2>5. Committed(printed)'
    BY <2>2 DEF Committed
  <2> QED BY <2>1, <2>3, <2>4, <2>5 DEF ReceiptInv
<1>3. ASSUME NEW order \in Collations, NEW a \in Accounts, IssueProof(a, order)
      PROVE  ReceiptInv'
  <2>1. /\ entries' = entries /\ memo' = memo /\ a \in Paid(entries)
        /\ printed' = [kind |-> "proof", proof |-> ProofFor(entries, order, a),
                       entries |-> entries]
    BY <1>3 DEF IssueProof
  <2>2. (memo # Nothing => Committed(memo))'
    BY <2>1 DEF ReceiptInv, Committed
  <2>3. printed'.kind = "proof"
    BY <2>1
  <2>4. ~ReceiptPrinted'
    BY <2>3 DEF ReceiptPrinted
  <2>5. printed'.entries = entries /\ printed'.proof = ProofFor(entries, order, a)
    BY <2>1
  <2>6. Proving(printed)'
    BY <2>1, <2>5 DEF Proving, ReceiptInv
  <2> QED BY <2>1, <2>2, <2>4, <2>6 DEF ReceiptInv
<1>4. ASSUME NEW a \in Accounts, NEW zat \in Amounts, Edit(a, zat)
      PROVE  ReceiptInv'
  <2>1. memo' = memo /\ printed' = printed /\ entries' \in [Accounts -> Amounts]
    BY <1>4 DEF Edit, ReceiptInv
  <2> QED BY <2>1 DEF ReceiptInv, ReceiptPrinted, ProofPrinted, Committed, Proving
<1>5. ASSUME UNCHANGED receiptVars
      PROVE  ReceiptInv'
  <2>1. entries' = entries /\ memo' = memo /\ printed' = printed
    BY <1>5 DEF receiptVars
  <2> QED BY <2>1 DEF ReceiptInv, ReceiptPrinted, ProofPrinted, Committed, Proving
<1> QED BY <1>1, <1>2, <1>3, <1>4, <1>5 DEF ReceiptNext

LEMMA SpecReceiptInv == ReceiptSpec => []ReceiptInv
<1>1. ReceiptInit => ReceiptInv
  BY InitReceiptInv
<1>2. ReceiptInv /\ [ReceiptNext]_receiptVars => ReceiptInv'
  BY NextReceiptInv
<1> QED BY <1>1, <1>2, PTL DEF ReceiptSpec

\* Whatever the locales of the hosts, a proof that `zgrove receipt --proof`
\* prints verifies against the root it was made for (receipt.ts:92-168).
THEOREM SpecPrintedProofVerifies ==
  ReceiptSpec => [](ProofPrinted => VerifyProof(printed.proof))
<1>1. ReceiptInv => (ProofPrinted => VerifyProof(printed.proof))
  BY MadeProofVerifies DEF ReceiptInv, Proving
<1> QED BY <1>1, SpecReceiptInv, PTL

\* And where all hosts sort account ids alike, it is against the root in the
\* memo, unless an entry was changed since.
THEOREM SpecProofIsOfTheReceipt ==
  ASSUME \A order, other \in Collations : order = other
  PROVE  ReceiptSpec => []ProofIsOfTheReceipt
<1>1. ReceiptInv => ProofIsOfTheReceipt
  <2> SUFFICES ASSUME ReceiptInv, ProofPrinted
               PROVE  /\ VerifyProof(printed.proof)
                      /\ memo # Nothing /\ memo.entries = printed.entries =>
                           printed.proof.commitment = memo.commitment
    BY DEF ProofIsOfTheReceipt
  <2>1. PICK order \in Collations, a \in Paid(printed.entries) :
          printed.proof = ProofFor(printed.entries, order, a)
    BY DEF ReceiptInv, Proving
  <2>2. /\ VerifyProof(printed.proof)
        /\ printed.proof.commitment = MerkleRoot(printed.entries, order)
    BY <2>1, MadeProofVerifies
  <2>3. ASSUME memo # Nothing, memo.entries = printed.entries
        PROVE  printed.proof.commitment = memo.commitment
    <3>1. PICK other \in Collations : memo.commitment = MerkleRoot(memo.entries, other)
      BY <2>3 DEF ReceiptInv, Committed
    <3>2. order = other
      OBVIOUS
    <3> QED BY <2>2, <2>3, <3>1, <3>2
  <2> QED BY <2>2, <2>3
<1> QED BY <1>1, SpecReceiptInv, PTL

\* Nothing but an entry that a receipt was made from verifies against its root,
\* by any path of hashes of the tree: an amount that was not recorded, or the
\* two halves of an inner node taken for an entry, never does
\* (receipt.ts:64-86).
THEOREM SpecOnlyRecordedEntriesVerify == ReceiptSpec => []OnlyRecordedEntriesVerify
<1>1. ReceiptInv => OnlyRecordedEntriesVerify
  <2> DEFINE hashes(order) == HashesOf(Leaves(printed.entries, order))
             steps(order) == [hash : hashes(order), right : BOOLEAN]
             paths(order) == UNION {[1..n -> steps(order)] : n \in 0..2}
             contents(order) == (Accounts \X Amounts) \cup {<<h[2], h[3]>> : h \in hashes(order)}
  <2> SUFFICES ASSUME ReceiptInv, ReceiptPrinted, NEW order \in Collations,
                      printed.commitment = MerkleRoot(printed.entries, order),
                      NEW c \in contents(order), NEW path \in paths(order),
                      VerifyProof([content |-> c, path |-> path,
                                        commitment |-> printed.commitment])
               PROVE  \E a \in Paid(printed.entries) : c = Content(printed.entries, a)
    BY ZenonT(30) DEF OnlyRecordedEntriesVerify, HashesOf
  <2> HIDE DEF hashes
  <2>1. Len(path) \in Nat
    <3>1. PICK n \in 0..2 : path \in [1..n -> steps(order)]
      OBVIOUS
    <3> HIDE DEF steps
    <3>2. n \in Nat
      OBVIOUS
    <3>3. path \in Seq(steps(order))
      BY <3>1, <3>2
    <3> QED BY <3>3
  <2>2. c = <<c[1], c[2]>>
    OBVIOUS
  <2>3. Paid(printed.entries) # {}
    BY DEF ReceiptInv, Committed
  <2> QED BY <2>1, <2>2, <2>3, VerifiesOnlyEntries
<1> QED BY <1>1, SpecReceiptInv, PTL

\* The same without the bounds a run needs: of all pairs and all paths, however
\* long and of whatever hashes, what verifies is an entry.
THEOREM SpecNothingElseVerifies ==
  ReceiptSpec => [](ReceiptPrinted =>
                      \A c, path :
                        /\ c = <<c[1], c[2]>> /\ Len(path) \in Nat
                        /\ VerifyProof([content |-> c, path |-> path,
                                        commitment |-> printed.commitment])
                        => \E a \in Paid(printed.entries) : c = Content(printed.entries, a))
<1>1. ReceiptInv =>
        (ReceiptPrinted =>
           \A c, path :
             /\ c = <<c[1], c[2]>> /\ Len(path) \in Nat
             /\ VerifyProof([content |-> c, path |-> path,
                             commitment |-> printed.commitment])
             => \E a \in Paid(printed.entries) : c = Content(printed.entries, a))
  <2> SUFFICES ASSUME ReceiptInv, ReceiptPrinted, NEW c, NEW path,
                      c = <<c[1], c[2]>>, Len(path) \in Nat,
                      VerifyProof([content |-> c, path |-> path,
                                   commitment |-> printed.commitment])
               PROVE  \E a \in Paid(printed.entries) : c = Content(printed.entries, a)
    OBVIOUS
  <2>1. PICK order \in Collations : printed.commitment = MerkleRoot(printed.entries, order)
    BY DEF ReceiptInv, Committed
  <2>2. Paid(printed.entries) # {}
    BY DEF ReceiptInv, Committed
  <2> QED BY <2>1, <2>2, VerifiesOnlyEntries
<1> QED BY <1>1, SpecReceiptInv, PTL

\* Whatever the locales, a receipt that agrees with the memo was made from the
\* entries that were anchored: an amount that was changed, added or taken away
\* since never goes unnoticed.
THEOREM SpecAgreementIsSameEntries ==
  ReceiptSpec => [](memo # Nothing /\ ReceiptPrinted /\ printed.commitment = memo.commitment
                     => printed.entries = memo.entries)
<1>1. ReceiptInv => (memo # Nothing /\ ReceiptPrinted /\ printed.commitment = memo.commitment
                       => printed.entries = memo.entries)
  BY RootTellsEntries DEF ReceiptInv, Committed
<1> QED BY <1>1, SpecReceiptInv, PTL

\* Where all hosts sort account ids alike, a receipt disagrees with the memo
\* exactly when an entry was changed between the two (receipt.ts:46).
THEOREM SpecReceiptMatchesAnchor ==
  ASSUME \A order, other \in Collations : order = other
  PROVE  ReceiptSpec => []ReceiptMatchesAnchor
<1>1. ReceiptInv => ReceiptMatchesAnchor
  <2> SUFFICES ASSUME ReceiptInv, memo # Nothing, ReceiptPrinted
               PROVE  printed.commitment = memo.commitment <=> printed.entries = memo.entries
    BY DEF ReceiptMatchesAnchor
  <2>1. Committed(memo) /\ Committed(printed)
    BY DEF ReceiptInv
  <2>2. printed.commitment = memo.commitment => printed.entries = memo.entries
    BY <2>1, RootTellsEntries DEF Committed
  <2>3. printed.entries = memo.entries => printed.commitment = memo.commitment
    BY <2>1 DEF Committed
  <2> QED BY <2>2, <2>3
<1> QED BY <1>1, SpecReceiptInv, PTL
=============================================================================
