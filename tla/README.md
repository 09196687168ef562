# A TLA+ verification of zgrove

zgrove is a mining pool front: contributors' miners connect to a stratum proxy
that relays their work to an upstream pool under one account, keeps the books
of who earned what, and pays the contributors in shielded ZEC once a round. This
directory models its parts in TLA+, model-checks them with TLC and proves the
most important of their properties with TLAPS.

Paths below are relative to the repository. `PROJECT.json` maps every
definition to the lines it models and lists the runs, the mutants that show each
property can fail, the findings and the hazards.

## 1. The system

| part | state | operations | talks to |
|---|---|---|---|
| stratum proxy (`apps/orchestrator`: `server.ts`, `index.ts`, `session.ts`, `upstream.ts`, `line-socket.ts`) | miner sockets, map of sessions, per session: identity, difficulty, queue, pending submits, upstream socket | accept, authorize, submit, expire, resolve, dial, flush, end, hang up | miners, upstream pool, accounting, login resolver |
| share accounting (`packages/db`: `accounting.ts`, `buckets.ts`) | workers, share buckets | touchWorker, recordShare | proxy writes, payout reads |
| payout planning (`payouts.ts`, `cli/payout.ts`) | rounds and their entries | plan, record | operator's commands, Solana RPC for fee tiers |
| payout dispatch (`wallet/dispatch.ts`, `cli/send.ts`, `settle.ts`, `anchor.ts`, `createDispatch`) | dispatch columns of a round | begin, recordOperation, complete, fail, settleExternally, recordAnchor, resume | zallet wallet, Zcash chain lookups, Solana |
| chain lookups (`wallet/lookup.ts`, `lightwalletd.ts`, `chain.ts`) | one call at a time | transaction | lightwalletd, an explorer |
| fee tiers (`tiers.ts`, `wallet/solana.ts`, `resolveFees`) | ladder, balances while a command runs | parse, read, quote | Solana RPC |
| receipts (`protocol/receipt.ts`, `cli/receipt.ts`) | none of its own | merkleRoot, proofFor, verifyProof | anchor, contributors |
| control plane (`control/server.ts`, `challenges.ts`, `sessions.ts`) | challenges, session tokens (in memory) | challenge, attest, bind wallet | agents, wallets, registry |
| registry (`registry.ts`, `cli/enroll.ts`) | accounts, worker keys | createAccount, registerWorkerKey, bindSolanaAddress | operator's commands, control plane |
| login (`login.ts`, `identity.ts`, cache in `index.ts`) | row ids by login | resolve a token or a name | proxy, tokens, registry |
| worker relay and ledger (`apps/worker`: `relay.ts`, `ledger.ts`) | per connection: pending submits, jobs, difficulty; the ledger file | pass bytes, tap both directions, append, summarise | miner, proxy |
| worker agent (`index.ts`, `client.ts`, `miner.ts`, `keystore.ts`) | key file, current miner and relay, backoff | load or create the key, attest, launch, wait, close, retry, signals | control plane, relay, miner process, `init` beside it |
| database (`database.ts`, `migrate.ts`, `cli/backup.ts`, `cli/init.ts`) | schema and rows, the log beside the file, backups, `.env` | open, migrate, write, back up, copy `.env` | every process of the orchestrator's side, the file system |

Configuration, statistics, probing, formatting, the web site and deployment hold
no state that interacts with the rest and are not modelled; `PROJECT.json` lists
them with the reason.

### What is hard about it

* **Concurrency.** The orchestrator is one event loop, so a handler is atomic,
  but every `await` is a gap, one chunk of a socket holds several lines, and the
  operator's commands are other processes that share only the database.
* **Money that cannot be recalled.** A command can die between claiming a round,
  calling the wallet, hearing the operation id and recording the verdict.
  Another command may act on the round meanwhile, from something it read before.
* **Answers that come late**: shares judged after they were written off, a
  wallet that pays after the call timed out, memos that land, or fail, after the
  command gave up, signed messages delivered twice.
* **Stores in insertion order** (pending submits, challenges, tokens) that rely
  on that order being age order.
* **Rounding and carrying** of small amounts from round to round.
* **Crashes** of the contributor's machine while its ledger is being written, of
  a backup in the middle of its file, of a command that creates the rig's key.
* **Several processes over one file**: a release is started by more than one
  process at once, and each migrates what it found behind.
* **Leaving**: the orchestrator exits only when its last miner has.

### What makes each part correct

* dispatch: no round is paid twice; the books say only what happened; a verdict
  is final; a round that can be resolved is.
* proxy: every submit relayed is booked once, for its worker, at its difficulty,
  with the pool's verdict; both sockets of a session end together; requests stay
  in order.
* payouts: a round conserves zatoshis, follows the work, pays its window only;
  carried balances are not forgotten.
* planning and payment together: what an account received and what the books
  still carry for it are never more than it earned.
* database: the schema grows in order, nobody works on less of it than they
  know, what was acknowledged survives, a backup that was reported is whole.
* control plane: a challenge is good for one grant to the key it was issued to;
  tokens are lost for a cause; shares go to the row of the rig that attested.
* relay and ledger: every submit is recorded once with a verdict the proxy gave;
  what a loss of power leaves in the file can be read, but for two records.
* agent: one key for good; one miner at a time, behind its own relay, replaced
  when it dies.
* lookups: nothing cut, late or said to have failed is read as absence; what is
  reported is true.
* fees: no discount that nobody verified.
* receipts: only recorded entries verify; a receipt that differs from its anchor
  was changed.

## 2. The modules

| module | models | abstract specification / proofs | runs |
|---|---|---|---|
| `RoundPayment` | what paying a round promises: one call of the wallet at most, or one hand payment, a verdict, an anchor | is the abstract specification | through `dispatch` |
| `Dispatch` | the dispatch columns and processes running send, resume, settle, anchor and anchor recovery | implements `RoundPayment` (`KeepsPromise`); `DispatchProofs` | `dispatch`, `dispatch_in_flight` |
| `Treasury` | the composition of `Payouts` with `RoundPayment`: rounds planned, recorded, paid and settled beside one another, and what reaches each account | instantiates `RoundPayment`; `TreasuryProofs` | `treasury` |
| `Proxy` | sessions, accounting and shutdown | `ProxyProofs` | `proxy` |
| `Payouts` | share buckets, plan, record | `TreasuryProofs` | `payouts` |
| `Sums` | the sum of a function over a finite set, for `Proxy` and `Payouts` | `SumProofs` | through `proxy`, `payouts`, `treasury` |
| `Control` | control plane, registry, enrolment, login, row cache | `ControlProofs` | `control` |
| `Relay` | the tap and the ledger file | `RelayProofs` | `relay` |
| `Agent` | the key file, runAgent and signals | `AgentProofs` | `agent` |
| `Store` | the database file, migrations, backups, init | `StoreProofs` | `store` |
| `Lookup` | one transaction lookup after another | `DispatchProofs`, since `settle` is who looks up | `lookup` |
| `Fees` | resolveFees | `TreasuryProofs`, since plans charge what it finds | `fees` |
| `Receipt` | merkle receipts | `DispatchProofs`, since anchors carry its roots | `receipt` |

`MCx` gives `x` the constants a `.cfg` cannot write down. In each module an
operator whose comment calls it a mutant, or a slip, is a faulty variant of the
definition under it: nothing uses it, and putting it in that definition's place
must break the property `PROJECT.json` pairs it with.

### Dispatch

State: `row[r]` are the columns `dispatch_state`, `operation_id`, `txid`,
`settlement`, `anchor_signature`; `cli[p]` is where a process is and what it
holds in memory; `ops`, `onChain` and `memos` are the wallet, the Zcash chain
and the Solana chain, external. One SQL statement is one step. Between two
steps a process awaits something and any other process may act; `Stop` is a
dry run, a thrown error or a kill at any of those places. Every conditional
UPDATE is modelled with its WHERE clause (`BeginGuard`, `SettleGuard`,
`AnchorGuard`), and where the code ignores how many rows an UPDATE changed, the
model does. A call of z_sendmany is answered, refused, or times out while the
wallet goes on with it; an operation ends paid, built without broadcast, empty,
failed or cancelled.

A memo that was sent may be confirmed late or never, and when it is, it has landed
or failed: Solana confirms both. `anchor` waits for the memo it sent with
status(), which leaves the error out (`MemoConfirmed`); `anchor --signature` reads
the logs, which a failed transaction has none of (`MemoMatches`). So `AnchorIsTrue`
promises a confirmed transaction made for the round and its payment, and not that
it succeeded: `DispatchClaims.cfg` shows a failed one recorded.

### Proxy

A turn of the event loop handles a chunk of lines one by one (`turn`), and no
other socket's event comes in between; lines after the one that ended the
session are still delivered, as `readStratumLines` does. `shares` is the history
of submits and `books` the sums of the buckets. `pending` is a set of numbers of
shares, and their order is the order of insertion of the code's Map. The pool is
external: it answers each request once, with an id, and pushes difficulties and
reconnects. Miners are external;
`FreshIds` says whether they give each request an id of its own (most do;
`ProxyIds.cfg` has one that does not). `Paired` and the fairness are about the
first session of a connection: `ProxyChunk.cfg` shows what a second one may be.

A signal stops the server from listening and nothing else (`Signal`); the
process exits when the last miner's socket has closed (`Exit`), and a second
signal changes nothing. A miner that goes on mining is not made to leave, so
`ExitsWhenEmpty` says what is promised: once nobody is connected the process
exits. Byte limits of lines are left out, and a write to the database that
throws (session.ts:134 is not caught: the process dies).

### Payouts

`earned` is the work by the second of its submit, `buckets` what the proxy has
booked of it; a share is booked up to `Late` seconds after its submit, in the
bucket of the submit. An operator waits `Grace` seconds after a window before
planning it; nothing in the code enforces that, and `Grace >= Late` in the runs
is an assumption about operators. `plan` and `record` are two steps. Weights
are naturals and the split is exact; the code uses doubles.

### Treasury

`Payouts` with the payment of its rounds: the i-th round recorded is round i of
an instance of `RoundPayment`, which `Dispatch` is shown to implement, so the
steps of a payment are those Dispatch promises and not a second model of them.
`AmountOf` is what planSend takes from the recorded entries. The wallet pays a
call at any time after it was made, whatever the books say by then; the operator
pays by hand what the plan printed. One thing the code cannot see is assumed: an
operator does not pay a round by hand and also have it sent (docs/FIRST-PAYOUT.md
describes the two as alternatives).

Any number of payout commands may plan from the same database and record one after
the other, and nothing in the code prevents it (record rechecks nothing but the
window). Two that overlap carry in the same balance and pay it twice. So that
nobody receives more than they earned is not true of the code: it is
`ReceivedAtMostEarned`, which `MCTreasuryClaims.cfg` violates with two commands.
What does hold is `ReceivedIsAccounted`: what arrived and what the books carry
(`Carried`, which may be negative) are together at most what all rounds, less fees,
gave the account. Money paid twice stands as a balance below zero, which later
parts work off. It fails if a payment can exceed what its round recorded, if a
round can be paid twice, or if a failed or late payment is paid again. It says
nothing of what a failed round owed and is lost: that is `CarriedIsOwed`.

### Control

The challenge store and the token store are sequences in the order of their
Maps. A signed message is a record (`valid` is its signature). `Signed` is the
set of messages a signer may have made of a challenge by now, with its clock off
by a `Drift`; a request takes any of them, so it arrives late, again, or never.
`enroll` looks and writes in two steps. Names are sequences of dot-separated
parts, so that two different pairs may join to one login. `Restart` empties
everything in memory. `conns` are the stratum connections that authorized, with
the token they used; the row their shares go to is `RowFor` of their login.

### Relay

The miner is on the relay's machine, so a line of its own arrives when the relay
reads it; the connection to the proxy has a channel in each direction.
Extranonce, difficulty and target are one value, `terms`, known by the push that
brought it, and the answer to subscribe is such a push. Job ids are unique.
One miner is connected at a time. `append` writes and returns, and nothing is ever
synced (ledger.ts:63): `durable` is how many records the disk is known to hold,
which is what the last loss of power left. A loss of power leaves those and a
prefix of what was appended since, cut between records, before a newline or within
a record (`Left`), and may come within a handler (`UnderWay`). A kill keeps all that
was appended, which is one of these. The file is taken to lose its end only: that
a file system writes an appended file in order is an assumption. A direction may go blind (a line beyond the splitter's limit).

### Agent

`init` and `run` both load the rig's key or create it. Between finding no file
and creating one, and between creating and writing it, anything can happen:
the other command, a kill of `init`, which may be run again. `O_EXCL` (`Creatable`)
is what makes `KeyIsKept` true. A kill between the two leaves an empty file that
every later command refuses.

A miner is configured. Attestation is two round trips, each of which can fail,
and the answer to the second can be lost after the session was granted. A signal
before the handlers exist kills the process, which has no miner yet. A signal
taken while the agent sleeps, attests or starts a relay is in the model too: the
loop then launches one more miner and returns without awaiting it or closing its
relay. The listening relay keeps the process alive, even after that miner exits,
and the handlers keep further signals from ending it. `SignalIsHeeded` is about a
signal taken while a miner is awaited.

### Store

`db` is what a reader of the database sees, `disk` the states a power cut may
leave of it, `main` the file without the log beside it. A process opens the
database and creates `schema_migrations`, reads what is applied, and applies what
it found pending, each migration in a transaction: three steps or more, between
which other processes do the same. The SQL of an applied migration fails
(`CREATE TABLE`, `ALTER TABLE ... ADD COLUMN`); the process that lost the race
throws and ends. A release knows the migrations up to `Known[p]`. `WriteRow`
stands for every row anybody writes; once it returned, it is `acked`. A backup
checks for its file, copies in one read transaction, and may be cut short at any
point; `due` is what was acknowledged when it began. SQLite is external:
transactions are atomic and one at a time, and `synchronous = FULL` means what
its documentation says. The operator takes backup files away, though never one
that is being written, and edits `.env`. Rows are numbers: what they say is the
business of the other modules.

### Lookup, Fees, Receipt

`Lookup`: a transaction is what the two services can tell of it (transparent
inputs, parts an explorer decodes, an Orchard bundle, coinbase, before
Overwinter). The body of an answer is nothing, its prefix, or all of it.
An answer may also be unreadable, or be another message (`Unread`): JSON in the
shape of another explorer, or a protobuf message without the bytes of a
transaction, both of which the code reads as "no such transaction".
`NoAnswerIsNotAbsence` says what is left: absence is told only on an answer heard
to its end. `Fees`: tokens move between wallets and wallets are bound while balances
are read, and amounts that are no safe integers are left out of a total (`ReadPart`); `--fee-bps`, one constant
rate, is left out; accounts are numbered in the order of their ids, and `unread`
are those whose balance is still to be read. `Receipt`: a hash is the tuple of what was
hashed, so sha256 is injective by construction; the order of account ids is that of
the locale of the host, and a member of `Collations` gives each account its place
in one of those orders. What these three call `Init`, `Next` and `Spec` carries the
module's name, for the proofs extend them beside other modules. `printed` is what `zgrove receipt` last printed
and `memo` what `zgrove anchor` put on the chain. `Edit` is somebody with access
to the database, after the anchor; no command edits an entry. The round is
already sent, which is what both commands check first.

## 3. What is checked

All bounds are constants named `Max...` in the modules. Deadlock is not checked:
in every model commands, connections, pushes or time run out and the system may
stop; the liveness properties say what must happen before it does.

| run | instance | shows |
|---|---|---|
| `dispatch` | 2 rounds (one payable), 2 processes, 2 calls, 2 transactions, 1 memo; operations end paid, built or failed | PaidAtMostOnce, BooksAreTrue, AnchorIsTrue, VerdictIsFinal, KeepsPromise, RecordedIsResolved |
| `proxy` | 1 connection (2 sessions through a chunk of 2), 2 workers, 4 lines (3 once a signal was taken), a retune, a timeout, queue and pending of 2 | EveryShareOnce, CreditIsEarned, InOrder, Paired, QueuedIsRelayed, ExitsWhenEmpty |
| `payouts` | 2 accounts; two consecutive windows, both in one, and one that is not aligned; totals 0 and 4, fees 0 and 50% | RoundConserves, SplitFollowsWork, RoundPaysItsWindow, NobodyIsStranded |
| `control` | 2 accounts, a key, a wallet, 3 challenges, 2 enroll commands, a restart, room for one challenge and two tokens, time for a token to slide and expire | NonceSpentOnce, GrantIsProven, CreditedToOwnRow, TokenLeavesForCause |
| `treasury` | 2 payout commands at once, 2 accounts, 3 rounds over consecutive windows, 2 calls, a minimum that lets balances roll twice; paid early, late, by hand or never | ReceivedIsAccounted |
| `relay` | 2 submits, 3 pushes, 1 job held, 2 connections, 2 losses of power | EverySubmitRecorded, LossSpoilsTwo, JobBesideWhileHeld |
| `agent` | 4 sessions, 3 refusals in a row, ceiling between two doublings, a key there or not, `init` any number of times | KeyIsKept, MinerHasItsRelay, WaitFitsRefusals, MinesAgain, SignalIsHeeded |
| `store` | 2 processes, of releases with 2 and 3 migrations, 1 backup path, 2 rows, 1 kill or power cut | SchemaInOrder, ReadyIsMigrated, AcknowledgedSurvives, BackupIsComplete, ComesUp |
| `lookup` | every kind of transaction and of answer, 2 lookups, 2 heights | NoAnswerIsNotAbsence, FactsAreTrue |
| `fees` | 2 accounts, 2 wallets, 2 tokens, 2 moves, 6 ladders | RateIsVerified |
| `receipt` | trees of 1 to 5 leaves, amounts 0 to 2, one edit | ProofIsOfTheReceipt, OnlyRecordedEntriesVerify, ReceiptMatchesAnchor |

Each module but `Fees` and `Receipt` has a `TypeOK` (`LookupTypeOK` in `Lookup`), which also holds the bounds
of the stores (a queue, a map of pending submits, challenges and tokens at their
limit). It is proved where there are proofs (section 5; for Proxy, its types and
limits) and true of every run; to see it checked, add it to the INVARIANTS of the configuration.

Why these bounds: every race in the lists above is between two actors over one
or two items. Two processes on two rounds contain a claim, a stale read, a
resume, and a second round whose operation could be confused with the first; two
submits contain an overtaking, an expiry and a full map (`MaxPending = 2`); a
store of one challenge is full at once, and three challenges give a third token to
a store of two, in which the first may have been used since the second: the one
evicted must then be the second. Two losses of power cut a file that was already
cut. Three
rounds, two of them over the same work when their windows overlap, let a balance
roll twice. Five leaves give an odd node at the first and at the second level of
a tree. In `proxy` the clock starts with the
first submit, and a connection that has sent three lines sends no more after a
signal (`MaxStopLines`). In `store`
two releases behind one another contain a lost race for one migration and for
the next; one kill is a restart with work half done, and a power cut is one that
takes everybody. The theorems of section 5 remove the bounds for dispatch, the
proxy, payouts and what they pay, the control plane, the relay, the agent and the
database.

Symmetry is used in `treasury` alone, over payout commands and calls: the model
treats them alike, `ReceivedIsAccounted` names none of them, and there is no
liveness property.

### Fairness

* `dispatch`: a running process takes its next step, which may be its death (weak
  fairness), and the operator repeats the resume command that `send` prints until
  the round is out of sending, and is not killed every time (strong fairness of
  loading, asking and acting on the answer, for a payable round). Nothing makes
  the wallet finish, or anybody start a send, a settlement or an anchor.
* `proxy`: the event loop runs (weak fairness of its turns) and a dial ends,
  by connection, error or its connect timeout.
  The process exits when nothing keeps it (weak fairness of `Exit`).
* `store`: a process that is down is started again and goes on through migrate()
  (weak fairness of its next step there): compose.yaml restarts the orchestrator
  unless it was stopped, and an operator repeats a command that failed. It is not
  killed for ever (`MaxKills`). Nothing makes rows or backups happen.
* `agent`: the agent's own steps and a request's timeout are weak-fair, the
  control plane does not refuse for ever (strong fairness of the two answers and
  of a launch), and a miner that was sent SIGTERM exits. `MinesAgain` excludes the
  end of the bounds.

The other six passing runs check safety only and assume no fairness.

## 4. Where the code and its words differ

Each of these properties states one sentence of a doc, comment or test, and TLC
finds a behaviour of the code that contradicts it. The one that matters most, for
it concerns money, is a run of the project; its quote is under `findings`.

| run | property | sentence | what happens |
|---|---|---|---|
| `dispatch_in_flight` | FailedIsNotInFlight | dispatch.ts:105 nothing is in flight | a call that timed out marks its round failed; the wallet then takes it and is executing it |

The others are kept beside them, each with a configuration that TLC finds
violated in seconds: `tlc -config MCRelayIds.cfg MCRelay`, for instance. A
configuration named twice holds several such properties, and `tlc -continue`
goes on from one to the next. They are smaller matters: a limit the comment does
not mention, or a word that says more than the code does.

| configuration | property | sentence | what happens |
|---|---|---|---|
| `MCTreasuryClaims.cfg` | CarriedIsOwed | payouts.ts:70 owed and not yet paid | what a round that failed owed is carried by no later one |
| `MCTreasuryClaims.cfg` | ReceivedAtMostEarned | 004_payouts.sql:27 what rolled in | two commands carry in one balance and both pay it |
| `DispatchClaims.cfg` | AnchorCarriesMemo | 008_anchor.sql:4 written into a Solana memo | a memo that failed is recorded once status() calls it confirmed |
| `MCPayoutsCarry.cfg` | CarriedInIsOwed | 004_payouts.sql:27 what rolled in | two commands carry in one balance |
| `ProxyChunk.cfg` | NothingLeftOpen | index.ts:138 no socket left open | a later line of the chunk opens a new session |
| `MCStoreWriter.cfg` | OneWriter | database.ts:10 one writer only | every command opens it to write |
| `MCStoreEnv.cfg` | EnvIsKept | init.ts:63 never overwritten | two inits look, one copies after the operator edited |
| `DispatchClaims.cfg` | BuiltIsAFailure | dispatch.test.ts:216 unbroadcast is a failure | on resume it stays in sending |
| `ProxyIds.cfg` | CreditIsEarned | ARCHITECTURE.md:66 only upstream acceptance | a late answer is taken for a new submit with the old id |
| `ProxyReported.cfg` | EverySubmitReported | session.ts:60 once per submit | not when the session ends |
| `MCPayoutsOverlap.cfg` | WorkPaidOnce | 004_payouts.sql:1 one window paid once | overlapping windows pay work twice |
| `MCControlWallet.cfg` | WalletNotOverwritten | registry.ts:63 refuses to overwrite | overwrites |
| `MCControlToken.cfg` | OneSessionPerToken | ARCHITECTURE.md:50 bound to another live session | two sessions share a token |
| `MCControlToken.cfg` | MiningKeepsToken | sessions.ts:79 keeps mining, keeps its token | it slides at login only |
| `MCControlDots.cfg` | CreditedToOwnRow | 001_initial.sql:1 one worker, one row | two workers share a cached row |
| `MCRelayClaims.cfg` | OnlyTornLineLost | ledger.ts:79 the rest can be read | the next record is lost with the torn line |
| `MCRelayClaims.cfg` | RestStays | ledger.ts:79 the rest can be read | records before the torn line go too, for nothing is synced |
| `MCRelayClaims.cfg` | JobBeside | worker index.ts:94 the job beside it | the job was dropped before the answer |
| `MCRelayClaims.cfg` | AcceptedIsBooked | relay.test.ts:166 exactly as the books | a late answer differs |
| `MCRelayClaims.cfg` | WeighedAsBooked | ledger.ts:72 the figure a payout weighs | a crossing retune differs |
| `MCRelayIds.cfg` | EverySubmitRecorded | ledger.ts:5 every share | a reused id displaces one |
| `MCLookupClaims.cfg` | FailureIsNotAbsence | chain.ts:14 kept apart from no such transaction | an error in another explorer's shape reads as absence |
| `MCLookupClaims.cfg` | ShieldedMeansComponents | chain.ts:10 has shielded components | transparent inputs to shielded outputs read as not |
| `MCFeesMoment.cfg` | QuotedAtOneMoment | payout.ts:157 one moment | reads are apart |
| `MCReceiptLocales.cfg` | SameEntriesSameRoot | receipt.ts:88 always the same root | another locale, another order |

Not a matter for TLC: the usage text of `zgrove payout` (cli/payout.ts:207-208)
gives 100 bps and 0.001 ZEC as defaults; the code's are the ladder `0:200`
(tiers.ts:58) and `0` (payout.ts:46).

## 5. What is proved

For all values of the constants, with TLAPS.

**`DispatchProofs`**, from `DispatchAssumption` (payable rounds are rounds; `None`
is none of the identifiers): `SpecTypeOK`, `SpecPaidAtMostOnce`,
`SpecBooksAreTrue`, `SpecOnlyOneOwner`, `SpecAnchorIsTrue`,
`SpecVerdictIsFinal`, `SpecKeepsPromise`, each for any number of rounds,
processes, operations, transactions and memos. `OnlyOneOwner` is in no run: it is
proved because the others rest on it.

None of these properties is inductive: whether a stale process can do harm
depends on where it is and what it read. `IInv` (at the end of `Dispatch`) adds

* `RowInv`: what each dispatch state says of the other columns and of the wallet
  (a planned round has asked the wallet for nothing; a recorded operation was
  accepted and is the round's own);
* `OpInv`, `OneOpPerRound`: an operation belongs to one round, and a round to at
  most one operation; this is PaidAtMostOnce in the form that is preserved;
* `CliInv`: what a process may rely on at each point: between claim and answer
  the round is still in sending with no operation; while polling, the row still
  holds the operation polled; what the wallet told it is still so, since an
  operation that ended stays ended; an anchor's round is still sent with the
  transaction the memo names;
* `OneClaimer`: one process between claim and answer for each round. Together
  with the WHERE clause of beginSend it is why two sends cannot both call.

`IInv` was checked with TLC before it was proved. Lemmas `CliStep`, `RowStep`
and `WalletStep` reduce a step to what it touches: a process's own memory, one
row, or the wallet. Each action then has a lemma of its own, and `NextIInv`
collects them. `VerdictIsFinal` and `KeepsPromise` follow from `IInv` in the
state before the step: `NextChanges` lists the ways a row can change, and
`RowPromise` shows that each is a step of `RoundPayment` for that round or none.

**`AgentProofs`**, from `AgentAssumption` (the first wait is positive and not
above the ceiling): `SpecTypeOK`, `SpecKeyIsKept`, `SpecOneMiner`,
`SpecMinerHasItsRelay`, `SpecWaitFitsRefusals`. `KeyInv` adds to KeyIsKept that a
command about to write is alone with an empty file.
`AgentInv` says where miners and relays can exist: only from a launch to the
close of the relay, and only those of `current`. `OneMiner` follows from
`MinerHasItsRelay`, and only the latter is in the run. `BackoffInv` says that
while it attests the agent already holds the wait of a refusal to come. The
closed form of that wait is a power of two, of which the provers know nothing;
`PowersDouble` gets what is needed from the number of subsets of an interval.

**`StoreProofs`**, from `StoreAssumption`: `SpecTypeOK`, `SpecSchemaInOrder`,
`SpecReadyIsMigrated`, `SpecAcknowledgedSurvives`, `SpecBackupIsComplete`, for any
number of processes, releases, backups and crashes. `IInv` has

* `disk = {db}`: under `synchronous = FULL` a power cut can leave one state only;
* `InOrder` of the schema, which is preserved because a process applies its
  pending migrations smallest first and an applied one fails;
* `ProcInv`: what a process has still to apply is an interval ending in its last
  migration and beginning at or below the next one the database lacks, so the
  smallest is either the next or one that fails; a process past migrate() knows
  nothing that is missing;
* `JobInv` and `FileInv`: what a backup is copying was committed, with all its
  `due`, under a schema in order; the path of a copy under way holds a partial
  file, which one backup writes; a finished file is as its job said.

**`ControlProofs`**, from `ControlAssumption` (ttls and limits are positive, names
have at least one part): `SpecTypeOK`, `SpecNonceSpentOnce`, `SpecGrantIsProven`,
`SpecTokenLeavesForCause`, and `SpecCreditedToOwnRow`, which also assumes that no
account id has a dot: `MCControlDots.cfg` shows what happens otherwise. They hold
for any number of accounts, keys, challenges, connections and restarts, any ttls
and limits, and any drift of the workers' clocks. `IInv` has

* `ChallengeInv`: a stored entry is a challenge as it was asked for, in no other
  entry and in no grant; so spending an entry is spending the challenge;
* `GrantInv`: a grant is `Proven` by the challenge it names and, for a rig, by its
  enrolment, which later commands keep because an insert needs a free key;
* `TokenInv`: a token `Stands` for the rig of its grant, expires a ttl after its
  last use, and the store is in the order of expiry. `expire` stops at the first
  live entry and eviction takes the first of all, so without that order either
  would drop the wrong token;
* `ConnInv`: a session that logged in with a token stands for the same rig.

The lemmas on the stores come first (`ExpireDrops`, `EvictDrops`, `IssuedDrops`,
`RemovedAt`): what is dropped is a prefix, and a live entry is dropped only when
the store is full, alone. `TokenLeavesForCause` follows from them and the order.
`CreditedToOwnRow` rests on `OwnRowInv`: with a one-part name a login tells whose
it is, so the row remembered for it is the right one.

**`ProxyProofs`**, from `ProxyAssumption` (limits are naturals, a chunk has a line,
a weight and the timeout are positive, `None` is no connection, worker or
outcome): `SpecTypeInv`, `SpecEveryShareOnce`, `SpecPaired`, `SpecInOrder`, and
`SpecCreditIsEarned`, which also assumes that a miner gives each request an id of
its own (`FreshIds`): `ProxyIds.cfg` shows what happens otherwise. They hold for
any number of connections, sessions, workers, lines, pushes, any queue and pending
limits, chunks and timeout. The invariants they rest on:

* `BookInv`: a session waits for its own open submits only, so that booking a
  share twice, or from another session, cannot happen; with that the counts of
  `BookedOnce` and the weights of `WeighedOnce` are preserved. A booking adds the
  weights of shares that were open, none of which is in the sum yet
  (`SettledWeighed`, by `SumDisjoint`), and nothing rewrites the weight of a share;
* `LinkInv`: what the map of sessions, the sockets and the sessions know of each
  other (`Alive`, `Used`, `Mapped`, `Socked`, `Turned`). A session that is not
  over is the one its connection's entry names, and the entry of a closed
  connection names no first session: this is what makes `Paired` hold while a
  chunk goes on being read after its session ended;
* `OrderInv`: nothing is queued once the dial is up, requests are of lines read
  so far, and a session with an identity has an authorize among them;
* `JudgeInv`: shares carry the ids of their requests (`Keyed`), no request is
  answered twice, a share not answered has no verdict in the books, and each
  answer under way carries the pool's verdict on the share of its request
  (`Judged`). It needs `OrderInv`, for a new id exceeds those in use only because
  lines are handled in order.

Two theorems are of properties no run has. `SpecSharesAreFinal`, an action property:
a share keeps what it was relayed as, its outcome once booked never changes, and no
count or weight falls, which is the ledger every other report relies on. It follows
from `BookInv`: what a session settles was open (`SettledFinal`). `SpecKeepsLimits`:
the queue and the pending submits of every session stay within their limits.

The lemmas on shapes come first: `ForwardShape` and `EndedRec`, then what each
handler does to one session (`MinerStep`, `PoolStep`, `Flush`, `Says`), so that
the proofs of these invariants never open the handlers again.

**`RelayProofs`**, from `RelayAssumption` (what the tap holds is at least one job,
`None` is no verdict and no number): `SpecTypeOK`, `SpecLossSpoilsTwo`,
`SpecJobBesideWhileHeld`, and `SpecEverySubmitRecorded`, which also assumes that a
miner gives each request an id of its own (`FreshIds`): `MCRelayIds.cfg` shows what
happens otherwise. They hold for any limits, and any number of submits, pushes,
connections and losses of power.

`drain` is a fold over the open submits. `DrainLoop` gets the sequence of its
values from the fold's recursive function, which `DrainRecursion` shows to exist;
`SofarOneMore` and `DrainedSofar` carry one statement along it (`Sofar`): the
records made so far are of the submits handled, each once, each with its job
before it or in the file if the tap holds the job, and what the tap calls written
is in the file or among them. An answer is the case of one submit. `Grown` says
what a write does to the file, line by line, `Remains` what a loss of power leaves
of one, and `NextFileStep` that every step leaves it alone, or grows it by records
that are `Kept`, or leaves what remains of such a file. The invariants over these:

* `LossInv`: the lines without a newline (`Cut`) are among the durable ones, and
  there is one at most for each loss of power; a line spoils itself and the next;
* `JobInv`: the tap holds the newest jobs heard of, in their order, and what it
  calls written is in the file. It calls a job written only beside the record it
  writes, which is why forgetting one costs a repetition and never a job;
* `RecordInv`: a submit with a record is `RecordedOnce`, waits no longer and its
  outcome `Fits` the books; without a loss of power `RecordedAll`: what was read
  and no longer waits has a record. `AnswerInv` is what this needs of the proxy:
  a verdict on its way fits the books for the submit whose id it carries, a submit
  on its way is in no book and on its way once (`BooksInv`, `WayInv`,
  `VerdictInv`), and the books change a verdict once at most (`BooksMove`), so what
  fitted goes on to fit. `IdleInv` adds that a closed session holds nothing;
* for `SpecTypeOK`, `PushInv`: pushes arrive in the order of their numbers and
  after every job held, so no job is held twice; `HoldInv`, the two limits; and
  `IdOnce`: a submit displaces the one that waits under its id.

**`SumProofs`**, from nothing: what a sum over a finite set does when an element is
added, removed or changed, when two sets are joined or two functions added, and
how it compares. The library's induction theorems take an operator, which the
installed provers cannot instantiate; `StrongSubsetInduction` and
`NatSetInduction` say the same of a set that holds the elements with the property,
and follow from the well-founded orders on subsets and on naturals. With them
`SumRecursion` shows that the recursive function behind `MapThenSumSet` exists, and
`SumUnique` that it does not depend on the set it is computed over.

**`TreasuryProofs`**, from `PayoutsAssumption` (finitely many accounts, a positive
bucket, a rate of at most 100%, positive weights) and `TreasuryAssumption`:

* `PayoutsTypeCorrect`, `RoundsConserve`, `SplitsFollowWork`, for any number of
  accounts and commands. They rest on `HeldSound`: a round planned or recorded is
  `Sound`, its parts adding up to its total, each within a zatoshi of the exact
  one, and its entries balanced. That the rounded parts add up is the largest
  remainder argument (`plan` rounds down and gives the zatoshi left to the largest
  remainders): the sum of the remainders is a multiple of the whole, and it is the
  number left over;
* `RoundsPayTheirWindow`, which also assumes `Grace >= Late`: operators wait at
  least as long as a verdict may take, which no code enforces. `BucketsAgree` says
  that between two bucket boundaries the buckets hold the work submitted there,
  whenever it was booked; `WindowsInv` that a held round's window is over, so that
  nothing is booked in it any more;
* `NobodyStaysStranded`, which also assumes `OneCommand`, one payout command at a
  time: `MCPayoutsCarry.cfg` shows two of them carry one balance twice. `CarryInv`
  says that what a command planned is still what the books carry when it records;
* `ReceivedStaysAccounted`, of `TreasurySpec`, for any number of commands at once.
  `PaidInv` is what
  `RoundPayment` gives a treasury: one call for a round, or a payment by hand, and
  the wallet pays what was called. `ReceivedInv` writes what arrived as a sum over
  rounds. An account's amounts, over all rounds, are its parts less fees less
  what it still carries (`EarnedIs`: every entry is balanced, and what a round
  carries in and out adds up to the balance), and a round reaches it at most once.

The two hypotheses, `Grace >= Late` and `OneCommand`, are stated in the theorems and not
assumed of the constants: the `payouts` run takes them by its instance
(`Proc = {p1}`, `Grace = Late`), and `treasury` has two commands.

**Lookup** (in `DispatchProofs`), from `LookupAssumption` (a transaction that spends
nothing transparent has a part that shows, and is no coinbase): `SpecNoAnswerIsNotAbsence` and
`SpecFactsAreTrue`, for any transactions, heights and number of lookups.
`LookupInv` adds where the answer came from: what has been heard is of a reply
(`HeardOfReply`), a service that saw the transaction saw it in its block or in none
(`SeenWhereItIs`), nothing is told before it is settled (`ToldOnce`), and absence is told of an answer
that was heard to its end (`AbsenceHeard`).
`ReadAnswerTells` is the reading of a stream that ended, by its status and its body.

**Fees** (in `TreasuryProofs`), from `FeesAssumption` (finitely many accounts,
ladders of pairs of naturals): `SpecRateIsVerified`, for any ladder, wallets and
accounts, while any number of tokens move. The ladder as the code sorts and reads
it finds the rung the property names: `BeforeIsOrder`, `PlaceGrows` and
`PlaceIsTaken` say that counting the tiers before each gives every place to one
tier, which is what sorting means. `FeesInv` adds that what was read of an account
was held at some moment since the command began, or is part of that.

**Receipt** (in `DispatchProofs`), from `ReceiptAssumption` (finitely many accounts,
each with its own place in each order). Three theorems hold whatever the locales of
the hosts: `SpecPrintedProofVerifies`; `SpecOnlyRecordedEntriesVerify`, which
`SpecNothingElseVerifies` says of all pairs and paths, of any length; and
`SpecAgreementIsSameEntries`, that a receipt with the root in the memo is of the
entries that were anchored. Two take the hypothesis that all hosts sort ids alike,
as the run does: `SpecProofIsOfTheReceipt` and `SpecReceiptMatchesAnchor`;
`MCReceiptLocales.cfg` shows what happens otherwise. The state adds little here:
`ReceiptInv` says that what was committed to or printed was made, in the order of
some host, from the entries kept beside it. The work is in the tree, for any number
of entries:

* `LevelRecursion`, `AboveRecursion` and `ClimbRecursion` show that the recursive
  functions exist; `LevelsShrink` and
  `TopIsAlone` that halving ends in one hash;
* a made proof verifies (`MadeProofVerifies`): at each level the climb is at the
  hash above the leaf;
* nothing else does: the hashes of a tree are closed below (`ClosedBelow`, by the
  tags of leaves and nodes), so a climb that ends in the tree was in it from its
  first hash (`ClimbInside`);
* one root, one set of entries (`RootTellsEntries`): trees of different heights have
  different roots (`HeightsApart`), for a leaf is no node, and trees of one height
  are the same level by level (`SameBelow`, `RootsApart`).

That sha256 has no collisions is in the model and not proved.

**Only model-checked:** liveness (RecordedIsResolved, QueuedIsRelayed,
ExitsWhenEmpty, MinesAgain, SignalIsHeeded, ComesUp), for TLAPS does not reach
fairness and ENABLED here; and the bounds in Proxy's `TypeOK` that are those of the
run and not of the code.

## 6. Plan

Done, in this order: Dispatch with its abstraction and proofs, Proxy with proofs,
Payouts, Control with proofs, Relay, Agent with proofs, Lookup, Fees, Receipt; then
Store with proofs, the key file, shutdown, and Treasury, which composes Payouts and
Dispatch's promise; then proofs for sums, Payouts, Treasury, Relay, Lookup, Fees and
Receipt, and of Proxy's limits and the finality of its books.

Next, most important first:

1. An abstract ledger of shares (a submit is booked once, with its verdict or as
   unresolved) that Proxy implements, and that Relay's view can be stated over.
   `SharesAreFinal` in `ProxyProofs` is the step it would allow.
2. Composition of Proxy and Relay over one connection, in place of Relay's own
   small proxy; of Agent and Control through the life of a token.

## 7. Not modelled

Byte formats (JSON, protobuf, base58, signatures, text of amounts), TLS and
HTTP framing, log lines, `stats`, `probe`, configuration, the web site and
deployment: they parse once, or read and print. SQLite is taken as serialising
statements and transactions, with no failing disk on the orchestrator's side; in
modules other than Store its schema is up to date. The clock does not step back.
The chain does not reorganise. The hazards these leave open are listed in
`PROJECT.json` with the reason.
