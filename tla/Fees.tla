-------------------------------- MODULE Fees --------------------------------
(***************************************************************************)
(* What a payout command charges each account (resolveFees() of            *)
(* cli/payout.ts, tiers.ts, wallet/solana.ts): the ladder of fee tiers is  *)
(* parsed, the accounts with a wallet are listed once, their balances are  *)
(* read one after the other over RPC, and each account is on the rung its  *)
(* balance reaches.  While the command reads, tokens move between wallets  *)
(* and holders bind other wallets.                                         *)
(***************************************************************************)
EXTENDS Naturals, Sequences, FiniteSetsExt

CONSTANTS
  Payee,     \* accounts, numbered in the order of their ids
  Wallet,    \* Solana wallets
  Supply,    \* base units of the token, all in these wallets
  Text,      \* ladders operators write: sequences of <<atLeast, feeBps>>
  MaxBps,    \* 10000 basis points
  MaxMoves,  \* bound: transfers and bindings while a command runs
  Refused,   \* the command threw on the ladder
  Null

ASSUME FeesAssumption ==
  /\ Payee \subseteq Nat /\ IsFiniteSet(Payee)
  /\ Supply \in Nat /\ MaxBps \in Nat /\ MaxMoves \in Nat
  /\ Null \notin Wallet \cup [Payee -> Wallet \cup {Null}]
  /\ Text \subseteq Seq(Nat \X Nat)

VARIABLES
  text,     \* ZGROVE_FEE_TIERS
  held,     \* held[w]: what wallet w holds now
  bound,    \* bound[a]: the wallet the registry has for account a, or Null
  listed,   \* the wallets the command listed, or Null before that
  unread,   \* the accounts whose balance is still to be read
  balance,  \* balance[a] for the accounts read
  failed,   \* the accounts whose wallet could not be read
  skipped,  \* those of which an amount could not be read, and was not counted
  fee,      \* fee[a] in basis points; Null before the command has them
  moments,  \* the holdings there have been since the command began
  moves

feesVars == <<text, held, bound, listed, unread, balance, failed, skipped, fee, moments,
              moves>>

FeesInit ==
  /\ text \in Text
  /\ held \in {h \in [Wallet -> 0..Supply] : MapThenSumSet(LAMBDA w : h[w], Wallet) = Supply}
  /\ bound \in [Payee -> Wallet \cup {Null}]
  /\ listed = Null /\ unread = {} /\ balance = <<>> /\ failed = {}
  /\ skipped = {} /\ fee = Null
  /\ moments = {} /\ moves = 0

-----------------------------------------------------------------------------
(* tiers.ts                                                                *)

\* Highest threshold first; the order of writing decides between equals.
\* Mutant: lowest threshold first.
LowestFirst(t, i, j) == t[i][1] < t[j][1] \/ (t[i][1] = t[j][1] /\ i < j)
Before(t, i, j) == t[i][1] > t[j][1] \/ (t[i][1] = t[j][1] /\ i < j)

\* The place of the i-th tier once they are sorted: one after all before it.
Place(t, i) == Cardinality({j \in DOMAIN t : Before(t, j, i)}) + 1

Sorted(t) == [k \in DOMAIN t |-> t[CHOOSE i \in DOMAIN t : Place(t, i) = k]]

InRange(t) == \A i \in DOMAIN t : t[i][2] <= MaxBps

Parses(t) == t # <<>> /\ InRange(t) /\ \E i \in DOMAIN t : t[i][1] = 0

\* The first rung, from the top, that the balance reaches.
FeeBpsForBalance(b) ==
  LET tiers == Sorted(text)
      reached == {k \in DOMAIN tiers : b >= tiers[k][1]}
  IN IF reached = {} THEN tiers[Len(tiers)][2] ELSE tiers[Min(reached)][2]

-----------------------------------------------------------------------------
(* resolveFees()                                                           *)

\* parseFeeTiers() throws, or accountsWithWallets() lists once whom to read.
Begin ==
  /\ listed = Null /\ fee = Null
  /\ IF Parses(text)
     THEN /\ listed' = bound /\ fee' = fee
          /\ unread' = {a \in Payee : bound[a] # Null}
     ELSE /\ fee' = Refused /\ UNCHANGED <<listed, unread>>
  /\ moments' = {held}
  /\ UNCHANGED <<text, held, bound, balance, failed, skipped, moves>>

\* No stake token yet: nothing is read, everybody is on the bottom rung.
Flat ==
  /\ listed = Null /\ fee = Null /\ Parses(text)
  /\ fee' = [a \in Payee |-> FeeBpsForBalance(0)]
  /\ UNCHANGED <<text, held, bound, listed, unread, balance, failed, skipped, moments, moves>>

\* The loop over the accounts: the first one that is left gets its balance.
Read(b) ==
  LET a == Min(unread) IN
  /\ balance' = [c \in DOMAIN balance \cup {a} |-> IF c = a THEN b ELSE balance[c]]
  /\ unread' = unread \ {a}

\* One tokenBalance(), answered with what the wallet holds at that moment.
ReadBalance ==
  /\ unread # {}
  /\ Read(held[listed[Min(unread)]])
  /\ UNCHANGED <<text, held, bound, listed, failed, skipped, fee, moments, moves>>

\* readAmount() finds no safe integer in some of the wallet's token accounts:
\* their amounts are left out of the total.
ReadPart ==
  /\ unread # {}
  /\ \E b \in 0..held[listed[Min(unread)]] : Read(b)
  /\ skipped' = skipped \cup {Min(unread)}
  /\ UNCHANGED <<text, held, bound, listed, failed, fee, moments, moves>>

\* It times out, the node refuses, or its answer is not JSON.
ReadFails ==
  /\ unread # {}
  /\ Read(0)
  /\ failed' = failed \cup {Min(unread)}
  /\ UNCHANGED <<text, held, bound, listed, skipped, fee, moments, moves>>

Quote ==
  /\ listed # Null /\ unread = {} /\ fee = Null
  /\ fee' = [a \in Payee |->
               FeeBpsForBalance(IF a \in DOMAIN balance THEN balance[a] ELSE 0)]
  /\ UNCHANGED <<text, held, bound, listed, unread, balance, failed, skipped, moments, moves>>

-----------------------------------------------------------------------------
(* Meanwhile.                                                              *)

Transfer ==
  /\ fee = Null /\ moves < MaxMoves /\ moves' = moves + 1
  /\ \E v, w \in Wallet : \E n \in 1..held[v] :
       /\ v # w
       /\ held' = [held EXCEPT ![v] = @ - n, ![w] = @ + n]
  /\ moments' = moments \cup {held'}
  /\ UNCHANGED <<text, bound, listed, unread, balance, failed, skipped, fee>>

\* bindSolanaAddress(), from the control plane.
BindSolanaAddress ==
  /\ fee = Null /\ moves < MaxMoves /\ moves' = moves + 1
  /\ \E a \in Payee, w \in Wallet : bound' = [bound EXCEPT ![a] = w]
  /\ UNCHANGED <<text, held, listed, unread, balance, failed, skipped, fee, moments>>

FeesNext ==
  \/ Begin \/ Flat \/ ReadBalance \/ ReadPart \/ ReadFails \/ Quote
  \/ Transfer \/ BindSolanaAddress

FeesSpec == FeesInit /\ [][FeesNext]_feesVars

-----------------------------------------------------------------------------
(* What must hold.                                                         *)

Quoted == fee \notin {Null, Refused}

\* The rate a balance should get on a ladder, said without sorting: that of a
\* highest threshold it reaches, the first such written.
Rung(t, b) ==
  LET best(i) == /\ t[i][1] <= b
                 /\ \A j \in DOMAIN t : t[j][1] <= b =>
                      t[j][1] < t[i][1] \/ (t[j][1] = t[i][1] /\ i <= j)
  IN t[CHOOSE i \in DOMAIN t : best(i)][2]

\* Every account is charged a rate in range: the rung of something its wallet
\* held while the command ran, of no more than that where amounts could not be
\* read, or the bottom one if the wallet could not be read or there was none.  No
\* discount that nobody verified (payout.ts:157-160, 173-192, solana.ts:49-58,
\* 80-81), whatever the order in which the rungs were written (tiers.ts).
RateIsVerified ==
  Quoted => \A a \in Payee :
    /\ fee[a] \in 0..MaxBps
    /\ IF a \in DOMAIN balance \ failed
       THEN \E m \in moments :
              \E b \in IF a \in skipped THEN 0..m[listed[a]] ELSE {m[listed[a]]} :
                fee[a] = Rung(text, b)
       ELSE fee[a] = Rung(text, 0)

\* Claimed at payout.ts:157-159: two accounts in the same round are never
\* quoted against different moments.
QuotedAtOneMoment ==
  Quoted => \E m \in moments \cup {held} :
    \A a \in DOMAIN balance \ (failed \cup skipped) : balance[a] = m[listed[a]]
=============================================================================
