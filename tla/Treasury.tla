------------------------------ MODULE Treasury ------------------------------
(***************************************************************************)
(* The money itself: rounds planned and recorded as in Payouts, each paid  *)
(* as RoundPayment promises (Dispatch is shown to keep that promise), and  *)
(* what reaches the contributors.  Round i is the i-th recorded.  The      *)
(* wallet and the operator's hands are external; anchors move no money and *)
(* are left to Dispatch.                                                   *)
(***************************************************************************)
EXTENDS Payouts

CONSTANTS
  MaxRounds,  \* bound: rounds recorded
  Op,         \* z_sendmany calls
  None

ASSUME TreasuryAssumption == MaxRounds \in Nat /\ "hand" \notin Op

VARIABLES
  way, calls, verdict, txid, anchor,  \* as RoundPayment has them
  paid,      \* the payments that truly left, as <<round, call or "hand">>
  received   \* received[a]: zatoshi that reached account a

books == <<way, calls, verdict, txid, anchor>>
money == <<paid, received>>
treasuryVars == <<vars, books, money>>

Hand == "hand"

\* One transaction for every payment there can be.
Payment == (1..MaxRounds) \X (Op \cup {Hand})

R == INSTANCE RoundPayment WITH Round <- 1..MaxRounds, Tx <- Payment, Sig <- {}

TreasuryTypeOK ==
  /\ TypeOK
  /\ paid \subseteq Payment
  /\ received \in [Account -> Int]

TreasuryInit ==
  /\ Init /\ R!Init
  /\ paid = {} /\ received = [a \in Account |-> 0]

-----------------------------------------------------------------------------
(* planSend(), on what load() returns.                                     *)

In(r, a, field) == IF a \in DOMAIN r.entries THEN r.entries[a][field] ELSE 0

\* What a round pays an account is what was recorded.  Mutant: the amount is
\* worked out again when the money is sent.
Recomputed(i, a) == In(rounds[i], a, "gross") - In(rounds[i], a, "fee") + Carried(a)
AmountOf(i, a) == In(rounds[i], a, "amount")

\* Who is under the minimum is left out; a round that pays nobody is refused.
PaysSomebody(i) == \E a \in Account : AmountOf(i, a) > 0

\* The operator pays a round by hand or has it sent, never both: the one thing
\* the code cannot see.
ByHand(i) == <<i, Hand>> \in paid

ClaimRound(i) == /\ PaysSomebody(i) /\ ~ByHand(i)
                 /\ R!Claim(i)

-----------------------------------------------------------------------------
(* External: the wallet pays a call once, early, late, or never, whatever  *)
(* the books say by then; the operator pays what the plan printed.         *)

Pay(i, how) ==
  /\ <<i, how>> \notin paid /\ paid' = paid \cup {<<i, how>>}
  /\ received' = [a \in Account |-> received[a] + AmountOf(i, a)]
  /\ UNCHANGED <<vars, books>>

WalletPays(i, o) == o \in calls[i] /\ Pay(i, o)

HandPays(i) == way[i] = "open" /\ PaysSomebody(i) /\ Pay(i, Hand)

-----------------------------------------------------------------------------
\* A round is sent when its payment is known to have left; it fails when its
\* call did, or when nobody knows.
Books(i) ==
  /\ \/ ClaimRound(i)
     \/ \E o \in Op : R!Call(i, o)
     \/ \E o \in calls[i] : <<i, o>> \in paid /\ R!Complete(i, <<i, o>>)
     \/ R!Fail(i)
     \/ ByHand(i) /\ R!Settle(i, <<i, Hand>>)
  /\ UNCHANGED <<vars, money>>

Planning == Next /\ Len(rounds') <= MaxRounds /\ UNCHANGED <<books, money>>

TreasuryNext ==
  \/ Planning
  \/ \E i \in DOMAIN rounds :
       \/ Books(i)
       \/ \E o \in Op : WalletPays(i, o)
       \/ HandPays(i)

TreasurySpec == TreasuryInit /\ [][TreasuryNext]_treasuryVars

-----------------------------------------------------------------------------
(* What must hold.                                                         *)

\* An account's part of every round less its fees.
Earned(a) == Sum([i \in DOMAIN rounds |-> In(rounds[i], a, "gross") - In(rounds[i], a, "fee")],
                 DOMAIN rounds)

\* What reached an account and what the books still carry for it are together
\* never more than it earned over all rounds, though calls time out and pay late,
\* rounds fail or are paid by hand, and other commands plan and record meanwhile.
\* Two commands may plan one balance into two rounds (payouts.ts:82-86, 205-237):
\* the account is then paid more than it earned, and what is over stands against
\* it as a balance below zero, which its next parts work off (payouts.ts:177-186).
ReceivedIsAccounted == \A a \in Account : received[a] + Carried(a) <= Earned(a)

\* Nobody receives more than they earned.  It rests on something no code checks,
\* that payout commands do not overlap: two of them carry in one balance twice,
\* which 004_payouts.sql:27 does not foresee.
ReceivedAtMostEarned == \A a \in Account : received[a] <= Earned(a)

\* Claimed at payouts.ts:70: what is carried is what is owed from earlier rounds
\* and not yet paid.  Once every round that pays anybody has its verdict, that
\* is what was earned and not received.
CarriedIsOwed ==
  (\A i \in DOMAIN rounds : PaysSomebody(i) => verdict[i] # "none") =>
    \A a \in Account : Carried(a) = Earned(a) - received[a]
=============================================================================
