------------------------------ MODULE Payouts -------------------------------
(***************************************************************************)
(* Planning and recording payout rounds (packages/db/src/payouts.ts,       *)
(* cli/payout.ts) over the share buckets the proxy writes                  *)
(* (accounting.ts, buckets.ts).  A payout command plans from one SELECT    *)
(* and records in one transaction; between the two, and while a command    *)
(* runs, the proxy books shares and other commands plan and record.        *)
(* Weights are naturals and the split is exact: the code computes it in    *)
(* doubles.                                                                *)
(***************************************************************************)
EXTENDS Integers, Sequences, FiniteSetsExt, Sums

CONSTANTS
  Account,    \* accounts, numbered in the order of their ids
  Proc,       \* payout commands that may run at the same time
  Bucket,     \* BUCKET_SECONDS
  Window,     \* the <<periodStart, periodEnd>> operators ask for
  Total,      \* treasury totals, in zatoshi
  Bps,        \* fee rates, in basis points
  MinPayout,  \* minPayoutZat
  Weight,     \* difficulties of accepted shares
  Late,       \* how long after a submit its verdict is booked, at most
  Grace,      \* how long operators wait after periodEnd; nothing enforces it
  MaxShares,  \* bound: accepted shares
  MaxTime     \* bound: the clock

\* A whole, in the unit of fees.
BasisPoints == 10000

ASSUME PayoutsAssumption ==
  /\ Account \subseteq Nat /\ IsFiniteSet(Account)
  /\ Bucket \in Nat \ {0}
  /\ Window \subseteq Nat \X Nat
  /\ Total \subseteq Nat /\ Bps \subseteq 0..BasisPoints /\ MinPayout \in Nat
  /\ Weight \subseteq Nat \ {0}
  /\ {Late, Grace, MaxShares, MaxTime} \subseteq Nat

VARIABLES
  earned,   \* earned[a][t]: difficulty of a's accepted shares submitted at t
  buckets,  \* buckets[a][b]: accepted_difficulty of the buckets starting at b
  rounds,   \* payout_rounds with their payout_entries, in the order recorded
  planned,  \* planned[p]: the round command p has computed, or <<>>
  count, now

vars == <<earned, buckets, rounds, planned, count, now>>

Time == 0..MaxTime

RoundOK(r) ==
  /\ <<r.start, r.end>> \in Window /\ r.total \in Total
  /\ DOMAIN r.entries \subseteq Account
  /\ \A a \in DOMAIN r.entries :
       LET e == r.entries[a] IN
       /\ {e.weight, e.gross, e.amount} \subseteq Nat
       /\ e.fee \in 0..e.gross
       /\ {e.carriedIn, e.carriedOut} \subseteq Int
       /\ e.amount = 0 \/ e.carriedOut = 0

TypeOK ==
  /\ earned \in [Account -> [Time -> Nat]]
  /\ buckets \in [Account -> [Time -> Nat]]
  /\ \A i \in DOMAIN rounds : RoundOK(rounds[i])
  /\ \A p \in Proc : planned[p] # <<>> => Len(planned[p]) = 1 /\ RoundOK(planned[p][1])

Init ==
  /\ earned = [a \in Account |-> [t \in Time |-> 0]]
  /\ buckets = [a \in Account |-> [t \in Time |-> 0]]
  /\ rounds = <<>>
  /\ planned = [p \in Proc |-> <<>>]
  /\ count = 0 /\ now = 0

-----------------------------------------------------------------------------
(* accounting.ts                                                           *)

\* The bucket of a submit.  Mutant: the bucket of the moment it is booked.
BucketOfNow(t) == (now \div Bucket) * Bucket
BucketStartFor(t) == (t \div Bucket) * Bucket

\* recordShare() of an accepted share, submitted at t and answered by now.
RecordShare(a, t, w) ==
  /\ count < MaxShares
  /\ t <= now /\ now - t <= Late
  /\ count' = count + 1
  /\ earned' = [earned EXCEPT ![a][t] = @ + w]
  /\ buckets' = [buckets EXCEPT ![a][BucketStartFor(t)] = @ + w]
  /\ UNCHANGED <<rounds, planned, now>>

-----------------------------------------------------------------------------
(* plan()                                                                  *)

\* carried_out - carried_in over all entries of the account, whatever became
\* of their rounds.
Carried(a) ==
  Sum([i \in DOMAIN rounds |->
         IF a \in DOMAIN rounds[i].entries
         THEN rounds[i].entries[a].carriedOut - rounds[i].entries[a].carriedIn ELSE 0],
      DOMAIN rounds)

WeightIn(a, s, e) == Sum(buckets[a], s..(e - 1))

\* Mutant: only accounts that worked in the window.
Workers(s, e) == {a \in Account : WeightIn(a, s, e) > 0}
Subjects(s, e) == {a \in Account : WeightIn(a, s, e) > 0 \/ Carried(a) # 0}

\* Mutants: floors alone; or all that floors leave to the first account.
SplitFloors(total, w) ==
  LET all == Sum(w, DOMAIN w) IN
  [a \in DOMAIN w |-> IF all = 0 THEN 0 ELSE (total * w[a]) \div all]

SplitRestToFirst(total, w) ==
  LET all == Sum(w, DOMAIN w)
      floor == [a \in DOMAIN w |-> IF all = 0 THEN 0 ELSE (total * w[a]) \div all]
  IN [a \in DOMAIN w |-> floor[a] + IF all > 0 /\ a = Min(DOMAIN w)
                                    THEN total - Sum(floor, DOMAIN w) ELSE 0]

\* splitByWeight(): floors, then one more zatoshi each for the largest
\* remainders, the lower index first, until the total is used up.
SplitByWeight(total, w) ==
  LET all == Sum(w, DOMAIN w)
      floor == [a \in DOMAIN w |-> (total * w[a]) \div all]
      rest == [a \in DOMAIN w |-> (total * w[a]) % all]
      leftover == total - Sum(floor, DOMAIN w)
      Before(a, b) == rest[a] > rest[b] \/ (rest[a] = rest[b] /\ a < b)
  IN IF all = 0 \/ total = 0 THEN [a \in DOMAIN w |-> 0]
     ELSE [a \in DOMAIN w |->
             floor[a] + IF Cardinality({b \in DOMAIN w : Before(b, a)}) < leftover
                        THEN 1 ELSE 0]

Pays(owed) == owed >= MinPayout /\ owed > 0

\* One account of plan(): its own fee off its own part, floored.
Entry(weight, gross, bps, carried) ==
  LET fee == (gross * bps) \div BasisPoints
      owed == gross - fee + carried
  IN [weight |-> weight, gross |-> gross, fee |-> fee, carriedIn |-> carried,
      amount |-> IF Pays(owed) THEN owed ELSE 0,
      carriedOut |-> IF Pays(owed) THEN 0 ELSE owed]

\* Windows start and end where buckets do.
Aligned(t) == t % Bucket = 0

\* resolveFees(): a rate for every account, from balances read beforehand.
Rates == [Account -> Bps]

\* A command resolves the fees and plans; a refused window ends it at once.
Plan(p, s, e, total, bps) ==
  LET who == Subjects(s, e)
      w == [a \in who |-> WeightIn(a, s, e)]
      gross == SplitByWeight(total, w)
  IN
  /\ planned[p] = <<>>
  /\ now >= e + Grace
  /\ s < e /\ Aligned(s) /\ Aligned(e)
  /\ total = 0 \/ Sum(w, who) > 0
  /\ planned' = [planned EXCEPT ![p] =
       <<[start |-> s, end |-> e, total |-> total,
          entries |-> [a \in who |-> Entry(w[a], gross[a], bps[a], Carried(a))]]>>]
  /\ UNCHANGED <<earned, buckets, rounds, count, now>>

-----------------------------------------------------------------------------
(* record()                                                                *)

\* UNIQUE (period_start, period_end).
NewWindow(r) == \A i \in DOMAIN rounds :
                  <<rounds[i].start, rounds[i].end>> # <<r.start, r.end>>

\* The round and its entries, in one transaction, or nothing.
Record(p) ==
  /\ planned[p] # <<>>
  /\ rounds' = IF NewWindow(planned[p][1]) THEN rounds \o planned[p] ELSE rounds
  /\ planned' = [planned EXCEPT ![p] = <<>>]
  /\ UNCHANGED <<earned, buckets, count, now>>

\* A dry run, or the process is killed.
Quit(p) == /\ planned[p] # <<>>
           /\ planned' = [planned EXCEPT ![p] = <<>>]
           /\ UNCHANGED <<earned, buckets, rounds, count, now>>

Tick == /\ now < MaxTime
        /\ now' = now + 1
        /\ UNCHANGED <<earned, buckets, rounds, planned, count>>

Next ==
  \/ \E a \in Account, t \in Time, w \in Weight : RecordShare(a, t, w)
  \/ \E p \in Proc :
       \/ \E win \in Window, total \in Total, bps \in Rates :
            Plan(p, win[1], win[2], total, bps)
       \/ Record(p) \/ Quit(p)
  \/ Tick

Spec == Init /\ [][Next]_vars

-----------------------------------------------------------------------------
(* What must hold.                                                         *)

Recorded == {rounds[i] : i \in DOMAIN rounds}
Of(r, field) == Sum([a \in DOMAIN r.entries |-> r.entries[a][field]], DOMAIN r.entries)

\* Nothing is created and nothing is lost in a round: what it pays and carries
\* out is the total less the fees, plus what it carried in, down to the last
\* zatoshi of rounding (migration 004_payouts.sql:29-31, payouts.ts:245-277).
RoundConserves ==
  \A r \in Recorded :
    /\ r.total = Of(r, "gross")
    /\ Of(r, "amount") + Of(r, "carriedOut") = r.total - Of(r, "fee") + Of(r, "carriedIn")

\* The split follows the work: nobody is off their exact part by a zatoshi, no
\* account gets less than another that did less, and where one is rounded up
\* and another down, the first was nearer to it (payouts.ts:245-277).
SplitFollowsWork ==
  \A r \in Recorded : \A a, b \in DOMAIN r.entries :
    LET all == Of(r, "weight")  x == r.entries[a]  y == r.entries[b]
        Over(e) == e.gross * all - r.total * e.weight
    IN r.total > 0 =>
         /\ Over(x) \in (1 - all)..(all - 1)
         /\ x.weight > y.weight => x.gross >= y.gross
         /\ Over(x) > 0 /\ Over(y) < 0 => Over(x) - Over(y) <= all

\* A balance is below the minimum after every round the account is in, and an
\* account that is owed is in every round (payouts.ts:74-77, 177-190).
NobodyIsStranded ==
  [][\A a \in Account :
       Len(rounds') > Len(rounds) =>
         LET r == rounds'[Len(rounds')] IN
         /\ Carried(a) > 0 => a \in DOMAIN r.entries
         /\ a \in DOMAIN r.entries => Carried(a)' < MinPayout \/ Carried(a)' = 0]_vars

\* The weight a round pays by is the work submitted inside its window, every
\* share of it, at the second it was submitted (payouts.ts:14, 129-142).
RoundPaysItsWindow ==
  \A r \in Recorded : \A a \in Account :
    LET work == Sum(earned[a], r.start..(r.end - 1)) IN
    IF a \in DOMAIN r.entries THEN r.entries[a].weight = work ELSE work = 0

\* Claimed at migration 004_payouts.sql:1: one window of work, priced once,
\* paid once.  No share counts towards two rounds.
WorkPaidOnce ==
  \A i, j \in DOMAIN rounds : \A a \in Account, t \in Time :
    /\ i # j /\ earned[a][t] > 0
    /\ t \in rounds[i].start..(rounds[i].end - 1)
    => t \notin rounds[j].start..(rounds[j].end - 1)

\* Claimed at migration 004_payouts.sql:27: carried_in_zat is what rolled in
\* from before.  A round is recorded with what is owed when it is recorded.
CarriedInIsOwed ==
  [][\A a \in Account :
       Len(rounds') > Len(rounds) =>
         LET e == rounds'[Len(rounds')].entries IN
         a \in DOMAIN e => e[a].carriedIn = Carried(a)]_vars
=============================================================================
