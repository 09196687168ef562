---------------------------- MODULE RoundPayment ----------------------------
(***************************************************************************)
(* What the payout books promise about one recorded round, whoever runs    *)
(* which command when: the round is committed to one way of paying it, the *)
(* wallet is asked at most once, and a verdict, the transaction it rests   *)
(* on and the anchor are each written once and never rewritten.            *)
(* Dispatch implements this specification.                                 *)
(***************************************************************************)
CONSTANTS Round,   \* recorded payout rounds
          Op,      \* z_sendmany calls
          Tx,      \* Zcash transactions
          Sig,     \* Solana transactions
          None

VARIABLES
  way,       \* way[r]: how the round is paid: open, wallet or external
  calls,     \* calls[r]: the z_sendmany calls ever made for the round
  verdict,   \* verdict[r]: none, sent or failed
  txid,      \* txid[r]: the transaction the verdict "sent" rests on
  anchor     \* anchor[r]: the Solana transaction that commits to the round

vars == <<way, calls, verdict, txid, anchor>>

Init == /\ way = [r \in Round |-> "open"]
        /\ calls = [r \in Round |-> {}]
        /\ verdict = [r \in Round |-> "none"]
        /\ txid = [r \in Round |-> None]
        /\ anchor = [r \in Round |-> None]

\* The round is committed to the wallet; nothing has been asked of it yet.
Claim(r) == /\ way[r] = "open"
            /\ way' = [way EXCEPT ![r] = "wallet"]
            /\ UNCHANGED <<calls, verdict, txid, anchor>>

\* The one request to the wallet, never shared with another round.
Call(r, o) == /\ way[r] = "wallet"
              /\ verdict[r] = "none"
              /\ calls[r] = {}
              /\ \A q \in Round : o \notin calls[q]
              /\ calls' = [calls EXCEPT ![r] = {o}]
              /\ UNCHANGED <<way, verdict, txid, anchor>>

\* The wallet paid: the verdict and its transaction are written together.
Complete(r, t) == /\ calls[r] # {}
                  /\ verdict[r] = "none"
                  /\ verdict' = [verdict EXCEPT ![r] = "sent"]
                  /\ txid' = [txid EXCEPT ![r] = t]
                  /\ UNCHANGED <<way, calls, anchor>>

Fail(r) == /\ calls[r] # {}
           /\ verdict[r] = "none"
           /\ verdict' = [verdict EXCEPT ![r] = "failed"]
           /\ UNCHANGED <<way, calls, txid, anchor>>

\* Paid by hand: commitment, verdict and transaction in one step.
Settle(r, t) == /\ way[r] = "open"
                /\ way' = [way EXCEPT ![r] = "external"]
                /\ verdict' = [verdict EXCEPT ![r] = "sent"]
                /\ txid' = [txid EXCEPT ![r] = t]
                /\ UNCHANGED <<calls, anchor>>

Anchor(r, s) == /\ verdict[r] = "sent"
                /\ anchor[r] = None
                /\ anchor' = [anchor EXCEPT ![r] = s]
                /\ UNCHANGED <<way, calls, verdict, txid>>

Next == \E r \in Round :
          \/ Claim(r)
          \/ Fail(r)
          \/ \E o \in Op : Call(r, o)
          \/ \E t \in Tx : Complete(r, t) \/ Settle(r, t)
          \/ \E s \in Sig : Anchor(r, s)

Spec == Init /\ [][Next]_vars
=============================================================================
