------------------------------- MODULE Receipt -------------------------------
(***************************************************************************)
(* What a paid round publishes about itself: a merkle root over the        *)
(* amounts it paid, written into a memo by `zgrove anchor` and printed by  *)
(* `zgrove receipt`, and the proof of one entry that                       *)
(* `zgrove receipt --proof` hands to its contributor.                      *)
(*                                                                         *)
(* A hash is the tuple of what was hashed: sha256 is taken as injective.   *)
(* Bytes under a hash keep their two parts, so that the content of a leaf  *)
(* may be an account and an amount or any two hashes side by side.         *)
(*                                                                         *)
(* Every command runs on some host.  The order of account ids is that of   *)
(* localeCompare, which belongs to the host's locale and not to the ids:   *)
(* Collations are the orders that the hosts in use give.                   *)
(***************************************************************************)
EXTENDS Integers, FiniteSets, SequencesExt

CONSTANTS Accounts,     \* account ids
          MaxZat,       \* bound: no entry is paid more than this
          Collations,   \* for each locale in use, the place of every account in its order
          Nothing

ASSUME ReceiptAssumption ==
  /\ MaxZat \in Nat /\ IsFiniteSet(Accounts)
  /\ \A order \in Collations :
       /\ order \in [Accounts -> Nat]
       /\ \A a, b \in Accounts : order[a] = order[b] => a = b

VARIABLES entries,    \* payout_entries of the round: account -> amount
          memo,       \* Nothing, or what the memo on Solana committed to
          printed,    \* Nothing, or the receipt or proof last printed
          edited      \* whether an entry was changed after the payment

receiptVars == <<entries, memo, printed, edited>>

Amounts == 0..MaxZat

-----------------------------------------------------------------------------
(* The tree. *)

NodeTag == 1
OneTag == NodeTag   \* Mutant: leaves tagged as nodes are
LeafTag == 0

HashLeafContent(content) == <<LeafTag, content[1], content[2]>>
HashNode(left, right) == <<NodeTag, left, right>>

\* Entries that pay nothing are left out of what is committed to.
Paid(es) == {a \in Accounts : es[a] > 0}

AccountOnly(es, a) == <<a, 1>>   \* Mutant: the amount is not committed to
Content(es, a) == <<a, es[a]>>

\* Each paid account is at the place that counts the paid ones up to it.
Sorted(es, order) ==
  LET place(a) == Cardinality({b \in Paid(es) : order[b] <= order[a]})
  IN [i \in 1..Cardinality(Paid(es)) |-> CHOOSE a \in Paid(es) : place(a) = i]

Leaves(es, order) ==
  [i \in 1..Cardinality(Paid(es)) |->
     HashLeafContent(Content(es, Sorted(es, order)[i]))]

\* Nodes are hashed in pairs, an odd one with itself.
Sibling(level, i) ==
  LET j == IF i % 2 = 0 THEN i - 1 ELSE i + 1
  IN IF j \in DOMAIN level THEN level[j] ELSE level[i]

Up(level) ==
  [i \in 1..((Len(level) + 1) \div 2) |->
     HashNode(level[2 * i - 1], Sibling(level, 2 * i - 1))]

\* The level k steps above the leaves; the root is the first that is alone.
Level(leaves) ==
  LET level[k \in Nat] == IF k = 0 THEN leaves ELSE Up(level[k - 1]) IN level

Top(leaves) ==
  LET level == Level(leaves)
  IN CHOOSE k \in 0..Len(leaves) :
       Len(level[k]) = 1 /\ \A j \in 0..(k - 1) : Len(level[j]) # 1

\* Every level of the tree, the leaves first and the root last.
Levels(leaves) ==
  LET level == Level(leaves) IN [k \in 1..(Top(leaves) + 1) |-> level[k - 1]]

MerkleRoot(es, order) == Last(Levels(Leaves(es, order)))[1]

\* The node above the i-th leaf, so many levels higher.
Above(i) ==
  LET above[up \in Nat] == IF up = 0 THEN i ELSE (above[up - 1] + 1) \div 2
  IN above

CountedFromOne(i) == i % 2 = 0   \* Mutant: the sides are swapped
SiblingIsRight(i) == i % 2 = 1

ProofFor(es, order, a) ==
  LET levels == Levels(Leaves(es, order))
      leaf == CHOOSE i \in 1..Len(levels[1]) : Sorted(es, order)[i] = a
      Step(k) == LET i == Above(leaf)[k - 1]
                 IN [hash |-> Sibling(levels[k], i), right |-> SiblingIsRight(i)]
  IN [content |-> Content(es, a),
      path |-> [k \in 1..(Len(levels) - 1) |-> Step(k)],
      commitment |-> Last(levels)[1]]

\* The hashes that verifyProof() runs through, step by step.
Climb(p) ==
  LET running[k \in Nat] ==
        IF k = 0 THEN HashLeafContent(p.content)
        ELSE LET step == p.path[k] IN
             IF step.right THEN HashNode(running[k - 1], step.hash)
                           ELSE HashNode(step.hash, running[k - 1])
  IN running

VerifyProof(p) == Climb(p)[Len(p.path)] = p.commitment

-----------------------------------------------------------------------------
(* The commands.  Dispatch says how a round comes to be sent; here it is.  *)

ReceiptInit ==
  /\ entries \in [Accounts -> Amounts]
  /\ memo = Nothing
  /\ printed = Nothing
  /\ edited = FALSE

Commitment(order) ==
  [kind |-> "receipt",
   commitment |-> MerkleRoot(entries, order),
   entries |-> entries]   \* what it was made from is not printed

\* zgrove anchor, from its checks to its record; refused when it is anchored.
Anchor(order) ==
  /\ memo = Nothing
  /\ Paid(entries) # {}
  /\ memo' = Commitment(order)
  /\ UNCHANGED <<entries, printed, edited>>

\* zgrove receipt.
IssueReceipt(order) ==
  /\ Paid(entries) # {}
  /\ printed' = Commitment(order)
  /\ UNCHANGED <<entries, memo, edited>>

\* zgrove receipt --proof.
IssueProof(a, order) ==
  /\ a \in Paid(entries)
  /\ printed' = [kind |-> "proof", proof |-> ProofFor(entries, order, a),
                 entries |-> entries]
  /\ UNCHANGED <<entries, memo, edited>>

\* Somebody changes an entry in the database after the round was anchored.  No
\* command does: it is what the anchor is there to show.
Edit(a, zat) ==
  /\ memo # Nothing
  /\ ~edited
  /\ zat # entries[a]
  /\ entries' = [entries EXCEPT ![a] = zat]
  /\ edited' = TRUE
  /\ UNCHANGED <<memo, printed>>

ReceiptNext ==
  \/ \E order \in Collations :
       \/ Anchor(order)
       \/ IssueReceipt(order)
       \/ \E a \in Accounts : IssueProof(a, order)
  \/ \E a \in Accounts, zat \in Amounts : Edit(a, zat)

ReceiptSpec == ReceiptInit /\ [][ReceiptNext]_receiptVars

-----------------------------------------------------------------------------
(* Properties. *)

ReceiptPrinted == printed # Nothing /\ printed.kind = "receipt"
ProofPrinted == printed # Nothing /\ printed.kind = "proof"

\* The proof a contributor is handed verifies, whatever the number of entries
\* and wherever theirs is among them, odd levels included, and against the
\* root in the memo unless an entry was changed since: proofFor, merkleRoot and
\* verifyProof walk one tree in three ways (receipt.ts:92-168).
ProofIsOfTheReceipt ==
  ProofPrinted =>
    /\ VerifyProof(printed.proof)
    /\ memo # Nothing /\ memo.entries = printed.entries =>
         printed.proof.commitment = memo.commitment

\* A proof that verifies against the root of a receipt shows an entry of that
\* receipt: no path through hashes of the tree verifies another amount, or the
\* two halves of an inner node taken for one (the tags of leaves and nodes,
\* receipt.ts:64-86).
OnlyRecordedEntriesVerify ==
  ReceiptPrinted =>
    \A order \in Collations :
      LET levels == Levels(Leaves(printed.entries, order))
          hashes == UNION {ToSet(level) : level \in ToSet(levels)}
          steps == [hash : hashes, right : BOOLEAN]
          paths == UNION {[1..n -> steps] : n \in 0..2}
          contents == (Accounts \X Amounts) \cup {<<h[2], h[3]>> : h \in hashes}
      IN printed.commitment = MerkleRoot(printed.entries, order) =>
           \A content \in contents, path \in paths :
             VerifyProof([content |-> content, path |-> path,
                          commitment |-> printed.commitment])
             => \E a \in Paid(printed.entries) : content = Content(printed.entries, a)

\* A receipt disagrees with the memo exactly when what was paid to somebody
\* has been changed between the two ("A receipt that later disagrees with its
\* anchor was changed afterwards", receipt.ts:46).
ReceiptMatchesAnchor ==
  memo # Nothing /\ ReceiptPrinted =>
    (printed.commitment = memo.commitment <=> printed.entries = memo.entries)

\* "Sorted by account id, so the same entries always give the same root"
\* (receipt.ts:88): two commitments made from the same entries are the same.
SameEntriesSameRoot ==
  memo # Nothing /\ ReceiptPrinted /\ printed.entries = memo.entries =>
    printed.commitment = memo.commitment
=============================================================================
