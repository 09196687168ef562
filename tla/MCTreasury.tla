----------------------------- MODULE MCTreasury -----------------------------
(* Treasury for TLC: three consecutive windows of one bucket each.         *)
EXTENDS Treasury, TLC

Windows == {<<0, 1>>, <<1, 2>>, <<2, 3>>}

Symmetry == Permutations(Proc) \cup Permutations(Op)
=============================================================================
