----------------------------- MODULE MCPayouts ------------------------------
(* Payouts for TLC: windows of one or two buckets of two seconds each.     *)
EXTENDS Payouts

\* Two consecutive windows, both of them in one, and one the code must refuse.
\* That is three rounds for a balance to roll through.
Windows == {<<0, 2>>, <<2, 4>>, <<0, 4>>, <<1, 4>>}

\* Two consecutive windows.
Consecutive == {<<0, 2>>, <<2, 4>>}

\* The same first bucket asked for twice, alone and in a longer window.
Overlapping == {<<0, 2>>, <<0, 4>>}
=============================================================================
