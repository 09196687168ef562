------------------------------- MODULE MCFees -------------------------------
(* Fees for TLC: ladders in and out of order, with equal thresholds, a rate *)
(* out of range, no tier at 0, and none at all.                             *)
EXTENDS Fees

Ladders ==
  { << <<0, 20>>, <<1, 10>>, <<2, 5>> >>,
    << <<2, 5>>, <<0, 20>> >>,
    << <<1, 10>>, <<0, 20>>, <<1, 15>> >>,
    << <<0, 20>>, <<1, 101>> >>,
    << <<1, 10>> >>,
    <<>> }
=============================================================================
