------------------------------ MODULE MCStore -------------------------------
(* Store for TLC: a process of an older release beside a newer one.        *)
EXTENDS Store, TLC

CONSTANTS p1, p2

Releases == p1 :> 2 @@ p2 :> 3
=============================================================================
