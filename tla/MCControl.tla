----------------------------- MODULE MCControl ------------------------------
(* Control for TLC: account ids and rig names, as their dot-separated      *)
(* parts.                                                                  *)
EXTENDS Control, TLC

OneAccount == {<<"a">>}
TwoAccounts == {<<"a">>, <<"b">>}
\* "a" with the rig "b.c" and "a.b" with the rig "c" both log in as "a.b.c".
DottedAccounts == {<<"a">>, <<"a", "b">>}

\* The name parseWorkerLogin gives a login without one.
OneName == {<<"default">>}
DottedNames == {<<"c">>, <<"b", "c">>}

Symmetry == Permutations(Key) \cup Permutations(Wallet) \cup Permutations(Conn)
=============================================================================
