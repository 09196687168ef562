------------------------------ MODULE MCRelay -------------------------------
(* Relay for TLC.                                                          *)
EXTENDS Relay

\* Ids of a miner that reuses one id for all its requests.
OneId == {1}
=============================================================================
