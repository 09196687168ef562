------------------------------ MODULE MCLookup ------------------------------
(* Lookup for TLC: every kind of transaction there is.                     *)
EXTENDS Lookup

Kinds ==
  {t \in [coinbase : BOOLEAN, inputs : BOOLEAN, decoded : BOOLEAN,
          orchard : BOOLEAN, ancient : BOOLEAN] :
     /\ t.coinbase => t.inputs
     /\ ~t.inputs => t.decoded \/ t.orchard
     /\ t.ancient => ~t.orchard}
=============================================================================
