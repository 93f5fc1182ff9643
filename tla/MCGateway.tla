----------------------------- MODULE MCGateway -----------------------------
(* Symmetry for the model-checking instances of Gateway.                   *)
EXTENDS Gateway, TLC

Symmetry == Permutations(Legs) \cup Permutations(SipIds) \cup Permutations(OutIds)
=============================================================================
