----------------------------- MODULE MCGateway -----------------------------
(* Model-checking instance of GatewayRegistration.                           *)
EXTENDS GatewayRegistration, TLC

Symmetry == Permutations(Worker)
=============================================================================
