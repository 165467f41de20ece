------------------------------ MODULE MCRegistry ------------------------------
(* Models of Registry for TLC. *)
EXTENDS Registry, TLC

CONSTANTS a, b

MCClients == {a, b}
Symmetry == Permutations(MCClients)
=============================================================================
