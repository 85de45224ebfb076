-------------------------- MODULE MCRuntimeConfig --------------------------
(* Model checking of RuntimeConfig on small instances.                      *)
EXTENDS RuntimeConfig, TLC

CONSTANTS p1, p2, v1

MCSymmetry == Permutations(Proc)
=============================================================================
