----------------------------- MODULE MCRecovery -----------------------------
(* TLC instances of Recovery.  The producers are model values.             *)
EXTENDS Recovery, TLC

Symmetry == Permutations(Producers)
=============================================================================
