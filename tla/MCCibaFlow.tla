----------------------------- MODULE MCCibaFlow -----------------------------
(* Small instances of CibaFlow. *)
EXTENDS CibaFlow, TLC

CONSTANTS r1, r2, r3

Symmetry == Permutations(Reqs)
=============================================================================
