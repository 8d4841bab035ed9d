--------------------------- MODULE MCKeyRotation ---------------------------
(* Small instances of KeyRotation. *)
EXTENDS KeyRotation

CONSTANTS r1, a1, w1
=============================================================================
