---------------------------- MODULE MCDeviceFlow ----------------------------
(* Small instances of DeviceFlow. *)
EXTENDS DeviceFlow, TLC

CONSTANTS u1, u2, noUser, r1, r2

Symmetry == Permutations(Reqs) \cup Permutations(Users)
=============================================================================
