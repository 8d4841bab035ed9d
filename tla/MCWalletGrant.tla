--------------------------- MODULE MCWalletGrant ---------------------------
(* Small instances of WalletGrant. *)
EXTENDS WalletGrant

CONSTANTS o1, r1, r2

=============================================================================
