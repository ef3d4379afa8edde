---------------------------- MODULE MCVaultFile ----------------------------
(* Small instances of VaultFile for TLC. *)
EXTENDS VaultFile

CONSTANTS t1, t2, p1, p2, c1, c2
=============================================================================
