----------------------------- MODULE MCAutoLock -----------------------------
(* Small instances of AutoLock for TLC. *)
EXTENDS AutoLock

CONSTANTS r1, r2
=============================================================================
