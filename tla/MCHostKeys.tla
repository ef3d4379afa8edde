----------------------------- MODULE MCHostKeys -----------------------------
(* Small instances of HostKeys for TLC. *)
EXTENDS HostKeys

CONSTANTS x1, x2, h1, h2, k1, k2
=============================================================================
