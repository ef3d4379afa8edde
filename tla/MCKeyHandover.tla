--------------------------- MODULE MCKeyHandover ---------------------------
(* Small instances of KeyHandover for TLC. *)
EXTENDS KeyHandover, TLC

CONSTANTS t1, t2, t3, d1, d2, d3

\* Requests differ in nothing but their name, and so do new definitions.
Alike == Permutations(Tasks) \cup Permutations(Names \ {Default})
=============================================================================
