----------------------------- MODULE MCRequests -----------------------------
(* Small instances of Requests for TLC. *)
EXTENDS Requests, TLC

CONSTANTS a1, a2, m1, m2, d1, d2, f1, f2

\* Agents differ in nothing but their name, and so do admin handlers.
Alike == Permutations(Agents) \cup Permutations(Admins)
=============================================================================
