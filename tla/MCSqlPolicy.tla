---------------------------- MODULE MCSqlPolicy ----------------------------
(* Small instances of SqlPolicy for TLC. *)
EXTENDS SqlPolicy

CONSTANTS x, y

Plain(head, tables) == [head |-> head, modifies |-> FALSE, tables |-> tables, own |-> None,
                        several |-> FALSE, comment |-> FALSE]

\* One statement per category, reads with and without tables and a LIMIT, and
\* one for each reason to refuse a statement whatever the policy.
AgentStatements ==
    {Plain("select", {}), Plain("select", {x}), Plain("select", {x, y}),
     Plain("values", {}), Plain("with", {y}),
     [Plain("select", {x}) EXCEPT !.own = 3], [Plain("select", {}) EXCEPT !.own = 6000],
     Plain("insert", {}), Plain("delete", {x}), Plain("drop", {}), Plain("vacuum", {}),
     Plain("grant", {}), Plain("begin", {}), Plain("other", {}),
     [Plain("with", {x}) EXCEPT !.modifies = TRUE],
     [Plain("select", {}) EXCEPT !.several = TRUE],
     [Plain("select", {}) EXCEPT !.comment = TRUE]}

AgentLimits == {None, 0, 1, 60, 7000}

SubmittedMaxima == {-1, 0, 1, 50, 7000}
=============================================================================
