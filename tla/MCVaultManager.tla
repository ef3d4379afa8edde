--------------------------- MODULE MCVaultManager ---------------------------
(* Small instances of VaultManager for TLC. *)
EXTENDS VaultManager, TLC

CONSTANTS d1, d2, p1, p2, f1, f2

\* Everything a running instance is asked, as long as it is not interrupted.
Uninterrupted == {"setup", "login", "select", "lock", "logout", "timer", "create", "edit",
                  "update", "settings", "archive", "rotate", "toggle", "mcp"}

\* What changes definitions, with crashes, failed writes and restarts between.
\* Switching the agent on runs the loop over all definitions as rotating does,
\* and needs no further key.
Interrupted == {"setup", "login", "select", "create", "update", "settings", "archive",
                "switch_on", "reset", "download", "import", "mcp", "crash"}

\* Two definitions whose passwords come to differ by recovery resets.
Recovered == {"setup", "login", "select", "lock", "create", "archive", "reset"}

Deployment(env, typed, operations, faults, keys, exports) ==
    [env |-> env, typed |-> typed, operations |-> operations, faults |-> faults,
     keys |-> keys, copies |-> exports]

CalmAndRough == {Deployment(None, {p1}, Uninterrupted, FALSE, 4, 0),
                 Deployment(None, {p1, p2}, Recovered, FALSE, 3, 0),
                 Deployment(p1, {p1}, Interrupted, TRUE, 2, 1)}

\* Forms differ in nothing but their name.
FormsAlike == Permutations(Forms)

(* Instances in which a promise of the documentation or a comment fails. *)
RotateAfterReset == {Deployment(None, {p1, p2}, {"setup", "create", "reset", "rotate"}, FALSE, 4, 0)}
SelectAfterReset == {Deployment(None, {p1, p2}, {"setup", "create", "reset"}, FALSE, 3, 0)}
FirstRun == {Deployment(None, {p1}, {"setup"}, TRUE, 2, 0)}
ResetAndCrash == {Deployment(None, {p1, p2}, {"setup", "reset", "crash"}, FALSE, 2, 0)}
RestoreActive ==
    {Deployment(None, {p1}, {"setup", "update", "settings", "download", "import", "restore"},
                FALSE, 2, 1)}
=============================================================================
