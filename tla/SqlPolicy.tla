----------------------------- MODULE SqlPolicy ------------------------------
(***************************************************************************)
(* What the agent's query_readonly_sql may run on one definition: the      *)
(* access level of the definition form and the toggles of the settings     *)
(* page (app/admin/routes.py), which write to the same settings, and the   *)
(* gates a statement passes (app/mcp/tools.py, app/tools/postgres.py,      *)
(* app/core/security.py).                                                  *)
(*                                                                         *)
(* A statement is what the guard's regular expressions find in it, which   *)
(* is less than what PostgreSQL would: its first word, a data-modifying    *)
(* part of a WITH (only one behind a closing parenthesis is found), the    *)
(* tables (only unquoted names right after FROM and JOIN are found), a     *)
(* LIMIT of its own, a second statement, a comment.  So "read" is the      *)
(* guard's word and not a promise that nothing is written.                 *)
(***************************************************************************)
EXTENDS Integers

CONSTANTS
    Tables,
    Statements,  \* the statements an agent sends
    Requested,   \* the limits it asks for, None among them
    Levels,      \* the access levels chosen in the definition form
    Toggles,     \* the categories an operator switches on in the settings page
    HardMaxima,  \* the numbers submitted there as "SQL Hard Max Rows"
    MaxRows,     \* max_rows of restored targets; new targets have DefaultMaxRows
    None

DefaultMaxRows == 100
DefaultHardMax == 1000
HardMaxCeiling == 5000

ReadHeads == {"select", "show", "explain", "values"}
MaintenanceHeads == {"vacuum", "analyze", "reindex", "refresh"}
PrivilegeHeads == {"grant", "revoke"}
TransactionHeads == {"begin", "start", "commit", "rollback", "savepoint", "release"}
SameNameHeads == {"insert", "update", "delete", "create", "alter", "drop", "truncate"}
Heads == ReadHeads \cup MaintenanceHeads \cup PrivilegeHeads \cup TransactionHeads
         \cup SameNameHeads \cup {"with", "other"}

Statement == [head : Heads, modifies : BOOLEAN, tables : SUBSET Tables,
              own : Nat \cup {None}, several : BOOLEAN, comment : BOOLEAN]

\* The categories with a toggle; "read" needs none and "unknown" has none.
WriteCategories == SameNameHeads \cup {"maintenance", "privilege", "transaction"}

ASSUME SqlPolicyAssumption ==
    /\ Statements \subseteq Statement
    /\ Requested \subseteq Int \cup {None}
    /\ None \notin Int
    /\ Levels \subseteq {"readonly", "sql", "write"}
    /\ Toggles \subseteq WriteCategories
    /\ HardMaxima \subseteq Int
    /\ MaxRows \subseteq Nat \ {0}

Settings == [mode : {"readonly_default", "guarded_write"}, allow : SUBSET WriteCategories,
             hardMax : 1..HardMaxCeiling]

\* enabled is sql_query_enabled; a target itself is always enabled.
Target == [enabled : BOOLEAN, allowAll : BOOLEAN, tables : SUBSET Tables,
           maxRows : MaxRows \cup {DefaultMaxRows}]

ASSUME TargetAssumption == None \notin Target

VARIABLES
    settings,  \* data.settings: the mode, the toggles and the row cap
    target,    \* data.postgres_targets[0], or None
    executed,  \* what the tool ran last since the definition was changed, or None
    asked,     \* history: the categories the form submitted last left switched on
    raised     \* history: whether the level "write" has been chosen since the
               \* settings page was submitted last

vars == <<settings, target, executed, asked, raised>>

\* A definition created empty, or restored from a file that holds a target.
Init ==
    /\ settings = [mode |-> "readonly_default", allow |-> {}, hardMax |-> DefaultHardMax]
    /\ target \in {None} \cup [enabled : BOOLEAN, allowAll : BOOLEAN,
                               tables : SUBSET Tables, maxRows : MaxRows]
    /\ executed = None
    /\ asked = {}
    /\ raised = FALSE

----------------------------------------------------------------------------
(* The admin panel                                                         *)

NewTarget == [enabled |-> FALSE, allowAll |-> FALSE, tables |-> {}, maxRows |-> DefaultMaxRows]

\* The categories the definition form names beside its level "write".
FormCategories == {"insert", "update", "delete"}

\* Seeded fault: leaving the level "write" only disables the query tool.
ApplyAccessLevelOfTarget(level) ==
    settings' = [settings EXCEPT
        !.mode = IF level = "write" THEN "guarded_write" ELSE @,
        !.allow = IF level = "write" THEN @ \cup FormCategories ELSE @]

\* _apply_access_level: no level ever switches a toggle off.
ApplyAccessLevel(level) ==
    settings' = [settings EXCEPT
        !.mode = IF level = "write" THEN "guarded_write" ELSE "readonly_default",
        !.allow = IF level = "write" THEN @ \cup FormCategories ELSE @]

\* _apply_definition_form, as far as the query tool is concerned.
SubmitDefinition(level, postgres) ==
    /\ target' = IF postgres
                 THEN [(IF target = None THEN NewTarget ELSE target)
                          EXCEPT !.allowAll = TRUE, !.enabled = level # "readonly"]
                 ELSE None
    /\ ApplyAccessLevel(level)
    /\ asked' = IF level = "write" THEN FormCategories ELSE {}
    /\ raised' = (raised \/ level = "write")
    /\ executed' = None

\* _access_level_of: what the form shows when it is opened again.
AccessLevel ==
    CASE target = None \/ ~target.enabled -> "readonly"
      [] target # None /\ target.enabled /\ settings.mode = "guarded_write" -> "write"
      [] OTHER -> "sql"

Least(a, b) == IF a < b THEN a ELSE b
Greatest(a, b) == IF a < b THEN b ELSE a

\* Seeded fault: the row cap is stored as it was submitted.
SubmitSettingsUnclamped(mode, allow, hardMax) ==
    /\ settings' = [mode |-> mode, allow |-> allow, hardMax |-> hardMax]
    /\ asked' = IF mode = "guarded_write" THEN allow ELSE {}
    /\ raised' = FALSE
    /\ executed' = None
    /\ UNCHANGED target

\* Every toggle that is not submitted is switched off.
SubmitSettings(mode, allow, hardMax) ==
    /\ settings' = [mode |-> mode, allow |-> allow,
                    hardMax |-> Greatest(1, Least(hardMax, HardMaxCeiling))]
    /\ asked' = IF mode = "guarded_write" THEN allow ELSE {}
    /\ raised' = FALSE
    /\ executed' = None
    /\ UNCHANGED target

----------------------------------------------------------------------------
(* guard_sql_query and the gates before it                                 *)

\* classify_sql_statement
Category(s) ==
    CASE s.head \in ReadHeads -> "read"
      [] s.head = "with" -> IF s.modifies THEN "unknown" ELSE "read"
      [] s.head \in SameNameHeads -> s.head
      [] s.head \in MaintenanceHeads -> "maintenance"
      [] s.head \in PrivilegeHeads -> "privilege"
      [] s.head \in TransactionHeads -> "transaction"
      [] OTHER -> "unknown"

\* Seeded fault: the toggles count whatever the mode is.
PolicyAllowsByToggle(policy, category) == category = "read" \/ category \in policy.allow

\* _enforce_sql_policy
PolicyAllows(policy, category) ==
    category = "read" \/ (policy.mode = "guarded_write" /\ category \in policy.allow)

\* _ensure_sql_table_access; guard_sql_query checks the allowlist again, but
\* takes an empty one for no restriction.  Both see only what follows FROM and
\* JOIN: a table that is inserted into or updated, that stands after a comma or
\* that is quoted, is not in s.tables.
TablesAllowed(s) ==
    /\ ~target.allowAll /\ s.tables # {}
          => target.tables # {} /\ s.tables \subseteq target.tables
    /\ ~target.allowAll /\ target.tables # {} => s.tables \subseteq target.tables

\* Seeded fault: the maximum bounds only a limit that is asked for.
ClampUnlessDefault(requested, maximum, default) ==
    IF requested = None THEN default ELSE Least(requested, maximum)

\* clamp_limit, for a requested limit it does not refuse.
Clamp(requested, maximum, default) ==
    IF requested = None THEN Least(default, maximum) ELSE Least(requested, maximum)

HardMax(policy) == Greatest(1, Least(policy.hardMax, HardMaxCeiling))

\* guard_sql_query clamps the default before it hands it to clamp_limit.
Limit(policy, requested) ==
    Clamp(requested, HardMax(policy), target.maxRows)

\* The LIMIT a statement runs with, None if there is none: its own is left as it is.
Bound(s, limit) ==
    CASE s.own # None -> s.own
      [] s.own = None /\ s.head \in {"select", "with"} -> limit
      [] OTHER -> None

\* _sql_policy_from_target: without an unlocked vault, the read-only default.
DefaultPolicy == [mode |-> "readonly_default", allow |-> {},
                  hardMax |-> Greatest(DefaultHardMax, target.maxRows)]

Policy(overtaken) == IF overtaken THEN DefaultPolicy ELSE settings

\* query_readonly_sql of tools.py and of postgres.py.  Another request may lock
\* the vault between the tool's look-up of its target and that of its policy.
\* A call that is refused raises and changes nothing.
Query(s, requested) ==
    /\ target # None /\ target.enabled
    /\ TablesAllowed(s)
    /\ ~s.several /\ ~s.comment
    /\ requested # None => requested >= 1
    /\ \E overtaken \in BOOLEAN :
          /\ PolicyAllows(Policy(overtaken), Category(s))
          /\ LET limit == Limit(Policy(overtaken), requested)
             IN  executed' = [statement |-> s, requested |-> requested, limit |-> limit,
                              bound |-> Bound(s, limit), overtaken |-> overtaken]
    /\ UNCHANGED <<settings, target, asked, raised>>

Next ==
    \/ \E level \in Levels, postgres \in BOOLEAN : SubmitDefinition(level, postgres)
    \/ \E mode \in {"readonly_default", "guarded_write"}, allow \in SUBSET Toggles,
          hardMax \in HardMaxima : SubmitSettings(mode, allow, hardMax)
    \/ \E s \in Statements, requested \in Requested : Query(s, requested)

Spec == Init /\ [][Next]_vars

----------------------------------------------------------------------------
(* Properties                                                              *)

Execution == [statement : Statements, requested : Requested, limit : Int,
              bound : Int \cup {None}, overtaken : BOOLEAN]

\* Every variable stays in its domain; in particular no form can store a row
\* cap below one or above the ceiling.
TypeOK ==
    /\ settings \in Settings
    /\ target \in Target \cup {None}
    /\ executed \in Execution \cup {None}
    /\ asked \in SUBSET WriteCategories
    /\ raised \in BOOLEAN

Ran == executed # None

\* A statement that ran was a read or of a category that the form submitted
\* last left switched on: leaving the level "write" by either page withdraws
\* everything.  Only choosing that level brings back what the settings page had
\* ticked.
WritesWereAskedFor ==
    Ran /\ ~raised => Category(executed.statement) \in asked \cup {"read"}

\* What the definition form shows is what the tool does: nothing runs on a
\* definition shown as read-only, and what the guard does not take for a read
\* runs only on one shown as writable.
ShownLevelIsObeyed ==
    Ran => /\ AccessLevel # "readonly"
           /\ Category(executed.statement) # "read" => AccessLevel = "write"

\* The limit reported with a result is at least one row, at most what was
\* asked for and at most the row cap in the settings, whatever was submitted
\* as the cap and whatever max_rows the target was restored with, unless the
\* vault was locked while the tool was looking up its policy.
LimitWithinCaps ==
    Ran /\ ~executed.overtaken =>
        /\ executed.limit \in 1..settings.hardMax
        /\ executed.requested # None => executed.limit <= executed.requested

\* No statement returns more rows than the row cap ("SQL Hard Max Rows caps
\* per-call SQL result limits").
RowCap == Ran /\ executed.bound # None => executed.bound <= settings.hardMax
=============================================================================
