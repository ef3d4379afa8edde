-------------------------- MODULE SqlPolicyProofs ---------------------------
(***************************************************************************)
(* Proofs about SqlPolicy for any set of statements, limits, tables and    *)
(* submitted numbers.                                                      *)
(***************************************************************************)
EXTENDS SqlPolicy, TLAPS

\* Clamp never exceeds the maximum, whatever is asked for (clamp_limit).
LEMMA ClampIsBounded ==
    ASSUME NEW requested \in Int \cup {None}, NEW maximum \in Int, NEW default \in Int
    PROVE  /\ Clamp(requested, maximum, default) \in Int
           /\ Clamp(requested, maximum, default) <= maximum
           /\ requested # None => Clamp(requested, maximum, default) <= requested
    BY SqlPolicyAssumption DEF Clamp, Least

\* Clamp gives at least one row when what it is given allows one (clamp_limit).
LEMMA ClampIsPositive ==
    ASSUME NEW requested \in Int \cup {None}, NEW maximum \in Int, NEW default \in Int,
           maximum >= 1, default >= 1, requested # None => requested >= 1
    PROVE  Clamp(requested, maximum, default) >= 1
    BY SqlPolicyAssumption DEF Clamp, Least

\* Putting a number between one and the ceiling (settings_update, guard_sql_query).
LEMMA CeilingIsKept ==
    ASSUME NEW n \in Int
    PROVE  /\ Greatest(1, Least(n, HardMaxCeiling)) \in 1..HardMaxCeiling
           /\ Greatest(1, Least(n, HardMaxCeiling)) \in Int
           /\ n \in 1..HardMaxCeiling => Greatest(1, Least(n, HardMaxCeiling)) = n
    BY DEF Greatest, Least, HardMaxCeiling

\* A stored cap is a positive integer (settings_update).
LEMMA CapIsPositive ==
    ASSUME TypeOK
    PROVE  settings.hardMax \in 1..HardMaxCeiling /\ settings.hardMax \in Int
           /\ settings.hardMax >= 1
<1>1. settings.hardMax \in 1..HardMaxCeiling
    BY DEF TypeOK, Settings
<1>2. ASSUME NEW n \in 1..HardMaxCeiling
      PROVE  n \in Int /\ n >= 1
    BY <1>2 DEF HardMaxCeiling
<1> QED BY <1>1, <1>2

\* The max_rows of a target is a positive integer.
LEMMA MaxRowsIsPositive ==
    ASSUME TypeOK, target # None
    PROVE  target.maxRows \in Int /\ target.maxRows >= 1
<1>1. target \in Target
    BY DEF TypeOK
<1>2. target.maxRows \in MaxRows \cup {DefaultMaxRows}
    BY <1>1 DEF Target
<1>3. ASSUME NEW n \in MaxRows \cup {DefaultMaxRows}
      PROVE  n \in Int /\ n >= 1
    BY <1>3, SqlPolicyAssumption DEF DefaultMaxRows
<1> QED BY <1>2, <1>3

\* The limit of a query is an integer whatever policy the tool finds (guard_sql_query).
LEMMA LimitIsInteger ==
    ASSUME TypeOK, target # None, NEW overtaken \in BOOLEAN, NEW requested \in Requested
    PROVE  Limit(Policy(overtaken), requested) \in Int
<1>1. target.maxRows \in Int
    BY MaxRowsIsPositive
<1>2. Policy(overtaken).hardMax \in Int
    <2>1. settings.hardMax \in Int
        BY CapIsPositive
    <2>2. DefaultPolicy.hardMax \in Int
        BY <1>1 DEF DefaultPolicy, Greatest, DefaultHardMax
    <2> QED BY <2>1, <2>2 DEF Policy
<1>3. HardMax(Policy(overtaken)) \in Int
    BY <1>2, CeilingIsKept DEF HardMax
<1>4. requested \in Int \cup {None}
    BY SqlPolicyAssumption
<1> QED BY <1>1, <1>3, <1>4, ClampIsBounded DEF Limit

\* The settings, targets and executions of SqlPolicy stay in their domains
\* (settings_update, _apply_definition_form, query_readonly_sql).
THEOREM SpecTypeOK == Spec => []TypeOK
<1>1. Init => TypeOK
    <2> SUFFICES ASSUME Init PROVE TypeOK
        OBVIOUS
    <2>1. settings \in Settings
        BY DEF Init, Settings, DefaultHardMax, HardMaxCeiling
    <2>2. target \in Target \cup {None}
        BY DEF Init, Target
    <2>3. executed \in Execution \cup {None} /\ asked \in SUBSET WriteCategories
        BY DEF Init
    <2>4. raised \in BOOLEAN
        BY DEF Init
    <2> QED BY <2>1, <2>2, <2>3, <2>4 DEF TypeOK
<1>2. TypeOK /\ [Next]_vars => TypeOK'
    <2> SUFFICES ASSUME TypeOK, [Next]_vars PROVE TypeOK'
        OBVIOUS
    <2>1. CASE \E level \in Levels, postgres \in BOOLEAN : SubmitDefinition(level, postgres)
        <3> PICK level \in Levels, postgres \in BOOLEAN : SubmitDefinition(level, postgres)
            BY <2>1
        <3>1. settings' \in Settings
            BY DEF SubmitDefinition, ApplyAccessLevel, TypeOK, Settings, FormCategories,
                   WriteCategories, SameNameHeads
        <3>2. target' \in Target \cup {None}
            BY DEF SubmitDefinition, TypeOK, Target, NewTarget
        <3>3. executed' \in Execution \cup {None} /\ asked' \in SUBSET WriteCategories
            BY DEF SubmitDefinition, FormCategories, WriteCategories, SameNameHeads
        <3>4. raised' \in BOOLEAN
            BY DEF SubmitDefinition, TypeOK
        <3> QED BY <3>1, <3>2, <3>3, <3>4 DEF TypeOK
    <2>2. CASE \E mode \in {"readonly_default", "guarded_write"}, allow \in SUBSET Toggles,
                  hardMax \in HardMaxima : SubmitSettings(mode, allow, hardMax)
        <3> PICK mode \in {"readonly_default", "guarded_write"}, allow \in SUBSET Toggles,
                 hardMax \in HardMaxima : SubmitSettings(mode, allow, hardMax)
            BY <2>2
        <3>1. Greatest(1, Least(hardMax, HardMaxCeiling)) \in 1..HardMaxCeiling
            BY SqlPolicyAssumption, CeilingIsKept
        <3>2. allow \in SUBSET WriteCategories
            BY SqlPolicyAssumption
        <3> QED BY <3>1, <3>2 DEF SubmitSettings, TypeOK, Settings
    <2>3. CASE \E s \in Statements, requested \in Requested : Query(s, requested)
        <3> PICK s \in Statements, requested \in Requested : Query(s, requested)
            BY <2>3
        <3>1. PICK overtaken \in BOOLEAN :
                  executed' = [statement |-> s, requested |-> requested,
                               limit |-> Limit(Policy(overtaken), requested),
                               bound |-> Bound(s, Limit(Policy(overtaken), requested)),
                               overtaken |-> overtaken]
            BY DEF Query
        <3>2. Limit(Policy(overtaken), requested) \in Int
            BY LimitIsInteger DEF Query
        <3>3. Bound(s, Limit(Policy(overtaken), requested)) \in Int \cup {None}
            BY <3>2, SqlPolicyAssumption DEF Bound, Statement
        <3>4. executed' \in Execution
            BY <3>1, <3>2, <3>3 DEF Execution
        <3> QED BY <3>4 DEF Query, TypeOK
    <2>4. CASE UNCHANGED vars
        BY <2>4 DEF TypeOK, vars
    <2> QED BY <2>1, <2>2, <2>3, <2>4 DEF Next
<1> QED BY <1>1, <1>2, PTL DEF Spec

\* The forms withdraw what was executed before they change what may be: after
\* either of them, and at first, nothing that ran is left to account for.
LEMMA OnlyQueriesRun ==
    ASSUME [Next]_vars
    PROVE  \/ executed' = None
           \/ UNCHANGED vars
           \/ \E s \in Statements, requested \in Requested : Query(s, requested)
    BY DEF Next, SubmitDefinition, SubmitSettings

\* What a policy that a tool may have found lets through is a read, or is
\* switched on in the settings (_enforce_sql_policy, _sql_policy_from_target).
LEMMA PolicyComesFromSettings ==
    ASSUME NEW overtaken \in BOOLEAN, NEW category,
           PolicyAllows(Policy(overtaken), category)
    PROVE  category = "read"
           \/ (settings.mode = "guarded_write" /\ category \in settings.allow)
    BY DEF Policy, DefaultPolicy, PolicyAllows

\* A definition whose form shows read-only runs nothing, and only one shown as
\* writable runs what is no read to the guard, whatever was submitted before on
\* either page
\* (_access_level_of against the gates of query_readonly_sql).
THEOREM SpecShownLevelIsObeyed == Spec => []ShownLevelIsObeyed
<1>1. Init => ShownLevelIsObeyed
    BY DEF Init, ShownLevelIsObeyed, Ran
<1>2. ShownLevelIsObeyed /\ [Next]_vars => ShownLevelIsObeyed'
    <2> SUFFICES ASSUME ShownLevelIsObeyed, [Next]_vars PROVE ShownLevelIsObeyed'
        OBVIOUS
    <2>1. CASE executed' = None
        BY <2>1 DEF ShownLevelIsObeyed, Ran
    <2>2. CASE UNCHANGED vars
        BY <2>2 DEF ShownLevelIsObeyed, Ran, AccessLevel, vars
    <2>3. CASE \E s \in Statements, requested \in Requested : Query(s, requested)
        <3> PICK s \in Statements, requested \in Requested : Query(s, requested)
            BY <2>3
        <3>1. PICK overtaken \in BOOLEAN : PolicyAllows(Policy(overtaken), Category(s))
            BY DEF Query
        <3>2. Category(s) = "read" \/ settings.mode = "guarded_write"
            BY <3>1, PolicyComesFromSettings
        <3>3. executed'.statement = s
            BY DEF Query
        <3>4. target # None /\ target.enabled /\ UNCHANGED <<settings, target>>
            BY DEF Query
        <3>5. AccessLevel' = IF settings.mode = "guarded_write" THEN "write" ELSE "sql"
            BY <3>4 DEF AccessLevel
        <3> QED BY <3>2, <3>3, <3>5 DEF ShownLevelIsObeyed
    <2> QED BY <2>1, <2>2, <2>3, OnlyQueriesRun
<1> QED BY <1>1, <1>2, PTL DEF Spec

\* The limit reported with a result is between one and the row cap of the
\* settings, and at most what was asked for, if the tool finds the policy of
\* the definition it looked up (guard_sql_query, clamp_limit).
THEOREM SpecLimitWithinCaps == Spec => []LimitWithinCaps
<1>1. Init => LimitWithinCaps
    BY DEF Init, LimitWithinCaps, Ran
<1>2. TypeOK /\ LimitWithinCaps /\ [Next]_vars => LimitWithinCaps'
    <2> SUFFICES ASSUME TypeOK, LimitWithinCaps, [Next]_vars PROVE LimitWithinCaps'
        OBVIOUS
    <2>1. CASE executed' = None
        BY <2>1 DEF LimitWithinCaps, Ran
    <2>2. CASE UNCHANGED vars
        BY <2>2 DEF LimitWithinCaps, Ran, vars
    <2>3. CASE \E s \in Statements, requested \in Requested : Query(s, requested)
        <3> PICK s \in Statements, requested \in Requested : Query(s, requested)
            BY <2>3
        <3> DEFINE limit == Limit(settings, requested)
        <3>1. /\ ~executed'.overtaken => executed'.limit = limit
              /\ executed'.requested = requested
              /\ settings' = settings
            BY DEF Query, Policy
        <3>2. settings.hardMax \in 1..HardMaxCeiling /\ settings.hardMax \in Int
            BY CapIsPositive
        <3>3. HardMax(settings) = settings.hardMax
            BY <3>2, CeilingIsKept DEF HardMax
        <3>4. target.maxRows \in Int /\ target.maxRows >= 1
            BY MaxRowsIsPositive DEF Query
        <3>5. requested \in Int \cup {None} /\ (requested # None => requested >= 1)
            BY SqlPolicyAssumption DEF Query
        <3>6. settings.hardMax \in Int /\ settings.hardMax >= 1
            BY CapIsPositive
        <3>7. /\ limit \in Int /\ limit >= 1 /\ limit <= settings.hardMax
              /\ requested # None => limit <= requested
            BY <3>3, <3>4, <3>5, <3>6, ClampIsBounded, ClampIsPositive DEF Limit
        <3> HIDE DEF limit
        <3> QED BY <3>1, <3>6, <3>7 DEF LimitWithinCaps
    <2> QED BY <2>1, <2>2, <2>3, OnlyQueriesRun
<1> QED BY <1>1, <1>2, SpecTypeOK, PTL DEF Spec

\* What the settings allow is what was asked for last, as long as only the
\* settings page switches categories on.
AskedIsAllowed ==
    ~raised => asked = IF settings.mode = "guarded_write" THEN settings.allow ELSE {}

\* Until the level "write" is chosen, and again once the settings page has been
\* submitted, a statement that ran is a read or of a category that the form
\* submitted last left switched on (_apply_access_level, settings_update,
\* _enforce_sql_policy).
THEOREM SpecWritesWereAskedFor == Spec => []WritesWereAskedFor
<1> DEFINE Inv == AskedIsAllowed /\ WritesWereAskedFor
<1>1. Init => Inv
    BY DEF Init, AskedIsAllowed, WritesWereAskedFor, Ran
<1>2. TypeOK /\ Inv /\ [Next]_vars => Inv'
    <2> SUFFICES ASSUME TypeOK, Inv, [Next]_vars PROVE Inv'
        OBVIOUS
    <2>1. AskedIsAllowed'
        <3>1. CASE \E level \in Levels, postgres \in BOOLEAN : SubmitDefinition(level, postgres)
            BY <3>1 DEF SubmitDefinition, ApplyAccessLevel, AskedIsAllowed, TypeOK, Settings
        <3>2. CASE \E mode \in {"readonly_default", "guarded_write"}, allow \in SUBSET Toggles,
                      hardMax \in HardMaxima : SubmitSettings(mode, allow, hardMax)
            BY <3>2 DEF SubmitSettings, AskedIsAllowed
        <3>3. CASE \E s \in Statements, requested \in Requested : Query(s, requested)
            BY <3>3 DEF Query, AskedIsAllowed
        <3>4. CASE UNCHANGED vars
            BY <3>4 DEF AskedIsAllowed, vars
        <3> QED BY <3>1, <3>2, <3>3, <3>4 DEF Next
    <2>2. WritesWereAskedFor'
        <3>1. CASE executed' = None
            BY <3>1 DEF WritesWereAskedFor, Ran
        <3>2. CASE UNCHANGED vars
            BY <3>2 DEF WritesWereAskedFor, Ran, vars
        <3>3. CASE \E s \in Statements, requested \in Requested : Query(s, requested)
            <4> PICK s \in Statements, requested \in Requested : Query(s, requested)
                BY <3>3
            <4>1. PICK overtaken \in BOOLEAN : PolicyAllows(Policy(overtaken), Category(s))
                BY DEF Query
            <4>2. Category(s) = "read"
                  \/ (settings.mode = "guarded_write" /\ Category(s) \in settings.allow)
                BY <4>1, PolicyComesFromSettings
            <4>3. executed'.statement = s /\ asked' = asked /\ raised' = raised
                BY DEF Query
            <4> QED BY <4>2, <4>3 DEF WritesWereAskedFor, AskedIsAllowed
        <3> QED BY <3>1, <3>2, <3>3, OnlyQueriesRun
    <2> QED BY <2>1, <2>2
<1>3. Inv => WritesWereAskedFor
    OBVIOUS
<1> QED BY <1>1, <1>2, <1>3, SpecTypeOK, PTL DEF Spec
=============================================================================
