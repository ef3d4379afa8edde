------------------------- MODULE VaultManagerProofs -------------------------
(***************************************************************************)
(* Proofs about VaultManager for any definitions, passwords, forms and     *)
(* deployments: any of the operations, any number of keys and copies, with *)
(* crashes and disk faults or without.                                     *)
(*                                                                         *)
(* What a handler may rely on is stated over the steps it has left, which  *)
(* are always one of the suffixes of the handlers' plans listed first.     *)
(***************************************************************************)
EXTENDS VaultManager, TLAPS

Setups == {
    <<"create", "remember", "bundle", "show_key", "session">>,
    <<"remember", "bundle", "show_key", "session">>,
    <<"bundle", "show_key", "session">>,
    <<"show_key", "session">>}

Creates == {
    <<"truncate", "point", "create", "adopt", "remember", "bundle", "apply", "session">>,
    <<"point", "create", "adopt", "remember", "bundle", "apply", "session">>,
    <<"create", "adopt", "remember", "bundle", "apply", "session">>,
    <<"adopt", "remember", "bundle", "apply", "session">>,
    <<"remember", "bundle", "apply", "session">>,
    <<"bundle", "apply", "session">>,
    <<"apply", "session">>}

Selects == {<<"truncate", "point">>, <<"point">>}

Visits == {<<"truncate", "point", "unlock">>, <<"point", "unlock">>, <<"unlock">>}

Updates == {
    <<"truncate", "point", "unlock", "apply">>, <<"point", "unlock", "apply">>,
    <<"unlock", "apply">>, <<"apply">>}

Rekeys == {<<"rekey", "bundle", "session">>, <<"bundle", "session">>}

Archives == {<<"archive_vault", "archive_bundle">>, <<"archive_bundle">>}

Activations == {<<"truncate", "point", "reset">>, <<"point", "reset">>}

Toggles == {
    <<"next">>,
    <<"truncate", "point", "mutate", "next">>, <<"point", "mutate", "next">>,
    <<"mutate", "next">>,
    <<"truncate", "point", "reopen">>, <<"point", "reopen">>, <<"reopen">>}

\* The steps of a rotation that may still change a key, and those after them.
Rotating == {
    <<"next", "show_key">>,
    <<"truncate", "point", "mutate", "next", "show_key">>,
    <<"point", "mutate", "next", "show_key">>,
    <<"mutate", "next", "show_key">>}

Rotated == {
    <<"truncate", "point", "reopen", "show_key">>, <<"point", "reopen", "show_key">>,
    <<"reopen", "show_key">>, <<"show_key">>}

Endings == {<<"session">>, <<"settings">>, <<"reset">>}

Plans ==
    Setups \cup Creates \cup Selects \cup Visits \cup Updates \cup Rekeys \cup Archives
    \cup Activations \cup Toggles \cup Rotating \cup Rotated \cup Endings \cup {<<>>}

\* The handler under way goes on with one of these steps.
Ahead(steps) == todo # <<>> /\ Head(todo) \in steps

----------------------------------------------------------------------------
(* Types, and what the steps of a handler rely on                          *)

MintedData == [key : 0..minted, on : BOOLEAN, form : Forms \cup {None}]
MintedVault == [pw : Passwords, data : MintedData]
OpenMem == [name : Names, data : MintedData, pw : Passwords]
Locals == [name : Names \cup {None}, pw : Passwords \cup {None}, form : Forms \cup {None},
           key : 0..minted, on : BOOLEAN, left : SUBSET Names, home : Names \cup {None}]
LockedMem == [name : Names, data : {None}, pw : {None}]

\* TypeOK, with keys that have been minted already.
Types ==
    /\ vault \in [Names -> MintedVault \cup {None}]
    /\ bundle \in [Names -> Passwords \cup {None}]
    /\ pointer \in Names \cup {None, Empty}
    /\ marker \in BOOLEAN /\ up \in BOOLEAN /\ session \in BOOLEAN /\ timer \in BOOLEAN
    /\ mem \in OpenMem \cup LockedMem
    /\ master \in Passwords \cup {None}
    /\ todo \in Plans
    /\ op \in Locals
    /\ minted \in 0..MaxKeys /\ shown \in 0..minted
    /\ acked \in [Names -> SUBSET Forms] /\ deployment \in Deployments
    /\ copies \subseteq MintedVault

Switching == Ahead({"truncate", "point"})

\* The arguments a handler was given last until the step that uses them.
Arguments ==
    /\ Switching \/ todo \in Creates \cup Updates \cup Archives => op.name \in Names
    /\ (todo \in Setups /\ ~Ahead({"show_key"})) \/ todo \in Rekeys => op.pw \in Passwords
    /\ todo \in Creates \/ Ahead({"mutate", "reopen"}) => op.pw \in Passwords
    /\ todo \in Toggles \cup Rotating \cup Rotated /\ ~Ahead({"show_key"}) => op.pw \in Passwords
    /\ todo \in Toggles \cup Rotating => op.home \in Names
    /\ todo \in Creates \cup Updates => op.form \in Forms
    /\ todo \in Rotating \cup Rotated => op.key # 0
    /\ todo \in Setups \cup Creates /\ Ahead({"truncate", "point", "create"}) =>
        minted < MaxKeys

\* A step that saves what is in memory finds the vault unlocked there, and the
\* form goes to the definition it was submitted for.
Ready ==
    /\ Ahead({"adopt", "remember", "bundle", "apply", "settings", "rekey"}) => Unlocked
    /\ todo \in Setups /\ Ahead({"show_key"}) => Unlocked
    /\ todo \in Creates \cup Updates /\ ~Switching => Active = op.name

TInv == Types /\ Arguments /\ Ready

----------------------------------------------------------------------------
(* Acknowledged edits                                                      *)

NothingIsRestored == "restore" \notin Operations

\* The form in memory is one that was acknowledged, or failed after that, unless the
\* file it came from has been replaced and is about to be activated.
MemoryHoldsAcked ==
    mem.data # None /\ acked[mem.name] # {} /\ todo \notin Activations =>
        mem.data.form \in acked[mem.name]

AckInv == NothingIsRestored => AcknowledgedEditsSurvive /\ MemoryHoldsAcked

----------------------------------------------------------------------------
(* Calm instances                                                          *)

MemoryIsFile ==
    mem.data # None => vault[mem.name] = [pw |-> mem.pw, data |-> mem.data]

PointerIsWhole == pointer = Empty => Ahead({"point"})

\* Handlers switch to definitions that exist, but for the one that creates it.
TargetsExist ==
    /\ Switching /\ todo \notin Creates => vault[op.name] # None
    /\ todo \in Creates /\ Ahead({"truncate", "point", "create"}) => vault[op.name] = None
    /\ todo \in Setups /\ Ahead({"create"}) => vault[Active] = None
    /\ todo \in Toggles \cup Rotating => op.left \subseteq Existing /\ op.home \in Existing
    /\ Ahead({"archive_vault"}) => Unlocked /\ op.name # Active
    /\ Ahead({"archive_bundle"}) => vault[op.name] = None
    /\ marker /\ ~Ahead({"point", "create"}) => vault[Active] # None

PasswordIsSaved == Ahead({"adopt", "remember", "bundle"}) => mem.pw = op.pw

BundlesOpen ==
    \A n \in Names : bundle[n] # None =>
        \/ Opens(n, bundle[n])
        \/ todo \in Rekeys /\ Ahead({"bundle"}) /\ n = Active
        \/ Ahead({"archive_bundle"}) /\ n = op.name

CalmParts ==
    up /\ MemoryIsFile /\ PointerIsWhole /\ TargetsExist /\ PasswordIsSaved /\ BundlesOpen

CalmInv == Calm => CalmParts

----------------------------------------------------------------------------
(* The timer                                                               *)

\* The steps between unlocking a vault and starting the thread that locks it.
Untimed ==
    \/ Ahead({"adopt", "remember", "bundle", "rekey"})
    \/ todo \in Toggles \cup Rotating \cup Rotated /\ ~Ahead({"show_key"})

TimerInv == DiskFaults \/ mem.data = None \/ timer \/ Untimed

----------------------------------------------------------------------------
(* The shared key                                                          *)

\* A rotation reaches every definition only if one password opens them all.
OnePasswordRotates ==
    "rotate" \in Operations =>
        \E p \in Passwords : deployment.typed \subseteq {p} /\ EnvMaster \in {p, None}

OnePassword ==
    "rotate" \in Operations =>
        \E p \in Passwords :
            /\ deployment.typed \subseteq {p} /\ EnvMaster \in {p, None}
            /\ master \in {p, None} /\ op.pw \in {p, None} /\ mem.pw \in {p, None}
            /\ \A n \in Existing : vault[n].pw = p

KeysAgree ==
    /\ shown # 0 /\ todo \notin Setups \cup Rotating \cup Rotated =>
        \A n \in Existing : vault[n].data.key = shown \/ (Ahead({"adopt"}) /\ n = op.name)
    /\ shown # 0 /\ todo \in Creates /\ Ahead({"truncate", "point", "create", "adopt"}) =>
        op.key = shown
    /\ todo \in Setups => \A n \in Existing : n = Active
    /\ todo \in Setups \cup Toggles => op.key = 0
    /\ todo \in Rotating => "rotate" \in Operations
    /\ todo \in Rotating /\ Ahead({"mutate"}) => Active = op.name
    /\ todo \in Rotating =>
        \A n \in Existing : \/ n \in op.left
                            \/ n = op.name /\ Ahead({"truncate", "point", "mutate"})
                            \/ vault[n].data.key = op.key
    /\ todo \in Rotated => \A n \in Existing : vault[n].data.key = op.key

KeyInv == Calm /\ OnePasswordRotates => OnePassword /\ KeysAgree
----------------------------------------------------------------------------
(* The steps that follow a step                                            *)

\* Every suffix of a plan is a sequence of step names.
LEMMA PlansAreSequences == Plans \subseteq Seq(StepNames)
<1>1. Setups \subseteq Seq(StepNames)
  BY DEF Setups, StepNames
<1>2. Creates \subseteq Seq(StepNames)
  BY DEF Creates, StepNames
<1>3. Selects \subseteq Seq(StepNames)
  BY DEF Selects, StepNames
<1>4. Visits \subseteq Seq(StepNames)
  BY DEF Visits, StepNames
<1>5. Updates \subseteq Seq(StepNames)
  BY DEF Updates, StepNames
<1>6. Rekeys \subseteq Seq(StepNames)
  BY DEF Rekeys, StepNames
<1>7. Archives \subseteq Seq(StepNames)
  BY DEF Archives, StepNames
<1>8. Activations \subseteq Seq(StepNames)
  BY DEF Activations, StepNames
<1>9. Toggles \subseteq Seq(StepNames)
  BY DEF Toggles, StepNames
<1>10. Rotating \subseteq Seq(StepNames)
  BY DEF Rotating, StepNames
<1>11. Rotated \subseteq Seq(StepNames)
  BY DEF Rotated, StepNames
<1>12. Endings \subseteq Seq(StepNames)
  BY DEF Endings, StepNames
<1>13. <<>> \in Seq(StepNames)
  OBVIOUS
<1> QED
  BY <1>1, <1>2, <1>3, <1>4, <1>5, <1>6, <1>7, <1>8, <1>9, <1>10, <1>11, <1>12, <1>13 DEF Plans

\* The plans of two handlers have no suffix in common, but for the ending.
LEMMA PlansApart ==
    ASSUME NEW p
    PROVE  /\ p \in Setups => p # <<>> /\ p \notin
                Creates \cup Selects \cup Visits \cup Updates \cup Rekeys
                \cup Archives \cup Activations \cup Toggles \cup Rotating
                \cup Rotated \cup Endings
           /\ p \in Creates => p # <<>> /\ p \notin
                Selects \cup Visits \cup Updates \cup Rekeys \cup Archives
                \cup Activations \cup Toggles \cup Rotating \cup Rotated
                \cup Endings
           /\ p \in Selects => p # <<>> /\ p \notin
                Visits \cup Updates \cup Rekeys \cup Archives \cup Activations
                \cup Toggles \cup Rotating \cup Rotated \cup Endings
           /\ p \in Visits => p # <<>> /\ p \notin
                Updates \cup Rekeys \cup Archives \cup Activations \cup Toggles
                \cup Rotating \cup Rotated \cup Endings
           /\ p \in Updates => p # <<>> /\ p \notin
                Rekeys \cup Archives \cup Activations \cup Toggles
                \cup Rotating \cup Rotated \cup Endings
           /\ p \in Rekeys => p # <<>> /\ p \notin
                Archives \cup Activations \cup Toggles \cup Rotating
                \cup Rotated \cup Endings
           /\ p \in Archives => p # <<>> /\ p \notin
                Activations \cup Toggles \cup Rotating \cup Rotated
                \cup Endings
           /\ p \in Activations => p # <<>> /\ p \notin
                Toggles \cup Rotating \cup Rotated \cup Endings
           /\ p \in Toggles => p # <<>> /\ p \notin
                Rotating \cup Rotated \cup Endings
           /\ p \in Rotating => p # <<>> /\ p \notin
                Rotated \cup Endings
           /\ p \in Rotated => p # <<>> /\ p \notin
                Endings
           /\ p \in Endings => p # <<>>
<1>1. ASSUME p \in Setups
      PROVE  p # <<>> /\ p \notin
             Creates \cup Selects \cup Visits \cup Updates \cup Rekeys
             \cup Archives \cup Activations \cup Toggles \cup Rotating \cup Rotated
             \cup Endings
  <2> DEFINE others == Creates \cup Selects \cup Visits \cup Updates \cup Rekeys
                      \cup Archives \cup Activations \cup Toggles \cup Rotating
                      \cup Rotated \cup Endings \cup {<<>>}
  <2>1. <<"create", "remember", "bundle", "show_key", "session">> \notin others
    BY DEF Creates, Selects, Visits, Updates, Rekeys, Archives, Activations, Toggles,
       Rotating, Rotated, Endings
  <2>2. <<"remember", "bundle", "show_key", "session">> \notin others
    BY DEF Creates, Selects, Visits, Updates, Rekeys, Archives, Activations, Toggles,
       Rotating, Rotated, Endings
  <2>3. <<"bundle", "show_key", "session">> \notin others
    BY DEF Creates, Selects, Visits, Updates, Rekeys, Archives, Activations, Toggles,
       Rotating, Rotated, Endings
  <2>4. <<"show_key", "session">> \notin others
    BY DEF Creates, Selects, Visits, Updates, Rekeys, Archives, Activations, Toggles,
       Rotating, Rotated, Endings
  <2> HIDE DEF others
  <2>5. p \notin others
    BY <1>1, <2>1, <2>2, <2>3, <2>4 DEF Setups
  <2> QED
    BY <2>5 DEF others
<1>2. ASSUME p \in Creates
      PROVE  p # <<>> /\ p \notin
             Selects \cup Visits \cup Updates \cup Rekeys \cup Archives
             \cup Activations \cup Toggles \cup Rotating \cup Rotated \cup Endings
  <2> DEFINE others == Selects \cup Visits \cup Updates \cup Rekeys
                      \cup Archives \cup Activations \cup Toggles \cup Rotating
                      \cup Rotated \cup Endings \cup {<<>>}
  <2>1. <<"truncate", "point", "create", "adopt", "remember", "bundle", "apply", "session">> \notin others
    BY DEF Selects, Visits, Updates, Rekeys, Archives, Activations, Toggles, Rotating,
       Rotated, Endings
  <2>2. <<"point", "create", "adopt", "remember", "bundle", "apply", "session">> \notin others
    BY DEF Selects, Visits, Updates, Rekeys, Archives, Activations, Toggles, Rotating,
       Rotated, Endings
  <2>3. <<"create", "adopt", "remember", "bundle", "apply", "session">> \notin others
    BY DEF Selects, Visits, Updates, Rekeys, Archives, Activations, Toggles, Rotating,
       Rotated, Endings
  <2>4. <<"adopt", "remember", "bundle", "apply", "session">> \notin others
    BY DEF Selects, Visits, Updates, Rekeys, Archives, Activations, Toggles, Rotating,
       Rotated, Endings
  <2>5. <<"remember", "bundle", "apply", "session">> \notin others
    BY DEF Selects, Visits, Updates, Rekeys, Archives, Activations, Toggles, Rotating,
       Rotated, Endings
  <2>6. <<"bundle", "apply", "session">> \notin others
    BY DEF Selects, Visits, Updates, Rekeys, Archives, Activations, Toggles, Rotating,
       Rotated, Endings
  <2>7. <<"apply", "session">> \notin others
    BY DEF Selects, Visits, Updates, Rekeys, Archives, Activations, Toggles, Rotating,
       Rotated, Endings
  <2> HIDE DEF others
  <2>8. p \notin others
    BY <1>2, <2>1, <2>2, <2>3, <2>4, <2>5, <2>6, <2>7 DEF Creates
  <2> QED
    BY <2>8 DEF others
<1>3. ASSUME p \in Selects
      PROVE  p # <<>> /\ p \notin
             Visits \cup Updates \cup Rekeys \cup Archives \cup Activations
             \cup Toggles \cup Rotating \cup Rotated \cup Endings
  <2> DEFINE others == Visits \cup Updates \cup Rekeys \cup Archives
                      \cup Activations \cup Toggles \cup Rotating \cup Rotated
                      \cup Endings \cup {<<>>}
  <2>1. <<"truncate", "point">> \notin others
    BY DEF Visits, Updates, Rekeys, Archives, Activations, Toggles, Rotating, Rotated,
       Endings
  <2>2. <<"point">> \notin others
    BY DEF Visits, Updates, Rekeys, Archives, Activations, Toggles, Rotating, Rotated,
       Endings
  <2> HIDE DEF others
  <2>3. p \notin others
    BY <1>3, <2>1, <2>2 DEF Selects
  <2> QED
    BY <2>3 DEF others
<1>4. ASSUME p \in Visits
      PROVE  p # <<>> /\ p \notin
             Updates \cup Rekeys \cup Archives \cup Activations \cup Toggles
             \cup Rotating \cup Rotated \cup Endings
  <2> DEFINE others == Updates \cup Rekeys \cup Archives \cup Activations
                      \cup Toggles \cup Rotating \cup Rotated \cup Endings \cup {<<>>}
  <2>1. <<"truncate", "point", "unlock">> \notin others
    BY DEF Updates, Rekeys, Archives, Activations, Toggles, Rotating, Rotated, Endings
  <2>2. <<"point", "unlock">> \notin others
    BY DEF Updates, Rekeys, Archives, Activations, Toggles, Rotating, Rotated, Endings
  <2>3. <<"unlock">> \notin others
    BY DEF Updates, Rekeys, Archives, Activations, Toggles, Rotating, Rotated, Endings
  <2> HIDE DEF others
  <2>4. p \notin others
    BY <1>4, <2>1, <2>2, <2>3 DEF Visits
  <2> QED
    BY <2>4 DEF others
<1>5. ASSUME p \in Updates
      PROVE  p # <<>> /\ p \notin
             Rekeys \cup Archives \cup Activations \cup Toggles \cup Rotating
             \cup Rotated \cup Endings
  <2> DEFINE others == Rekeys \cup Archives \cup Activations \cup Toggles
                      \cup Rotating \cup Rotated \cup Endings \cup {<<>>}
  <2>1. <<"truncate", "point", "unlock", "apply">> \notin others
    BY DEF Rekeys, Archives, Activations, Toggles, Rotating, Rotated, Endings
  <2>2. <<"point", "unlock", "apply">> \notin others
    BY DEF Rekeys, Archives, Activations, Toggles, Rotating, Rotated, Endings
  <2>3. <<"unlock", "apply">> \notin others
    BY DEF Rekeys, Archives, Activations, Toggles, Rotating, Rotated, Endings
  <2>4. <<"apply">> \notin others
    BY DEF Rekeys, Archives, Activations, Toggles, Rotating, Rotated, Endings
  <2> HIDE DEF others
  <2>5. p \notin others
    BY <1>5, <2>1, <2>2, <2>3, <2>4 DEF Updates
  <2> QED
    BY <2>5 DEF others
<1>6. ASSUME p \in Rekeys
      PROVE  p # <<>> /\ p \notin
             Archives \cup Activations \cup Toggles \cup Rotating \cup Rotated
             \cup Endings
  <2> DEFINE others == Archives \cup Activations \cup Toggles \cup Rotating
                      \cup Rotated \cup Endings \cup {<<>>}
  <2>1. <<"rekey", "bundle", "session">> \notin others
    BY DEF Archives, Activations, Toggles, Rotating, Rotated, Endings
  <2>2. <<"bundle", "session">> \notin others
    BY DEF Archives, Activations, Toggles, Rotating, Rotated, Endings
  <2> HIDE DEF others
  <2>3. p \notin others
    BY <1>6, <2>1, <2>2 DEF Rekeys
  <2> QED
    BY <2>3 DEF others
<1>7. ASSUME p \in Archives
      PROVE  p # <<>> /\ p \notin
             Activations \cup Toggles \cup Rotating \cup Rotated \cup Endings
  <2> DEFINE others == Activations \cup Toggles \cup Rotating \cup Rotated
                      \cup Endings \cup {<<>>}
  <2>1. <<"archive_vault", "archive_bundle">> \notin others
    BY DEF Activations, Toggles, Rotating, Rotated, Endings
  <2>2. <<"archive_bundle">> \notin others
    BY DEF Activations, Toggles, Rotating, Rotated, Endings
  <2> HIDE DEF others
  <2>3. p \notin others
    BY <1>7, <2>1, <2>2 DEF Archives
  <2> QED
    BY <2>3 DEF others
<1>8. ASSUME p \in Activations
      PROVE  p # <<>> /\ p \notin
             Toggles \cup Rotating \cup Rotated \cup Endings
  <2> DEFINE others == Toggles \cup Rotating \cup Rotated \cup Endings \cup {<<>>}
  <2>1. <<"truncate", "point", "reset">> \notin others
    BY DEF Toggles, Rotating, Rotated, Endings
  <2>2. <<"point", "reset">> \notin others
    BY DEF Toggles, Rotating, Rotated, Endings
  <2> HIDE DEF others
  <2>3. p \notin others
    BY <1>8, <2>1, <2>2 DEF Activations
  <2> QED
    BY <2>3 DEF others
<1>9. ASSUME p \in Toggles
      PROVE  p # <<>> /\ p \notin
             Rotating \cup Rotated \cup Endings
  <2> DEFINE others == Rotating \cup Rotated \cup Endings \cup {<<>>}
  <2>1. <<"next">> \notin others
    BY DEF Rotating, Rotated, Endings
  <2>2. <<"truncate", "point", "mutate", "next">> \notin others
    BY DEF Rotating, Rotated, Endings
  <2>3. <<"point", "mutate", "next">> \notin others
    BY DEF Rotating, Rotated, Endings
  <2>4. <<"mutate", "next">> \notin others
    BY DEF Rotating, Rotated, Endings
  <2>5. <<"truncate", "point", "reopen">> \notin others
    BY DEF Rotating, Rotated, Endings
  <2>6. <<"point", "reopen">> \notin others
    BY DEF Rotating, Rotated, Endings
  <2>7. <<"reopen">> \notin others
    BY DEF Rotating, Rotated, Endings
  <2> HIDE DEF others
  <2>8. p \notin others
    BY <1>9, <2>1, <2>2, <2>3, <2>4, <2>5, <2>6, <2>7 DEF Toggles
  <2> QED
    BY <2>8 DEF others
<1>10. ASSUME p \in Rotating
      PROVE  p # <<>> /\ p \notin
             Rotated \cup Endings
  <2> DEFINE others == Rotated \cup Endings \cup {<<>>}
  <2>1. <<"next", "show_key">> \notin others
    BY DEF Rotated, Endings
  <2>2. <<"truncate", "point", "mutate", "next", "show_key">> \notin others
    BY DEF Rotated, Endings
  <2>3. <<"point", "mutate", "next", "show_key">> \notin others
    BY DEF Rotated, Endings
  <2>4. <<"mutate", "next", "show_key">> \notin others
    BY DEF Rotated, Endings
  <2> HIDE DEF others
  <2>5. p \notin others
    BY <1>10, <2>1, <2>2, <2>3, <2>4 DEF Rotating
  <2> QED
    BY <2>5 DEF others
<1>11. ASSUME p \in Rotated
      PROVE  p # <<>> /\ p \notin
             Endings
  <2> DEFINE others == Endings \cup {<<>>}
  <2>1. <<"truncate", "point", "reopen", "show_key">> \notin others
    BY DEF Endings
  <2>2. <<"point", "reopen", "show_key">> \notin others
    BY DEF Endings
  <2>3. <<"reopen", "show_key">> \notin others
    BY DEF Endings
  <2>4. <<"show_key">> \notin others
    BY DEF Endings
  <2> HIDE DEF others
  <2>5. p \notin others
    BY <1>11, <2>1, <2>2, <2>3, <2>4 DEF Rotated
  <2> QED
    BY <2>5 DEF others
<1>12. p \in Endings => p # <<>>
  BY DEF Endings
<1> QED
  BY <1>1, <1>2, <1>3, <1>4, <1>5, <1>6, <1>7, <1>8, <1>9, <1>10, <1>11, <1>12

\* Which plans go on with a step, and what they leave after it.
LEMMA AfterCreate ==
    ASSUME NEW p \in Plans, p # <<>>, Head(p) = "create"
    PROVE  \/ p \in Setups /\ Tail(p) \in Setups /\ Tail(p) # <<>> /\ Head(Tail(p)) = "remember"
           \/ p \in Creates /\ Tail(p) \in Creates /\ Tail(p) # <<>> /\ Head(Tail(p)) = "adopt"
<1>1. p \in {<<"create", "remember", "bundle", "show_key", "session">>,
            <<"create", "adopt", "remember", "bundle", "apply", "session">>}
  BY DEF Plans, Setups, Creates, Selects, Visits, Updates, Rekeys, Archives, Activations,
     Toggles, Rotating, Rotated, Endings
<1>2. /\ Tail(<<"create", "remember", "bundle", "show_key", "session">>) =
             <<"remember", "bundle", "show_key", "session">>
      /\ Tail(<<"create", "adopt", "remember", "bundle", "apply", "session">>) =
             <<"adopt", "remember", "bundle", "apply", "session">>
  OBVIOUS
<1>3. /\ <<"remember", "bundle", "show_key", "session">> # <<>>
      /\ Head(<<"remember", "bundle", "show_key", "session">>) = "remember"
      /\ <<"adopt", "remember", "bundle", "apply", "session">> # <<>>
      /\ Head(<<"adopt", "remember", "bundle", "apply", "session">>) = "adopt"
  OBVIOUS
<1> QED
  BY <1>1, <1>2, <1>3 DEF Setups, Creates

LEMMA AfterRemember ==
    ASSUME NEW p \in Plans, p # <<>>, Head(p) = "remember"
    PROVE  \/ p \in Setups /\ Tail(p) \in Setups /\ Tail(p) # <<>> /\ Head(Tail(p)) = "bundle"
           \/ p \in Creates /\ Tail(p) \in Creates /\ Tail(p) # <<>> /\ Head(Tail(p)) = "bundle"
<1>1. p \in {<<"remember", "bundle", "show_key", "session">>,
            <<"remember", "bundle", "apply", "session">>}
  BY DEF Plans, Setups, Creates, Selects, Visits, Updates, Rekeys, Archives, Activations,
     Toggles, Rotating, Rotated, Endings
<1>2. /\ Tail(<<"remember", "bundle", "show_key", "session">>) =
             <<"bundle", "show_key", "session">>
      /\ Tail(<<"remember", "bundle", "apply", "session">>) = <<"bundle", "apply", "session">>
  OBVIOUS
<1>3. /\ <<"bundle", "show_key", "session">> # <<>>
      /\ Head(<<"bundle", "show_key", "session">>) = "bundle"
      /\ <<"bundle", "apply", "session">> # <<>>
      /\ Head(<<"bundle", "apply", "session">>) = "bundle"
  OBVIOUS
<1> QED
  BY <1>1, <1>2, <1>3 DEF Setups, Creates

LEMMA AfterBundle ==
    ASSUME NEW p \in Plans, p # <<>>, Head(p) = "bundle"
    PROVE  \/ p \in Setups /\ Tail(p) \in Setups /\ Tail(p) # <<>> /\ Head(Tail(p)) = "show_key"
           \/ p \in Creates /\ Tail(p) \in Creates /\ Tail(p) # <<>> /\ Head(Tail(p)) = "apply"
           \/ p \in Rekeys /\ Tail(p) \in Endings /\ Tail(p) # <<>> /\ Head(Tail(p)) = "session"
<1>1. p \in {<<"bundle", "show_key", "session">>,
            <<"bundle", "apply", "session">>,
            <<"bundle", "session">>}
  BY DEF Plans, Setups, Creates, Selects, Visits, Updates, Rekeys, Archives, Activations,
     Toggles, Rotating, Rotated, Endings
<1>2. /\ Tail(<<"bundle", "show_key", "session">>) = <<"show_key", "session">>
      /\ Tail(<<"bundle", "apply", "session">>) = <<"apply", "session">>
      /\ Tail(<<"bundle", "session">>) = <<"session">>
  OBVIOUS
<1>3. /\ <<"show_key", "session">> # <<>> /\ Head(<<"show_key", "session">>) = "show_key"
      /\ <<"apply", "session">> # <<>> /\ Head(<<"apply", "session">>) = "apply"
      /\ <<"session">> # <<>> /\ Head(<<"session">>) = "session"
  OBVIOUS
<1> QED
  BY <1>1, <1>2, <1>3 DEF Setups, Creates, Rekeys, Endings

LEMMA AfterShowKey ==
    ASSUME NEW p \in Plans, p # <<>>, Head(p) = "show_key"
    PROVE  \/ p \in Setups /\ Tail(p) \in Endings /\ Tail(p) # <<>> /\ Head(Tail(p)) = "session"
           \/ p \in Rotated /\ Tail(p) = <<>>
<1>1. p \in {<<"show_key", "session">>,
            <<"show_key">>}
  BY DEF Plans, Setups, Creates, Selects, Visits, Updates, Rekeys, Archives, Activations,
     Toggles, Rotating, Rotated, Endings
<1>2. /\ Tail(<<"show_key", "session">>) = <<"session">>
      /\ Tail(<<"show_key">>) = <<>>
  OBVIOUS
<1>3. <<"session">> # <<>> /\ Head(<<"session">>) = "session"
  OBVIOUS
<1> QED
  BY <1>1, <1>2, <1>3 DEF Setups, Rotated, Endings

LEMMA AfterTruncate ==
    ASSUME NEW p \in Plans, p # <<>>, Head(p) = "truncate"
    PROVE  \/ p \in Creates /\ Tail(p) \in Creates /\ Tail(p) # <<>> /\ Head(Tail(p)) = "point"
           \/ p \in Selects /\ Tail(p) \in Selects /\ Tail(p) # <<>> /\ Head(Tail(p)) = "point"
           \/ p \in Visits /\ Tail(p) \in Visits /\ Tail(p) # <<>> /\ Head(Tail(p)) = "point"
           \/ p \in Updates /\ Tail(p) \in Updates /\ Tail(p) # <<>> /\ Head(Tail(p)) = "point"
           \/ p \in Activations /\ Tail(p) \in Activations /\ Tail(p) # <<>>
                 /\ Head(Tail(p)) = "point"
           \/ p \in Toggles /\ Tail(p) \in Toggles /\ Tail(p) # <<>> /\ Head(Tail(p)) = "point"
           \/ p \in Rotating /\ Tail(p) \in Rotating /\ Tail(p) # <<>> /\ Head(Tail(p)) = "point"
           \/ p \in Rotated /\ Tail(p) \in Rotated /\ Tail(p) # <<>> /\ Head(Tail(p)) = "point"
<1>1. p \in {<<"truncate", "point", "create", "adopt", "remember", "bundle", "apply", "session">>,
            <<"truncate", "point">>,
            <<"truncate", "point", "unlock">>,
            <<"truncate", "point", "unlock", "apply">>,
            <<"truncate", "point", "reset">>,
            <<"truncate", "point", "mutate", "next">>,
            <<"truncate", "point", "reopen">>,
            <<"truncate", "point", "mutate", "next", "show_key">>,
            <<"truncate", "point", "reopen", "show_key">>}
  BY DEF Plans, Setups, Creates, Selects, Visits, Updates, Rekeys, Archives, Activations,
     Toggles, Rotating, Rotated, Endings
<1>2. /\ Tail(<<"truncate", "point", "create", "adopt", "remember", "bundle", "apply", "session">>) =
             <<"point", "create", "adopt", "remember", "bundle", "apply", "session">>
      /\ Tail(<<"truncate", "point">>) = <<"point">>
      /\ Tail(<<"truncate", "point", "unlock">>) = <<"point", "unlock">>
      /\ Tail(<<"truncate", "point", "unlock", "apply">>) = <<"point", "unlock", "apply">>
      /\ Tail(<<"truncate", "point", "reset">>) = <<"point", "reset">>
      /\ Tail(<<"truncate", "point", "mutate", "next">>) = <<"point", "mutate", "next">>
      /\ Tail(<<"truncate", "point", "reopen">>) = <<"point", "reopen">>
      /\ Tail(<<"truncate", "point", "mutate", "next", "show_key">>) =
             <<"point", "mutate", "next", "show_key">>
      /\ Tail(<<"truncate", "point", "reopen", "show_key">>) = <<"point", "reopen", "show_key">>
  OBVIOUS
<1>3. /\ <<"point", "create", "adopt", "remember", "bundle", "apply", "session">> # <<>>
      /\ Head(<<"point", "create", "adopt", "remember", "bundle", "apply", "session">>) = "point"
      /\ <<"point">> # <<>> /\ Head(<<"point">>) = "point"
      /\ <<"point", "unlock">> # <<>> /\ Head(<<"point", "unlock">>) = "point"
      /\ <<"point", "unlock", "apply">> # <<>> /\ Head(<<"point", "unlock", "apply">>) = "point"
      /\ <<"point", "reset">> # <<>> /\ Head(<<"point", "reset">>) = "point"
      /\ <<"point", "mutate", "next">> # <<>> /\ Head(<<"point", "mutate", "next">>) = "point"
      /\ <<"point", "reopen">> # <<>> /\ Head(<<"point", "reopen">>) = "point"
      /\ <<"point", "mutate", "next", "show_key">> # <<>>
      /\ Head(<<"point", "mutate", "next", "show_key">>) = "point"
      /\ <<"point", "reopen", "show_key">> # <<>>
      /\ Head(<<"point", "reopen", "show_key">>) = "point"
  OBVIOUS
<1> QED
  BY <1>1, <1>2, <1>3, ZenonT(60)
     DEF Creates, Selects, Visits, Updates, Activations, Toggles, Rotating, Rotated

LEMMA AfterPoint ==
    ASSUME NEW p \in Plans, p # <<>>, Head(p) = "point"
    PROVE  \/ p \in Creates /\ Tail(p) \in Creates /\ Tail(p) # <<>> /\ Head(Tail(p)) = "create"
           \/ p \in Selects /\ Tail(p) = <<>>
           \/ p \in Visits /\ Tail(p) \in Visits /\ Tail(p) # <<>> /\ Head(Tail(p)) = "unlock"
           \/ p \in Updates /\ Tail(p) \in Updates /\ Tail(p) # <<>> /\ Head(Tail(p)) = "unlock"
           \/ p \in Activations /\ Tail(p) \in Endings /\ Tail(p) # <<>>
                 /\ Head(Tail(p)) = "reset"
           \/ p \in Toggles /\ Tail(p) \in Toggles /\ Tail(p) # <<>> /\ Head(Tail(p)) = "mutate"
           \/ p \in Toggles /\ Tail(p) \in Toggles /\ Tail(p) # <<>> /\ Head(Tail(p)) = "reopen"
           \/ p \in Rotating /\ Tail(p) \in Rotating /\ Tail(p) # <<>> /\ Head(Tail(p)) = "mutate"
           \/ p \in Rotated /\ Tail(p) \in Rotated /\ Tail(p) # <<>> /\ Head(Tail(p)) = "reopen"
<1>1. p \in {<<"point", "create", "adopt", "remember", "bundle", "apply", "session">>,
            <<"point">>,
            <<"point", "unlock">>,
            <<"point", "unlock", "apply">>,
            <<"point", "reset">>,
            <<"point", "mutate", "next">>,
            <<"point", "reopen">>,
            <<"point", "mutate", "next", "show_key">>,
            <<"point", "reopen", "show_key">>}
  BY DEF Plans, Setups, Creates, Selects, Visits, Updates, Rekeys, Archives, Activations,
     Toggles, Rotating, Rotated, Endings
<1>2. /\ Tail(<<"point", "create", "adopt", "remember", "bundle", "apply", "session">>) =
             <<"create", "adopt", "remember", "bundle", "apply", "session">>
      /\ Tail(<<"point">>) = <<>>
      /\ Tail(<<"point", "unlock">>) = <<"unlock">>
      /\ Tail(<<"point", "unlock", "apply">>) = <<"unlock", "apply">>
      /\ Tail(<<"point", "reset">>) = <<"reset">>
      /\ Tail(<<"point", "mutate", "next">>) = <<"mutate", "next">>
      /\ Tail(<<"point", "reopen">>) = <<"reopen">>
      /\ Tail(<<"point", "mutate", "next", "show_key">>) = <<"mutate", "next", "show_key">>
      /\ Tail(<<"point", "reopen", "show_key">>) = <<"reopen", "show_key">>
  OBVIOUS
<1>3. /\ <<"create", "adopt", "remember", "bundle", "apply", "session">> # <<>>
      /\ Head(<<"create", "adopt", "remember", "bundle", "apply", "session">>) = "create"
      /\ <<"unlock">> # <<>> /\ Head(<<"unlock">>) = "unlock"
      /\ <<"unlock", "apply">> # <<>> /\ Head(<<"unlock", "apply">>) = "unlock"
      /\ <<"reset">> # <<>> /\ Head(<<"reset">>) = "reset"
      /\ <<"mutate", "next">> # <<>> /\ Head(<<"mutate", "next">>) = "mutate"
      /\ <<"reopen">> # <<>> /\ Head(<<"reopen">>) = "reopen"
      /\ <<"mutate", "next", "show_key">> # <<>>
      /\ Head(<<"mutate", "next", "show_key">>) = "mutate"
      /\ <<"reopen", "show_key">> # <<>> /\ Head(<<"reopen", "show_key">>) = "reopen"
  OBVIOUS
<1> QED
  BY <1>1, <1>2, <1>3, ZenonT(60)
     DEF Creates, Selects, Visits, Updates, Activations, Toggles, Rotating, Rotated,
     Endings

LEMMA AfterAdopt ==
    ASSUME NEW p \in Plans, p # <<>>, Head(p) = "adopt"
    PROVE  p \in Creates /\ Tail(p) \in Creates /\ Tail(p) # <<>> /\ Head(Tail(p)) = "remember"
<1>1. p \in {<<"adopt", "remember", "bundle", "apply", "session">>}
  BY DEF Plans, Setups, Creates, Selects, Visits, Updates, Rekeys, Archives, Activations,
     Toggles, Rotating, Rotated, Endings
<1>2. Tail(<<"adopt", "remember", "bundle", "apply", "session">>) =
          <<"remember", "bundle", "apply", "session">>
  OBVIOUS
<1>3. /\ <<"remember", "bundle", "apply", "session">> # <<>>
      /\ Head(<<"remember", "bundle", "apply", "session">>) = "remember"
  OBVIOUS
<1> QED
  BY <1>1, <1>2, <1>3 DEF Creates

LEMMA AfterApply ==
    ASSUME NEW p \in Plans, p # <<>>, Head(p) = "apply"
    PROVE  \/ p \in Creates /\ Tail(p) \in Endings /\ Tail(p) # <<>> /\ Head(Tail(p)) = "session"
           \/ p \in Updates /\ Tail(p) = <<>>
<1>1. p \in {<<"apply", "session">>,
            <<"apply">>}
  BY DEF Plans, Setups, Creates, Selects, Visits, Updates, Rekeys, Archives, Activations,
     Toggles, Rotating, Rotated, Endings
<1>2. /\ Tail(<<"apply", "session">>) = <<"session">>
      /\ Tail(<<"apply">>) = <<>>
  OBVIOUS
<1>3. <<"session">> # <<>> /\ Head(<<"session">>) = "session"
  OBVIOUS
<1> QED
  BY <1>1, <1>2, <1>3 DEF Creates, Updates, Endings

LEMMA AfterUnlock ==
    ASSUME NEW p \in Plans, p # <<>>, Head(p) = "unlock"
    PROVE  \/ p \in Visits /\ Tail(p) = <<>>
           \/ p \in Updates /\ Tail(p) \in Updates /\ Tail(p) # <<>> /\ Head(Tail(p)) = "apply"
<1>1. p \in {<<"unlock">>,
            <<"unlock", "apply">>}
  BY DEF Plans, Setups, Creates, Selects, Visits, Updates, Rekeys, Archives, Activations,
     Toggles, Rotating, Rotated, Endings
<1>2. /\ Tail(<<"unlock">>) = <<>>
      /\ Tail(<<"unlock", "apply">>) = <<"apply">>
  OBVIOUS
<1>3. <<"apply">> # <<>> /\ Head(<<"apply">>) = "apply"
  OBVIOUS
<1> QED
  BY <1>1, <1>2, <1>3 DEF Visits, Updates

LEMMA AfterRekey ==
    ASSUME NEW p \in Plans, p # <<>>, Head(p) = "rekey"
    PROVE  p \in Rekeys /\ Tail(p) \in Rekeys /\ Tail(p) # <<>> /\ Head(Tail(p)) = "bundle"
<1>1. p \in {<<"rekey", "bundle", "session">>}
  BY DEF Plans, Setups, Creates, Selects, Visits, Updates, Rekeys, Archives, Activations,
     Toggles, Rotating, Rotated, Endings
<1>2. Tail(<<"rekey", "bundle", "session">>) = <<"bundle", "session">>
  OBVIOUS
<1>3. <<"bundle", "session">> # <<>> /\ Head(<<"bundle", "session">>) = "bundle"
  OBVIOUS
<1> QED
  BY <1>1, <1>2, <1>3 DEF Rekeys

LEMMA AfterArchiveVault ==
    ASSUME NEW p \in Plans, p # <<>>, Head(p) = "archive_vault"
    PROVE  /\ p \in Archives /\ Tail(p) \in Archives /\ Tail(p) # <<>>
           /\ Head(Tail(p)) = "archive_bundle"
<1>1. p \in {<<"archive_vault", "archive_bundle">>}
  BY DEF Plans, Setups, Creates, Selects, Visits, Updates, Rekeys, Archives, Activations,
     Toggles, Rotating, Rotated, Endings
<1>2. Tail(<<"archive_vault", "archive_bundle">>) = <<"archive_bundle">>
  OBVIOUS
<1>3. <<"archive_bundle">> # <<>> /\ Head(<<"archive_bundle">>) = "archive_bundle"
  OBVIOUS
<1> QED
  BY <1>1, <1>2, <1>3 DEF Archives

LEMMA AfterArchiveBundle ==
    ASSUME NEW p \in Plans, p # <<>>, Head(p) = "archive_bundle"
    PROVE  p \in Archives /\ Tail(p) = <<>>
<1>1. p \in {<<"archive_bundle">>}
  BY DEF Plans, Setups, Creates, Selects, Visits, Updates, Rekeys, Archives, Activations,
     Toggles, Rotating, Rotated, Endings
<1>2. Tail(<<"archive_bundle">>) = <<>>
  OBVIOUS
<1> QED
  BY <1>1, <1>2 DEF Archives

LEMMA AfterNext ==
    ASSUME NEW p \in Plans, p # <<>>, Head(p) = "next"
    PROVE  \/ p \in Toggles /\ Tail(p) = <<>>
           \/ p \in Rotating /\ Tail(p) \in Rotated /\ Tail(p) # <<>>
                 /\ Head(Tail(p)) = "show_key"
<1>1. p \in {<<"next">>,
            <<"next", "show_key">>}
  BY DEF Plans, Setups, Creates, Selects, Visits, Updates, Rekeys, Archives, Activations,
     Toggles, Rotating, Rotated, Endings
<1>2. /\ Tail(<<"next">>) = <<>>
      /\ Tail(<<"next", "show_key">>) = <<"show_key">>
  OBVIOUS
<1>3. <<"show_key">> # <<>> /\ Head(<<"show_key">>) = "show_key"
  OBVIOUS
<1> QED
  BY <1>1, <1>2, <1>3 DEF Toggles, Rotating, Rotated

LEMMA AfterMutate ==
    ASSUME NEW p \in Plans, p # <<>>, Head(p) = "mutate"
    PROVE  \/ p \in Toggles /\ Tail(p) \in Toggles /\ Tail(p) # <<>> /\ Head(Tail(p)) = "next"
           \/ p \in Rotating /\ Tail(p) \in Rotating /\ Tail(p) # <<>> /\ Head(Tail(p)) = "next"
<1>1. p \in {<<"mutate", "next">>,
            <<"mutate", "next", "show_key">>}
  BY DEF Plans, Setups, Creates, Selects, Visits, Updates, Rekeys, Archives, Activations,
     Toggles, Rotating, Rotated, Endings
<1>2. /\ Tail(<<"mutate", "next">>) = <<"next">>
      /\ Tail(<<"mutate", "next", "show_key">>) = <<"next", "show_key">>
  OBVIOUS
<1>3. /\ <<"next">> # <<>> /\ Head(<<"next">>) = "next"
      /\ <<"next", "show_key">> # <<>> /\ Head(<<"next", "show_key">>) = "next"
  OBVIOUS
<1> QED
  BY <1>1, <1>2, <1>3 DEF Toggles, Rotating

LEMMA AfterReopen ==
    ASSUME NEW p \in Plans, p # <<>>, Head(p) = "reopen"
    PROVE  \/ p \in Toggles /\ Tail(p) = <<>>
           \/ p \in Rotated /\ Tail(p) \in Rotated /\ Tail(p) # <<>> /\ Head(Tail(p)) = "show_key"
<1>1. p \in {<<"reopen">>,
            <<"reopen", "show_key">>}
  BY DEF Plans, Setups, Creates, Selects, Visits, Updates, Rekeys, Archives, Activations,
     Toggles, Rotating, Rotated, Endings
<1>2. /\ Tail(<<"reopen">>) = <<>>
      /\ Tail(<<"reopen", "show_key">>) = <<"show_key">>
  OBVIOUS
<1>3. <<"show_key">> # <<>> /\ Head(<<"show_key">>) = "show_key"
  OBVIOUS
<1> QED
  BY <1>1, <1>2, <1>3 DEF Toggles, Rotated

LEMMA AfterSession ==
    ASSUME NEW p \in Plans, p # <<>>, Head(p) = "session"
    PROVE  p \in Endings /\ Tail(p) = <<>>
<1>1. p \in {<<"session">>}
  BY DEF Plans, Setups, Creates, Selects, Visits, Updates, Rekeys, Archives, Activations,
     Toggles, Rotating, Rotated, Endings
<1>2. Tail(<<"session">>) = <<>>
  OBVIOUS
<1> QED
  BY <1>1, <1>2 DEF Endings

LEMMA AfterSettings ==
    ASSUME NEW p \in Plans, p # <<>>, Head(p) = "settings"
    PROVE  p \in Endings /\ Tail(p) = <<>>
<1>1. p \in {<<"settings">>}
  BY DEF Plans, Setups, Creates, Selects, Visits, Updates, Rekeys, Archives, Activations,
     Toggles, Rotating, Rotated, Endings
<1>2. Tail(<<"settings">>) = <<>>
  OBVIOUS
<1> QED
  BY <1>1, <1>2 DEF Endings

LEMMA AfterReset ==
    ASSUME NEW p \in Plans, p # <<>>, Head(p) = "reset"
    PROVE  p \in Endings /\ Tail(p) = <<>>
<1>1. p \in {<<"reset">>}
  BY DEF Plans, Setups, Creates, Selects, Visits, Updates, Rekeys, Archives, Activations,
     Toggles, Rotating, Rotated, Endings
<1>2. Tail(<<"reset">>) = <<>>
  OBVIOUS
<1> QED
  BY <1>1, <1>2 DEF Endings

\* How the handlers put their steps together.
LEMMA OneStepMore ==
    ASSUME NEW a, NEW b
    PROVE  <<>> \o <<a>> = <<a>> /\ <<a>> \o <<>> = <<a>> /\ <<a>> \o <<b>> = <<a, b>>
<1>1. <<>> \o <<a>> = <<a>>
  <2> DEFINE s == <<>> \o <<a>>
  <2>1. /\ s \in Seq({a}) /\ Len(s) = 1 /\ s[1] = a
    OBVIOUS
  <2> HIDE DEF s
  <2>2. s = <<a>>
    BY <2>1
  <2> QED
    BY <2>2 DEF s
<1>2. <<a>> \o <<>> = <<a>>
  <2> DEFINE s == <<a>> \o <<>>
  <2>1. /\ s \in Seq({a}) /\ Len(s) = 1 /\ s[1] = a
    OBVIOUS
  <2> HIDE DEF s
  <2>2. s = <<a>>
    BY <2>1
  <2> QED
    BY <2>2 DEF s
<1>3. <<a>> \o <<b>> = <<a, b>>
  <2> DEFINE s == <<a>> \o <<b>>
  <2>1. /\ s \in Seq({a, b}) /\ Len(s) = 2 /\ s[1] = a /\ s[2] = b
    OBVIOUS
  <2> HIDE DEF s
  <2>2. s = <<a, b>>
    BY <2>1
  <2> QED
    BY <2>2 DEF s
<1> QED
  BY <1>1, <1>2, <1>3

\* The concatenations the handlers build their plans with.
LEMMA Concatenations ==
    /\ <<"truncate", "point">> \o <<"create", "adopt", "remember", "bundle", "apply", "session">> =
         <<"truncate", "point", "create", "adopt", "remember", "bundle", "apply", "session">>
    /\ <<"truncate", "point">> \o <<"unlock">> =
         <<"truncate", "point", "unlock">>
    /\ <<"truncate", "point">> \o <<"reset">> =
         <<"truncate", "point", "reset">>
    /\ <<"truncate", "point">> \o <<"mutate">> =
         <<"truncate", "point", "mutate">>
    /\ <<"truncate", "point">> \o <<"reopen">> =
         <<"truncate", "point", "reopen">>
    /\ <<"unlock">> \o <<"apply">> =
         <<"unlock", "apply">>
    /\ <<"truncate", "point", "unlock">> \o <<"apply">> =
         <<"truncate", "point", "unlock", "apply">>
    /\ <<"truncate", "point", "mutate">> \o <<"next">> =
         <<"truncate", "point", "mutate", "next">>
    /\ <<"truncate", "point", "mutate">> \o <<"next", "show_key">> =
         <<"truncate", "point", "mutate", "next", "show_key">>
    /\ <<"truncate", "point", "reopen">> \o <<>> =
         <<"truncate", "point", "reopen">>
    /\ <<"truncate", "point", "reopen">> \o <<"show_key">> =
         <<"truncate", "point", "reopen", "show_key">>
    /\ <<"next">> \o <<>> =
         <<"next">>
    /\ <<"next">> \o <<"show_key">> =
         <<"next", "show_key">>
<1>1. <<"truncate", "point">> \o <<"create", "adopt", "remember", "bundle", "apply", "session">> =
        <<"truncate", "point", "create", "adopt", "remember", "bundle", "apply", "session">>
  <2> DEFINE s == <<"truncate", "point">> \o <<"create", "adopt", "remember", "bundle", "apply", "session">>
  <2>1. /\ s \in Seq(StepNames) /\ Len(s) = 8 /\ s[1] = "truncate" /\ s[2] = "point"
        /\ s[3] = "create" /\ s[4] = "adopt" /\ s[5] = "remember" /\ s[6] = "bundle"
        /\ s[7] = "apply" /\ s[8] = "session"
    BY DEF StepNames
  <2> HIDE DEF s
  <2>2. s = <<"truncate", "point", "create", "adopt", "remember", "bundle", "apply", "session">>
    BY <2>1
  <2> QED
    BY <2>2 DEF s
<1>2. <<"truncate", "point">> \o <<"unlock">> =
        <<"truncate", "point", "unlock">>
  <2> DEFINE s == <<"truncate", "point">> \o <<"unlock">>
  <2>1. /\ s \in Seq(StepNames) /\ Len(s) = 3 /\ s[1] = "truncate" /\ s[2] = "point"
        /\ s[3] = "unlock"
    BY DEF StepNames
  <2> HIDE DEF s
  <2>2. s = <<"truncate", "point", "unlock">>
    BY <2>1
  <2> QED
    BY <2>2 DEF s
<1>3. <<"truncate", "point">> \o <<"reset">> =
        <<"truncate", "point", "reset">>
  <2> DEFINE s == <<"truncate", "point">> \o <<"reset">>
  <2>1. /\ s \in Seq(StepNames) /\ Len(s) = 3 /\ s[1] = "truncate" /\ s[2] = "point"
        /\ s[3] = "reset"
    BY DEF StepNames
  <2> HIDE DEF s
  <2>2. s = <<"truncate", "point", "reset">>
    BY <2>1
  <2> QED
    BY <2>2 DEF s
<1>4. <<"truncate", "point">> \o <<"mutate">> =
        <<"truncate", "point", "mutate">>
  <2> DEFINE s == <<"truncate", "point">> \o <<"mutate">>
  <2>1. /\ s \in Seq(StepNames) /\ Len(s) = 3 /\ s[1] = "truncate" /\ s[2] = "point"
        /\ s[3] = "mutate"
    BY DEF StepNames
  <2> HIDE DEF s
  <2>2. s = <<"truncate", "point", "mutate">>
    BY <2>1
  <2> QED
    BY <2>2 DEF s
<1>5. <<"truncate", "point">> \o <<"reopen">> =
        <<"truncate", "point", "reopen">>
  <2> DEFINE s == <<"truncate", "point">> \o <<"reopen">>
  <2>1. /\ s \in Seq(StepNames) /\ Len(s) = 3 /\ s[1] = "truncate" /\ s[2] = "point"
        /\ s[3] = "reopen"
    BY DEF StepNames
  <2> HIDE DEF s
  <2>2. s = <<"truncate", "point", "reopen">>
    BY <2>1
  <2> QED
    BY <2>2 DEF s
<1>6. <<"unlock">> \o <<"apply">> =
        <<"unlock", "apply">>
  <2> DEFINE s == <<"unlock">> \o <<"apply">>
  <2>1. /\ s \in Seq(StepNames) /\ Len(s) = 2 /\ s[1] = "unlock" /\ s[2] = "apply"
    BY DEF StepNames
  <2> HIDE DEF s
  <2>2. s = <<"unlock", "apply">>
    BY <2>1
  <2> QED
    BY <2>2 DEF s
<1>7. <<"truncate", "point", "unlock">> \o <<"apply">> =
        <<"truncate", "point", "unlock", "apply">>
  <2> DEFINE s == <<"truncate", "point", "unlock">> \o <<"apply">>
  <2>1. /\ s \in Seq(StepNames) /\ Len(s) = 4 /\ s[1] = "truncate" /\ s[2] = "point"
        /\ s[3] = "unlock" /\ s[4] = "apply"
    BY DEF StepNames
  <2> HIDE DEF s
  <2>2. s = <<"truncate", "point", "unlock", "apply">>
    BY <2>1
  <2> QED
    BY <2>2 DEF s
<1>8. <<"truncate", "point", "mutate">> \o <<"next">> =
        <<"truncate", "point", "mutate", "next">>
  <2> DEFINE s == <<"truncate", "point", "mutate">> \o <<"next">>
  <2>1. /\ s \in Seq(StepNames) /\ Len(s) = 4 /\ s[1] = "truncate" /\ s[2] = "point"
        /\ s[3] = "mutate" /\ s[4] = "next"
    BY DEF StepNames
  <2> HIDE DEF s
  <2>2. s = <<"truncate", "point", "mutate", "next">>
    BY <2>1
  <2> QED
    BY <2>2 DEF s
<1>9. <<"truncate", "point", "mutate">> \o <<"next", "show_key">> =
        <<"truncate", "point", "mutate", "next", "show_key">>
  <2> DEFINE s == <<"truncate", "point", "mutate">> \o <<"next", "show_key">>
  <2>1. /\ s \in Seq(StepNames) /\ Len(s) = 5 /\ s[1] = "truncate" /\ s[2] = "point"
        /\ s[3] = "mutate" /\ s[4] = "next" /\ s[5] = "show_key"
    BY DEF StepNames
  <2> HIDE DEF s
  <2>2. s = <<"truncate", "point", "mutate", "next", "show_key">>
    BY <2>1
  <2> QED
    BY <2>2 DEF s
<1>10. <<"truncate", "point", "reopen">> \o <<>> =
        <<"truncate", "point", "reopen">>
  <2> DEFINE s == <<"truncate", "point", "reopen">> \o <<>>
  <2>1. /\ s \in Seq(StepNames) /\ Len(s) = 3 /\ s[1] = "truncate" /\ s[2] = "point"
        /\ s[3] = "reopen"
    BY DEF StepNames
  <2> HIDE DEF s
  <2>2. s = <<"truncate", "point", "reopen">>
    BY <2>1
  <2> QED
    BY <2>2 DEF s
<1>11. <<"truncate", "point", "reopen">> \o <<"show_key">> =
        <<"truncate", "point", "reopen", "show_key">>
  <2> DEFINE s == <<"truncate", "point", "reopen">> \o <<"show_key">>
  <2>1. /\ s \in Seq(StepNames) /\ Len(s) = 4 /\ s[1] = "truncate" /\ s[2] = "point"
        /\ s[3] = "reopen" /\ s[4] = "show_key"
    BY DEF StepNames
  <2> HIDE DEF s
  <2>2. s = <<"truncate", "point", "reopen", "show_key">>
    BY <2>1
  <2> QED
    BY <2>2 DEF s
<1>12. <<"next">> \o <<>> =
        <<"next">>
  <2> DEFINE s == <<"next">> \o <<>>
  <2>1. /\ s \in Seq(StepNames) /\ Len(s) = 1 /\ s[1] = "next"
    BY DEF StepNames
  <2> HIDE DEF s
  <2>2. s = <<"next">>
    BY <2>1
  <2> QED
    BY <2>2 DEF s
<1>13. <<"next">> \o <<"show_key">> =
        <<"next", "show_key">>
  <2> DEFINE s == <<"next">> \o <<"show_key">>
  <2>1. /\ s \in Seq(StepNames) /\ Len(s) = 2 /\ s[1] = "next" /\ s[2] = "show_key"
    BY DEF StepNames
  <2> HIDE DEF s
  <2>2. s = <<"next", "show_key">>
    BY <2>1
  <2> QED
    BY <2>2 DEF s
<1> QED
  BY <1>1, <1>2, <1>3, <1>4, <1>5, <1>6, <1>7, <1>8, <1>9, <1>10, <1>11, <1>12, <1>13

\* The plans that begin with the steps of ensure_profile_active_and_unlocked.
LEMMA EnsurePlans ==
    ASSUME NEW n
    PROVE  EnsureSteps(n) = IF Active = n THEN <<"unlock">> ELSE <<"truncate", "point", "unlock">>
BY OneStepMore, Concatenations DEF EnsureSteps, SwitchSteps

\* The first step of each handler.
LEMMA EnsureFirst ==
    ASSUME NEW n
    PROVE  /\ EnsureSteps(n) \in Visits
           /\ EnsureSteps(n) # <<>>
           /\ Head(EnsureSteps(n)) = IF Active = n THEN "unlock" ELSE "truncate"
           /\ EnsureSteps(n) \o <<"apply">> \in Updates
           /\ EnsureSteps(n) \o <<"apply">> # <<>>
           /\ Head(EnsureSteps(n) \o <<"apply">>) = IF Active = n THEN "unlock" ELSE "truncate"
<1>1. CASE Active = n
  <2>1. EnsureSteps(n) = <<"unlock">>
    BY <1>1, EnsurePlans
  <2>2. EnsureSteps(n) \o <<"apply">> = <<"unlock", "apply">>
    BY <2>1, Concatenations
  <2>3. /\ <<"unlock">> # <<>> /\ Head(<<"unlock">>) = "unlock"
        /\ <<"unlock", "apply">> # <<>> /\ Head(<<"unlock", "apply">>) = "unlock"
    OBVIOUS
  <2> QED
    BY <1>1, <2>1, <2>2, <2>3 DEF Visits, Updates
<1>2. CASE Active # n
  <2>1. EnsureSteps(n) = <<"truncate", "point", "unlock">>
    BY <1>2, EnsurePlans
  <2>2. EnsureSteps(n) \o <<"apply">> = <<"truncate", "point", "unlock", "apply">>
    BY <2>1, Concatenations
  <2>3. /\ <<"truncate", "point", "unlock">> # <<>>
        /\ Head(<<"truncate", "point", "unlock">>) = "truncate"
        /\ <<"truncate", "point", "unlock", "apply">> # <<>>
        /\ Head(<<"truncate", "point", "unlock", "apply">>) = "truncate"
    OBVIOUS
  <2> QED
    BY <1>2, <2>1, <2>2, <2>3 DEF Visits, Updates
<1> QED
  BY <1>1, <1>2

\* Each request starts a plan of its family at its first step.
LEMMA FirstSteps ==
    LET First(p, plans, step) == p \in plans /\ p # <<>> /\ Head(p) = step IN
    /\ First(<<"create", "remember", "bundle", "show_key", "session">>, Setups, "create")
    /\ First(SwitchSteps, Selects, "truncate")
    /\ First(SwitchSteps \o <<"create", "adopt", "remember", "bundle", "apply", "session">>,
             Creates, "truncate")
    /\ First(SwitchSteps \o <<"reset">>, Activations, "truncate")
    /\ First(<<"rekey", "bundle", "session">>, Rekeys, "rekey")
    /\ First(<<"archive_vault", "archive_bundle">>, Archives, "archive_vault")
    /\ First(<<"settings">>, Endings, "settings")
    /\ First(<<"next">> \o <<>>, Toggles, "next")
    /\ First(<<"next">> \o <<"show_key">>, Rotating, "next")
<1>1. /\ <<"create", "remember", "bundle", "show_key", "session">> \in Setups
      /\ <<"create", "remember", "bundle", "show_key", "session">> # <<>>
      /\ Head(<<"create", "remember", "bundle", "show_key", "session">>) = "create"
  BY DEF Setups
<1>2. /\ <<"truncate", "point">> \in Selects /\ <<"truncate", "point">> # <<>>
      /\ Head(<<"truncate", "point">>) = "truncate"
  BY DEF Selects
<1>3. /\ <<"truncate", "point", "create", "adopt", "remember", "bundle", "apply", "session">> \in Creates
      /\ <<"truncate", "point", "create", "adopt", "remember", "bundle", "apply", "session">> # <<>>
      /\ Head(<<"truncate", "point", "create", "adopt", "remember", "bundle", "apply", "session">>) =
             "truncate"
  BY DEF Creates
<1>4. /\ <<"truncate", "point", "reset">> \in Activations
      /\ <<"truncate", "point", "reset">> # <<>>
      /\ Head(<<"truncate", "point", "reset">>) = "truncate"
  BY DEF Activations
<1>5. /\ <<"rekey", "bundle", "session">> \in Rekeys
      /\ <<"rekey", "bundle", "session">> # <<>>
      /\ Head(<<"rekey", "bundle", "session">>) = "rekey"
  BY DEF Rekeys
<1>6. /\ <<"archive_vault", "archive_bundle">> \in Archives
      /\ <<"archive_vault", "archive_bundle">> # <<>>
      /\ Head(<<"archive_vault", "archive_bundle">>) = "archive_vault"
  BY DEF Archives
<1>7. <<"settings">> \in Endings /\ <<"settings">> # <<>> /\ Head(<<"settings">>) = "settings"
  BY DEF Endings
<1>8. <<"next">> \in Toggles /\ <<"next">> # <<>> /\ Head(<<"next">>) = "next"
  BY DEF Toggles
<1>9. /\ <<"next", "show_key">> \in Rotating /\ <<"next", "show_key">> # <<>>
      /\ Head(<<"next", "show_key">>) = "next"
  BY DEF Rotating
<1> QED
  BY <1>1, <1>2, <1>3, <1>4, <1>5, <1>6, <1>7, <1>8, <1>9,
     Concatenations DEF SwitchSteps

\* The loop over all definitions goes on with a visit or with the way back.
LEMMA LoopSteps ==
    ASSUME NEW p \in Plans, p # <<>>, Head(p) = "next"
    PROVE  LET visit == SwitchSteps \o <<"mutate">> \o p
               back == SwitchSteps \o <<"reopen">> \o Tail(p)
           IN  /\ visit # <<>> /\ Head(visit) = "truncate"
               /\ back # <<>> /\ Head(back) = "truncate"
               /\ \/ p \in Toggles /\ visit \in Toggles /\ back \in Toggles
                  \/ p \in Rotating /\ visit \in Rotating /\ back \in Rotated
<1>1. p \in {<<"next">>, <<"next", "show_key">>}
  BY DEF Plans, Setups, Creates, Selects, Visits, Updates, Rekeys, Archives, Activations,
     Toggles, Rotating, Rotated, Endings
<1>2. Tail(<<"next">>) = <<>> /\ Tail(<<"next", "show_key">>) = <<"show_key">>
  OBVIOUS
<1>3. /\ SwitchSteps \o <<"mutate">> \o <<"next">> = <<"truncate", "point", "mutate", "next">>
      /\ SwitchSteps \o <<"reopen">> \o <<>> = <<"truncate", "point", "reopen">>
  BY Concatenations DEF SwitchSteps
<1>4. /\ SwitchSteps \o <<"mutate">> \o <<"next", "show_key">> =
            <<"truncate", "point", "mutate", "next", "show_key">>
      /\ SwitchSteps \o <<"reopen">> \o <<"show_key">> =
            <<"truncate", "point", "reopen", "show_key">>
  BY Concatenations DEF SwitchSteps
<1>5. /\ <<"truncate", "point", "mutate", "next">> # <<>>
      /\ Head(<<"truncate", "point", "mutate", "next">>) = "truncate"
      /\ <<"truncate", "point", "reopen">> # <<>>
      /\ Head(<<"truncate", "point", "reopen">>) = "truncate"
  OBVIOUS
<1>6. /\ <<"truncate", "point", "mutate", "next", "show_key">> # <<>>
      /\ Head(<<"truncate", "point", "mutate", "next", "show_key">>) = "truncate"
      /\ <<"truncate", "point", "reopen", "show_key">> # <<>>
      /\ Head(<<"truncate", "point", "reopen", "show_key">>) = "truncate"
  OBVIOUS
<1>7. CASE p = <<"next">>
  BY <1>2, <1>3, <1>5, <1>7 DEF Toggles
<1>8. CASE p = <<"next", "show_key">>
  BY <1>2, <1>4, <1>6, <1>8 DEF Rotating, Rotated
<1> QED
  BY <1>1, <1>7, <1>8

\* A handler that takes a step of a plan is left with a plan.
LEMMA TailsArePlans ==
    ASSUME NEW p \in Plans, p # <<>>
    PROVE  Tail(p) \in Plans
<1>1. Head(p) \in StepNames
  BY PlansAreSequences
<1>2. CASE Head(p) \in {"truncate", "point"}
  BY <1>2, AfterTruncate, AfterPoint DEF Plans
<1>3. CASE Head(p) \in {"unlock", "create", "adopt", "remember", "bundle", "session"}
  BY <1>3, AfterUnlock, AfterCreate, AfterAdopt, AfterRemember, AfterBundle, AfterSession
     DEF Plans
<1>4. CASE Head(p) \in {"show_key", "apply", "settings", "next", "mutate", "reopen"}
  BY <1>4, AfterShowKey, AfterApply, AfterSettings, AfterNext, AfterMutate, AfterReopen
     DEF Plans
<1>5. CASE Head(p) \in {"rekey", "archive_vault", "archive_bundle", "reset"}
  BY <1>5, AfterRekey, AfterArchiveVault, AfterArchiveBundle, AfterReset DEF Plans
<1> QED
  BY <1>1, <1>2, <1>3, <1>4, <1>5 DEF StepNames

\* A handler keeps its locals until it has returned.
LEMMA ProceedKeepsLocals ==
    ASSUME Types, todo # <<>>, Proceed
    PROVE  todo' = Tail(todo) /\ todo' \in Plans /\ (todo' # <<>> => op' = op)
           /\ (op' = op \/ op' = NoOp)
BY TailsArePlans DEF Proceed, Return, Types

----------------------------------------------------------------------------
(* The vault in memory and the vaults on disk                              *)

\* None is no content and no stored vault, however many keys there are.
LEMMA NoneIsNoRecord ==
    ASSUME NEW k \in Nat
    PROVE  LET Content == [key : 0..k, on : BOOLEAN, form : Forms \cup {None}]
           IN  None \notin Content \cup [pw : Passwords, data : Content]
<1> DEFINE Content == [key : 0..k, on : BOOLEAN, form : Forms \cup {None}]
           Contents == [key : Nat, on : BOOLEAN, form : Forms \cup {None}]
<1>1. Content \subseteq Contents
  OBVIOUS
<1>2. [pw : Passwords, data : Content] \subseteq [pw : Passwords, data : Contents]
  BY <1>1
<1> QED
  BY <1>1, <1>2, RecordAssumption

\* No content and no stored vault is None.
LEMMA NoneApart ==
    ASSUME Types
    PROVE  None \notin MintedData /\ None \notin MintedVault
<1>1. minted \in Nat
  BY VaultManagerAssumption DEF Types, MaxKeys
<1> QED
  BY <1>1, NoneIsNoRecord DEF MintedData, MintedVault

\* Something is always the active definition.
LEMMA ActiveIsName == Types => Active \in Names
BY VaultManagerAssumption DEF Types, Active

\* The vault is unlocked when the object in memory is the active one and open.
LEMMA WhatIsUnlocked ==
    ASSUME Types
    PROVE  /\ Unlocked <=> mem.name = Active /\ mem.data # None
           /\ Unlocked => Current = mem
           /\ mem.data # None <=> mem \in OpenMem
           /\ Current \in OpenMem \cup LockedMem
           /\ Current.name = Active
<1>1. Active \in Names /\ mem \in OpenMem \cup LockedMem
  BY ActiveIsName DEF Types
<1>2. LockedVault(Active) \in LockedMem /\ LockedVault(Active).data = None
      /\ LockedVault(Active).name = Active
  BY <1>1 DEF LockedVault, LockedMem
<1>3. mem.data # None <=> mem \in OpenMem
  BY <1>1, NoneApart DEF OpenMem, LockedMem
<1> QED
  BY <1>1, <1>2, <1>3 DEF Unlocked, Current

\* A definition that a password opens has a file, sealed with that password.
LEMMA WhatOpens ==
    ASSUME Types, NEW n \in Names, NEW pw, Opens(n, pw)
    PROVE  /\ pw \in Passwords /\ pw # None
           /\ vault[n] \in MintedVault
           /\ Opened(n) \in OpenMem
           /\ Opened(n) = [name |-> n, data |-> vault[n].data, pw |-> pw]
           /\ Opened(n).data # None
<1>1. vault[n] \in MintedVault /\ vault[n].pw = pw
  BY DEF Opens, Types
<1>2. pw \in Passwords /\ vault[n].data \in MintedData
  BY <1>1 DEF MintedVault
<1> QED
  BY <1>1, <1>2, NoneApart, VaultManagerAssumption DEF Opened, OpenMem

\* A save replaces one file by what is in memory.
LEMMA WhatIsSaved ==
    ASSUME Types, NEW m, m.name \in Names
    PROVE  /\ DOMAIN Saved(m) = Names
           /\ Saved(m) \in [Names -> {vault[n] : n \in Names} \cup {[pw |-> m.pw, data |-> m.data]}]
           /\ Saved(m)[m.name] = [pw |-> m.pw, data |-> m.data]
           /\ \A n \in Names \ {m.name} : Saved(m)[n] = vault[n]
BY DEF Saved, Types

\* What each step that saves makes of the vault in memory.
LEMMA WhatIsEdited ==
    ASSUME Types
    PROVE  /\ Edited("create") = [name |-> Active, pw |-> op.pw,
                                  data |-> [key |-> minted + 1, on |-> TRUE, form |-> None]]
           /\ Unlocked =>
                /\ Edited("adopt") = [name |-> Active, pw |-> mem.pw, data |->
                                        [key |-> op.key, on |-> TRUE, form |-> mem.data.form]]
                /\ Edited("apply") = [name |-> Active, pw |-> mem.pw, data |->
                                        [key |-> mem.data.key, on |-> mem.data.on, form |-> op.form]]
                /\ Edited("rekey") = [name |-> Active, pw |-> op.pw, data |-> mem.data]
                /\ Edited("settings") = mem
           /\ Opens(Active, op.pw) =>
                Edited("mutate") =
                    [name |-> Active, pw |-> op.pw, data |->
                        [key |-> IF op.key = 0 THEN vault[Active].data.key ELSE op.key,
                         on |-> op.on, form |-> vault[Active].data.form]]
<1>1. Edited("create") = [name |-> Active, pw |-> op.pw,
                          data |-> [key |-> minted + 1, on |-> TRUE, form |-> None]]
  BY DEF Edited
<1>2. ASSUME Unlocked
      PROVE  /\ Current = mem /\ mem.name = Active
             /\ mem = [name |-> mem.name, data |-> mem.data, pw |-> mem.pw]
             /\ mem.data = [key |-> mem.data.key, on |-> mem.data.on, form |-> mem.data.form]
  <2>1. Current = mem /\ mem.name = Active /\ mem \in OpenMem
    BY <1>2, WhatIsUnlocked
  <2>2. mem.data \in MintedData
    BY <2>1 DEF OpenMem
  <2> QED
    BY <2>1, <2>2 DEF OpenMem, MintedData
<1>3. ASSUME Unlocked
      PROVE  /\ Edited("adopt") = [name |-> Active, pw |-> mem.pw, data |->
                                     [key |-> op.key, on |-> TRUE, form |-> mem.data.form]]
             /\ Edited("apply") = [name |-> Active, pw |-> mem.pw, data |->
                                     [key |-> mem.data.key, on |-> mem.data.on, form |-> op.form]]
             /\ Edited("rekey") = [name |-> Active, pw |-> op.pw, data |-> mem.data]
             /\ Edited("settings") = mem
  <2> DEFINE d == mem.data
             o == [name |-> Active, data |-> d, pw |-> mem.pw]
  <2>1. Current = o /\ mem = o /\ d = [key |-> d.key, on |-> d.on, form |-> d.form]
    BY <1>2, <1>3
  <2>2. Edited("adopt") = [o EXCEPT !.data.key = op.key, !.data.on = TRUE]
    BY <2>1 DEF Edited
  <2>3. Edited("apply") = [o EXCEPT !.data.form = op.form]
    BY <2>1 DEF Edited
  <2>4. Edited("rekey") = [o EXCEPT !.pw = op.pw]
    BY <2>1 DEF Edited
  <2>5. Edited("settings") = mem
    BY <2>1 DEF Edited
  <2>6. Edited("adopt") = [name |-> Active, pw |-> mem.pw,
                           data |-> [key |-> op.key, on |-> TRUE, form |-> d.form]]
    BY <2>1, <2>2
  <2>7. Edited("apply") = [name |-> Active, pw |-> mem.pw,
                           data |-> [key |-> d.key, on |-> d.on, form |-> op.form]]
    BY <2>1, <2>3
  <2>8. Edited("rekey") = [name |-> Active, pw |-> op.pw, data |-> mem.data]
    BY <2>4
  <2> QED
    BY <2>5, <2>6, <2>7, <2>8
<1>4. ASSUME Opens(Active, op.pw)
      PROVE  Edited("mutate") =
                [name |-> Active, pw |-> op.pw, data |->
                    [key |-> IF op.key = 0 THEN vault[Active].data.key ELSE op.key,
                     on |-> op.on, form |-> vault[Active].data.form]]
  <2>1. vault[Active] \in MintedVault /\ vault[Active].pw = op.pw
    BY <1>4, ActiveIsName, WhatOpens DEF Opens
  <2>2. vault[Active].data \in MintedData
    BY <2>1 DEF MintedVault
  <2> DEFINE d == vault[Active].data
             o == [name |-> Active, data |-> d, pw |-> op.pw]
  <2>3. Opened(Active) = o /\ d = [key |-> d.key, on |-> d.on, form |-> d.form]
    BY <2>1, <2>2 DEF Opened, MintedData
  <2>4. Edited("mutate") = [o EXCEPT !.data.on = op.on,
                                !.data.key = IF op.key = 0 THEN @ ELSE op.key]
    BY <2>3 DEF Edited
  <2> QED
    BY <2>3, <2>4
<1> QED
  BY <1>1, <1>3, <1>4

\* Ranges of what an instance is given.
LEMMA KnownPassword ==
    ASSUME Types
    PROVE  EnvMaster \in Passwords \cup {None}
           /\ KnownMaster \in Passwords \cup {None} /\ deployment.typed \subseteq Passwords
           /\ MaxKeys \in Nat /\ DiskFaults \in BOOLEAN
BY VaultManagerAssumption DEF Types, KnownMaster, EnvMaster, MaxKeys, DiskFaults

\* Minting a key makes room for more of them.
LEMMA MintingWidens ==
    ASSUME Types, minted' \in minted..MaxKeys, UNCHANGED deployment
    PROVE  /\ MintedData \subseteq MintedData' /\ MintedVault \subseteq MintedVault'
           /\ OpenMem \subseteq OpenMem' /\ Locals \subseteq Locals'
           /\ minted' \in 0..MaxKeys' /\ 0..minted \subseteq 0..minted'
           /\ NoOp \in Locals' /\ MaxKeys' = MaxKeys
<1>1. 0..minted \subseteq 0..minted' /\ minted' \in 0..MaxKeys /\ MaxKeys' = MaxKeys
  BY KnownPassword DEF Types, MaxKeys
<1>2. MintedData \subseteq MintedData'
  BY <1>1 DEF MintedData
<1>3. MintedVault \subseteq MintedVault'
  BY <1>2 DEF MintedVault
<1>4. OpenMem \subseteq OpenMem'
  BY <1>2 DEF OpenMem
<1>5. Locals \subseteq Locals'
  BY <1>1 DEF Locals
<1>6. NoOp \in Locals'
  BY <1>1, KnownPassword DEF NoOp, Locals
<1> QED
  BY <1>1, <1>2, <1>3, <1>4, <1>5, <1>6

\* Types follow from those of the variables a step may change.
LEMMA TypesFrame ==
    ASSUME Types, UNCHANGED deployment,
           minted' = minted \/ (minted' = minted + 1 /\ minted < MaxKeys),
           vault' = vault \/ vault' \in [Names -> MintedVault' \cup {None}],
           bundle' = bundle \/ bundle' \in [Names -> Passwords \cup {None}],
           pointer' \in Names \cup {None, Empty},
           marker' \in BOOLEAN, up' \in BOOLEAN, session' \in BOOLEAN, timer' \in BOOLEAN,
           mem' = mem \/ mem' \in OpenMem' \cup LockedMem,
           master' \in Passwords \cup {None},
           todo' \in Plans,
           op' = op \/ op' \in Locals',
           shown' = shown \/ shown' \in 0..minted',
           acked' \in [Names -> SUBSET Forms],
           copies' = copies \/ copies' \subseteq MintedVault'
    PROVE  Types'
<1>1. minted' \in minted..MaxKeys
  BY KnownPassword DEF Types
<1> QED
  BY <1>1, MintingWidens DEF Types, LockedMem

\* A save leaves well-typed files.
LEMMA SavedTypes ==
    ASSUME Types, MintedVault \subseteq MintedVault',
           NEW m \in OpenMem'
    PROVE  Saved(m) \in [Names -> MintedVault' \cup {None}]
<1>1. m.name \in Names /\ [pw |-> m.pw, data |-> m.data] \in MintedVault'
  BY DEF OpenMem, MintedVault
<1> QED
  BY <1>1 DEF Saved, Types

\* What each saving step leaves in memory is an unlocked vault.
LEMMA EditsAreOpen ==
    ASSUME TInv, UNCHANGED deployment,
           NEW step \in {"create", "adopt", "apply", "settings", "mutate", "rekey"}, At(step),
           step = "mutate" => Opens(Active, op.pw),
           minted' = IF step = "create" THEN minted + 1 ELSE minted
    PROVE  /\ Edited(step) \in OpenMem' /\ Edited(step).name = Active /\ Edited(step).data # None
           /\ MintedVault \subseteq MintedVault' /\ (step = "create" => minted < MaxKeys)
<1>1. Types /\ Arguments /\ Ready /\ Active \in Names /\ Ahead({step})
  BY ActiveIsName DEF TInv, At, Ahead
<1>2. step = "create" => minted < MaxKeys /\ op.pw \in Passwords
  BY <1>1, AfterCreate, PlansApart DEF Arguments, Ahead, Types
<1>3. minted \in Nat /\ MaxKeys \in Nat /\ minted' \in minted..MaxKeys
  BY <1>1, <1>2, KnownPassword DEF Types
<1>4. MintedData \subseteq MintedData' /\ MintedVault \subseteq MintedVault'
  BY <1>1, <1>3, MintingWidens
<1>5. op \in Locals
  BY <1>1 DEF Types
<1> SUFFICES Edited(step) \in OpenMem' /\ Edited(step).name = Active
  <2>1. ASSUME Edited(step) \in OpenMem' PROVE Edited(step).data # None
    BY <1>3, <2>1, NoneIsNoRecord DEF OpenMem, MintedData
  <2> QED
    BY <1>2, <1>4, <2>1
<1>6. CASE step = "create"
  <2> DEFINE d == [key |-> minted + 1, on |-> TRUE, form |-> None]
  <2>1. d \in MintedData'
    BY <1>3, <1>6 DEF MintedData
  <2>2. Edited(step) = [name |-> Active, pw |-> op.pw, data |-> d]
    BY <1>1, <1>6, WhatIsEdited
  <2> HIDE DEF d
  <2> QED
    BY <1>1, <1>2, <1>6, <2>1, <2>2 DEF OpenMem
<1>7. CASE step = "mutate"
  <2>1. vault[Active].data \in MintedData /\ op.pw \in Passwords
    BY <1>1, <1>7, WhatOpens DEF MintedVault
  <2> QED
    BY <1>1, <1>3, <1>5, <1>7, <2>1, WhatIsEdited, MintingWidens DEF OpenMem, MintedData, Locals
<1>8. CASE step \in {"adopt", "apply", "settings", "rekey"}
  <2>1. Unlocked
    BY <1>1, <1>8 DEF Ready, Ahead
  <2>2. mem \in OpenMem /\ mem.name = Active /\ mem.data \in MintedData /\ mem.pw \in Passwords
    BY <1>1, <2>1, WhatIsUnlocked DEF OpenMem
  <2>3. CASE step = "adopt"
    <3>1. op.key \in 0..minted' /\ mem.data.form \in Forms \cup {None}
      BY <1>1, <1>3, <1>5, <2>2, MintingWidens DEF Locals, MintedData
    <3> DEFINE d == [key |-> op.key, on |-> TRUE, form |-> mem.data.form]
    <3>2. d \in MintedData'
      BY <3>1 DEF MintedData
    <3>3. Edited(step) = [name |-> Active, pw |-> mem.pw, data |-> d]
      BY <1>1, <2>1, <2>3, WhatIsEdited
    <3> HIDE DEF d
    <3> QED
      BY <1>1, <2>2, <3>2, <3>3 DEF OpenMem
  <2>4. CASE step = "apply"
    BY <1>1, <1>3, <1>5, <2>1, <2>2, <2>4, WhatIsEdited, MintingWidens
       DEF OpenMem, MintedData, Locals
  <2>5. CASE step = "settings"
    BY <1>1, <1>3, <2>1, <2>2, <2>5, WhatIsEdited, MintingWidens
  <2>6. CASE step = "rekey"
    <3>1. op.pw \in Passwords
      BY <1>1, <2>6, AfterRekey, PlansApart DEF Arguments, Ahead, Types
    <3> QED
      BY <1>1, <1>4, <2>1, <2>2, <2>6, <3>1, WhatIsEdited DEF OpenMem
  <2> QED
    BY <1>8, <2>3, <2>4, <2>5, <2>6
<1> QED
  BY <1>6, <1>7, <1>8

\* The steps of the handlers preserve the types.
LEMMA TypesStep ==
    ASSUME TInv, Step, UNCHANGED deployment
    PROVE  Types'
<1> USE DEF memory, disk, client, Raise, Return
<1>1. Types /\ Arguments /\ Ready /\ UNCHANGED deployment
  BY DEF TInv
<1>2. /\ MintedData = [key : 0..minted, on : BOOLEAN, form : Forms \cup {None}]
      /\ <<>> \in Plans /\ Active \in Names /\ LockedVault(Active) \in LockedMem
      /\ \A n \in Names : LockedVault(n) \in LockedMem
      /\ minted \in Nat /\ MaxKeys \in Nat
  BY <1>1, ActiveIsName, KnownPassword DEF MintedData, LockedVault, LockedMem, Plans, Types
<1>3. ASSUME Proceed, todo # <<>>
      PROVE  todo' \in Plans /\ (op' = op \/ op' = NoOp)
  BY <1>1, <1>3, ProceedKeepsLocals
<1>4. /\ pointer \in Names \cup {None, Empty} /\ master \in Passwords \cup {None}
      /\ marker \in BOOLEAN /\ up \in BOOLEAN /\ session \in BOOLEAN /\ timer \in BOOLEAN
      /\ vault \in [Names -> MintedVault \cup {None}]
      /\ bundle \in [Names -> Passwords \cup {None}]
      /\ acked \in [Names -> SUBSET Forms] /\ shown \in 0..minted /\ op \in Locals
  BY <1>1 DEF Types
<1>5. NoOp \in Locals /\ (minted' = minted => NoOp \in Locals')
  BY <1>2, VaultManagerAssumption DEF NoOp, Locals
<1>6. ASSUME minted' = minted
       PROVE  OpenMem' = OpenMem /\ MintedVault' = MintedVault
  BY <1>6 DEF OpenMem, MintedVault, MintedData
<1>7. CASE Truncate
  BY TypesFrame, <1>1, <1>4, <1>3, <1>5, <1>7 DEF Truncate, At
<1>8. CASE Point
  <2>1. op.name \in Names
    BY <1>1, <1>8 DEF Arguments, Switching, Ahead, Point, At
  <2> QED
    BY TypesFrame, <1>1, <1>4, <1>2, <1>3, <1>5, <1>8, <2>1 DEF Point, At
<1>9. CASE Unlock
  <2>1. Opens(Active, KnownMaster) => Opened(Active) \in OpenMem /\ KnownMaster \in Passwords
    BY <1>1, <1>2, WhatOpens
  <2>2. mem' = mem \/ mem' \in OpenMem'
    BY <1>9, <1>6, <2>1 DEF Unlock
  <2>3. master' \in Passwords \cup {None} /\ timer' \in BOOLEAN
    BY <1>9, <1>4, <2>1 DEF Unlock
  <2>4. todo' \in Plans /\ (op' = op \/ op' = NoOp)
    BY <1>2, <1>3, <1>9 DEF Unlock, At
  <2> QED
    BY TypesFrame, <1>1, <1>5, <1>9, <1>4, <2>2, <2>3, <2>4 DEF Unlock
<1>10. CASE Create
  <2>1. CASE Raise /\ UNCHANGED <<vault, mem, minted>>
    BY TypesFrame, <1>1, <1>4, <1>2, <1>3, <1>5, <1>10, <2>1 DEF Create, At
  <2>2. CASE Save("create") /\ minted' = minted + 1 /\ Proceed
    BY TypesFrame, <1>1, <1>4, <1>2, <1>3, <1>5, <1>10, <2>2, EditsAreOpen, SavedTypes,
       MintingWidens
       DEF Create, At, Save
  <2> QED
    BY <1>10, <2>1, <2>2 DEF Create
<1>11. CASE Adopt
  BY TypesFrame, <1>1, <1>4, <1>2, <1>3, <1>5, <1>11, EditsAreOpen, SavedTypes DEF Adopt, At, Save
<1>12. CASE Remember
  <2>1. op.pw \in Passwords
    BY <1>1, <1>12, AfterRemember, PlansApart DEF Arguments, Ahead, Remember, At, Types
  <2> QED
    BY TypesFrame, <1>1, <1>4, <1>2, <1>3, <1>5, <1>12, <2>1 DEF Remember, At
<1>13. CASE WriteBundle
  <2>1. op.pw \in Passwords
    BY <1>1, <1>13, AfterBundle, PlansApart DEF Arguments, Ahead, WriteBundle, At, Types
  <2> QED
    BY TypesFrame, <1>1, <1>4, <1>2, <1>3, <1>5, <1>13, <2>1 DEF WriteBundle, At
<1>14. CASE OpenSession
  BY TypesFrame, <1>1, <1>4, <1>2, <1>3, <1>5, <1>14 DEF OpenSession, At
<1>15. CASE ShowKey
  <2>1. op.key \in 0..minted
    BY <1>1 DEF Types, Locals
  <2>2. op.key = 0 => Current.data.key \in 0..minted
    BY <1>1, <1>15, AfterShowKey, PlansApart, WhatIsUnlocked
       DEF Arguments, Ready, Ahead, ShowKey, At, Types, OpenMem, MintedData
  <2> QED
    BY TypesFrame, <1>1, <1>4, <1>2, <1>3, <1>5, <1>15, <2>1, <2>2 DEF ShowKey, At
<1>16. CASE Apply
  <2>1. op.name \in Names /\ op.form \in Forms
    BY <1>1, <1>16, AfterApply DEF Arguments, Apply, At, Types
  <2> QED
    BY TypesFrame, <1>1, <1>4, <1>2, <1>3, <1>5, <1>16, <2>1, EditsAreOpen, SavedTypes
       DEF Apply, At, Save
<1>17. CASE SaveSettings
  BY TypesFrame, <1>1, <1>4, <1>2, <1>3, <1>5, <1>17, EditsAreOpen, SavedTypes
     DEF SaveSettings, At, Save
<1>18. CASE NextDefinition
  <2>1. todo' \in Plans
    BY <1>1, <1>18, LoopSteps DEF NextDefinition, At, Types, Plans
  <2>2. op' \in Locals
    BY <1>1, <1>18, AfterNext, ZenonT(60) DEF NextDefinition, At, Types, Locals, Arguments
  <2>3. op' \in Locals'
    BY <1>18, <2>2 DEF NextDefinition, Locals
  <2> QED
    BY TypesFrame, <1>1, <1>4, <1>2, <1>18, <2>1, <2>3 DEF NextDefinition
<1>19. CASE Mutate
  BY TypesFrame, <1>1, <1>4, <1>2, <1>3, <1>5, <1>19, EditsAreOpen, SavedTypes
     DEF Mutate, At, Save
<1>20. CASE Reopen
  <2>1. op.pw \in Passwords
    BY <1>1, <1>20 DEF Arguments, Ahead, Reopen, At
  <2>2. Opens(Active, op.pw) => Opened(Active) \in OpenMem
    BY <1>1, <1>2, WhatOpens
  <2> QED
    BY TypesFrame, <1>1, <1>4, <1>2, <1>3, <1>5, <1>20, <2>1, <2>2, <1>6 DEF Reopen, At
<1>21. CASE Rekey
  <2>1. op.pw \in Passwords
    BY <1>1, <1>21, AfterRekey, PlansApart DEF Arguments, Ahead, Rekey, At, Types
  <2> QED
    BY TypesFrame, <1>1, <1>4, <1>2, <1>3, <1>5, <1>21, <2>1, EditsAreOpen, SavedTypes
       DEF Rekey, At, Save
<1>22. CASE ArchiveVault
  BY TypesFrame, <1>1, <1>4, <1>2, <1>3, <1>5, <1>22, <1>6 DEF ArchiveVault, At
<1>23. CASE ArchiveBundle
  BY TypesFrame, <1>1, <1>4, <1>2, <1>3, <1>5, <1>23 DEF ArchiveBundle, At
<1>24. CASE Reset
  BY TypesFrame, <1>1, <1>4, <1>2, <1>3, <1>5, <1>24 DEF Reset, At
<1> QED
  BY <1>7, <1>8, <1>9, <1>10, <1>11, <1>12, <1>13, <1>14, <1>15, <1>16, <1>17, <1>18, <1>19,
     <1>20, <1>21, <1>22, <1>23, <1>24 DEF Step

\* So do the requests, the timer, faults, crashes and restarts.
LEMMA TypesRequest ==
    ASSUME TInv, AdminRequest \/ AgentRequest \/ AutoLock \/ Fault \/ Crash \/ Restart,
           UNCHANGED deployment
    PROVE  Types'
<1> USE DEF memory, disk, client, Start
<1>1. Types /\ Active \in Names /\ LockedVault(Active) \in LockedMem
  BY ActiveIsName DEF TInv, LockedVault, LockedMem
<1>2. /\ pointer \in Names \cup {None, Empty} /\ master \in Passwords \cup {None}
      /\ marker \in BOOLEAN /\ up \in BOOLEAN /\ session \in BOOLEAN /\ timer \in BOOLEAN
      /\ vault \in [Names -> MintedVault \cup {None}]
      /\ acked \in [Names -> SUBSET Forms] /\ op \in Locals /\ todo \in Plans
      /\ copies \subseteq MintedVault /\ shown \in 0..minted
  BY <1>1 DEF Types
<1>3. /\ minted \in Nat /\ KnownMaster \in Passwords \cup {None}
      /\ EnvMaster \in Passwords \cup {None}
      /\ deployment.typed \subseteq Passwords
  BY <1>1, KnownPassword DEF Types
<1>4. Current \in OpenMem \cup LockedMem /\ (Unlocked => Current \in OpenMem)
  BY <1>1, WhatIsUnlocked
<1>5. \A n \in Names : \A pw : Opens(n, pw) => Opened(n) \in OpenMem /\ pw \in Passwords
  BY <1>1, WhatOpens
<1>6. Setups \cup Selects \cup Creates \cup Visits \cup Updates \cup Activations \cup Rekeys
      \cup Archives \cup Endings \cup Toggles \cup Rotating \cup {<<>>} \subseteq Plans
  BY DEF Plans
<1>7. NoOp \in Locals /\ 0 \in 0..minted
  BY <1>3, VaultManagerAssumption DEF NoOp, Locals
<1>8. ASSUME minted' = minted
      PROVE  OpenMem' = OpenMem /\ MintedVault' = MintedVault /\ Locals' = Locals
  BY <1>8 DEF OpenMem, MintedVault, MintedData, Locals
<1>9. ASSUME NEW pw \in deployment.typed, Setup(pw) PROVE Types'
  <2>1. [NoOp EXCEPT !.pw = pw] \in Locals
    BY <1>3, <1>7 DEF Locals
  <2> QED
    BY TypesFrame, FirstSteps, <1>1, <1>2, <1>6, <1>8, <1>9, <2>1 DEF Setup
<1>10. ASSUME NEW pw \in deployment.typed, Login(pw) PROVE Types'
  BY TypesFrame, <1>1, <1>2, <1>3, <1>4, <1>5, <1>8, <1>10 DEF Login
<1>11. ASSUME NEW pw \in deployment.typed, RecoveryReset(pw) PROVE Types'
  <2>1. [NoOp EXCEPT !.pw = pw] \in Locals
    BY <1>3, <1>7 DEF Locals
  <2> QED
    BY TypesFrame, FirstSteps, <1>1, <1>2, <1>4, <1>5, <1>6, <1>8, <1>11, <2>1 DEF RecoveryReset
<1>12. CASE LockVault
  BY TypesFrame, <1>1, <1>2, <1>12 DEF LockVault
<1>13. CASE Logout
  BY TypesFrame, <1>1, <1>2, <1>13 DEF Logout
<1>14. CASE UpdateSettings
  BY TypesFrame, FirstSteps, <1>1, <1>2, <1>6, <1>7, <1>8, <1>14 DEF UpdateSettings
<1>15. CASE RotateKey
  <2> DEFINE o == [NoOp EXCEPT !.key = minted']
  <2>1. minted' = minted + 1 /\ minted < MaxKeys /\ AllDefinitions(o, <<"show_key">>)
    BY <1>15 DEF RotateKey
  <2>2. o \in Locals'
    BY <1>3, <1>7, <2>1 DEF Locals
  <2> HIDE DEF o
  <2>3. [o EXCEPT !.pw = KnownMaster, !.home = Active, !.left = {n \in Names : vault[n] # None}]
            \in Locals'
    BY <1>1, <1>3, <2>2 DEF Locals
  <2> QED
    BY TypesFrame, FirstSteps, <1>1, <1>2, <1>6, <2>1, <2>3 DEF AllDefinitions
<1>16. ASSUME NEW on \in BOOLEAN, ToggleAgent(on) PROVE Types'
  <2> DEFINE o == [NoOp EXCEPT !.on = on]
  <2>1. UNCHANGED minted /\ AllDefinitions(o, <<>>)
    BY <1>16 DEF ToggleAgent
  <2>2. o \in Locals
    BY <1>7 DEF Locals
  <2> HIDE DEF o
  <2>3. [o EXCEPT !.pw = KnownMaster, !.home = Active, !.left = {n \in Names : vault[n] # None}]
            \in Locals
    BY <1>1, <1>3, <2>2 DEF Locals
  <2> QED
    BY TypesFrame, FirstSteps, <1>1, <1>2, <1>6, <1>8, <2>1, <2>3 DEF AllDefinitions
<1>17. ASSUME NEW n \in Names, SelectVault(n) PROVE Types'
  <2>1. [NoOp EXCEPT !.name = n] \in Locals
    BY <1>7 DEF Locals
  <2> QED
    BY TypesFrame, FirstSteps, <1>1, <1>2, <1>6, <1>8, <1>17, <2>1 DEF SelectVault
<1>18. ASSUME NEW n \in Names, EditDefinition(n) PROVE Types'
  <2>1. [NoOp EXCEPT !.name = n] \in Locals
    BY <1>7 DEF Locals
  <2> QED
    BY TypesFrame, EnsureFirst, <1>1, <1>2, <1>6, <1>8, <1>18, <2>1 DEF EditDefinition
<1>19. ASSUME NEW n \in Names, ArchiveDefinition(n) PROVE Types'
  <2>1. [NoOp EXCEPT !.name = n] \in Locals
    BY <1>7 DEF Locals
  <2> QED
    BY TypesFrame, FirstSteps, <1>1, <1>2, <1>6, <1>8, <1>19, <2>1 DEF ArchiveDefinition
<1>20. ASSUME NEW n \in Names, Download(n) PROVE Types'
  BY TypesFrame, <1>1, <1>2, <1>8, <1>20 DEF Download
<1>21. ASSUME NEW n \in Names, NEW f \in Forms, CreateDefinition(n, f) PROVE Types'
  <2>1. Current.data.key \in 0..minted /\ master \in Passwords
    BY <1>2, <1>4, <1>21 DEF CreateDefinition, Admin, OpenMem, MintedData
  <2>2. [NoOp EXCEPT !.name = n, !.form = f, !.pw = master, !.key = Current.data.key] \in Locals
    BY <1>7, <2>1 DEF Locals
  <2> QED
    BY TypesFrame, FirstSteps, <1>1, <1>2, <1>6, <1>8, <1>21, <2>2 DEF CreateDefinition
<1>22. ASSUME NEW n \in Names, NEW f \in Forms, UpdateDefinition(n, f) PROVE Types'
  <2>1. [NoOp EXCEPT !.name = n, !.form = f] \in Locals
    BY <1>7 DEF Locals
  <2> QED
    BY TypesFrame, EnsureFirst, <1>1, <1>2, <1>6, <1>8, <1>22, <2>1 DEF UpdateDefinition
<1>23. ASSUME NEW n \in Names, NEW c \in copies, NEW overwrite \in BOOLEAN,
              NEW activate \in BOOLEAN, Import(n, c, overwrite, activate)
       PROVE  Types'
  <2>1. c \in MintedVault /\ c.data.form \in Forms \cup {None}
    BY <1>2 DEF MintedVault, MintedData
  <2>2. vault' \in [Names -> MintedVault \cup {None}] /\ acked' \in [Names -> SUBSET Forms]
    BY <1>2, <1>23, <2>1 DEF Import
  <2>3. [NoOp EXCEPT !.name = n] \in Locals
    BY <1>7 DEF Locals
  <2>4. todo' \in Plans /\ op' \in Locals
    BY FirstSteps, <1>2, <1>6, <1>23, <2>3 DEF Import
  <2> QED
    BY TypesFrame, <1>1, <1>2, <1>8, <1>23, <2>2, <2>4 DEF Import
<1>24. ASSUME NEW n \in Names, NEW key \in 1..minted, McpCall(n, key) PROVE Types'
  <2>1. [NoOp EXCEPT !.name = n] \in Locals
    BY <1>7 DEF Locals
  <2>2. todo' \in Plans /\ op' \in Locals
    BY EnsureFirst, <1>2, <1>6, <1>24, <2>1 DEF McpCall
  <2>3. mem' \in OpenMem \cup LockedMem /\ master' \in Passwords \cup {None} /\ timer' \in BOOLEAN
    BY <1>1, <1>2, <1>3, <1>4, <1>5, <1>24 DEF McpCall
  <2> QED
    BY TypesFrame, <1>1, <1>2, <1>8, <1>24, <2>2, <2>3 DEF McpCall
<1>25. CASE AutoLock
  BY TypesFrame, <1>1, <1>2, <1>25 DEF AutoLock
<1>26. CASE Fault
  <2>1. PICK step \in {"truncate", "point", "create", "adopt", "bundle", "apply", "settings",
                       "mutate", "rekey", "archive_vault", "archive_bundle"} :
          /\ At(step)
          /\ mem' = IF \/ step \in {"create", "adopt", "apply", "settings", "rekey"}
                       \/ step = "mutate" /\ Opens(Active, op.pw)
                    THEN Edited(step) ELSE mem
          /\ minted' = IF step = "create" THEN minted + 1 ELSE minted
          /\ acked' = IF step = "apply" /\ acked[op.name] # {}
                      THEN [acked EXCEPT ![op.name] = @ \cup {op.form}]
                      ELSE acked
    BY <1>26 DEF Fault
  <2>2. /\ step = "create" => minted < MaxKeys
        /\ mem' = mem \/ mem' \in OpenMem'
    BY <2>1, EditsAreOpen
  <2>3. step = "apply" => op.name \in Names /\ op.form \in Forms
    BY <1>1, <2>1, AfterApply DEF TInv, Arguments, At, Types
  <2>4. acked' \in [Names -> SUBSET Forms]
    BY <1>2, <2>1, <2>3
  <2>5. minted' \in minted..MaxKeys
    BY <1>1, <1>3, <2>1, <2>2, KnownPassword DEF Types
  <2>6. todo' \in Plans /\ op' \in Locals'
    BY <1>1, <1>6, <1>26, <2>5, MintingWidens DEF Fault, Raise, Return
  <2> QED
    BY TypesFrame, <1>1, <1>2, <1>26, <2>1, <2>2, <2>4, <2>6 DEF Fault
<1>27. CASE Crash
  BY TypesFrame, <1>1, <1>2, <1>6, <1>7, <1>8, <1>27 DEF Crash
<1>28. CASE Restart
  BY TypesFrame, <1>1, <1>2, <1>3, <1>5, <1>8, <1>28 DEF Restart
<1> QED
  BY <1>9, <1>10, <1>11, <1>12, <1>13, <1>14, <1>15, <1>16, <1>17, <1>18, <1>19, <1>20, <1>21,
     <1>22, <1>23, <1>24, <1>25, <1>26, <1>27, <1>28 DEF AdminRequest, AgentRequest

----------------------------------------------------------------------------
(* The arguments of the handlers                                           *)

\* A handler that goes on has the arguments that its further steps use.
LEMMA ArgumentsProceed ==
    ASSUME Types, Arguments, todo # <<>>, Proceed, UNCHANGED deployment,
           minted' = minted \/ Head(todo) = "create"
    PROVE  Arguments'
<1>1. /\ todo \in Plans /\ Head(todo) \in StepNames
      /\ todo' = Tail(todo) /\ (todo' # <<>> => op' = op)
  BY PlansAreSequences, ProceedKeepsLocals DEF Types
<1> USE <1>1, PlansApart DEF Arguments, Switching, Ahead, MaxKeys
<1>2. CASE todo' = <<>>
  BY <1>2
<1>3. CASE Head(todo) = "truncate"
  BY <1>2, <1>3, AfterTruncate
<1>4. CASE Head(todo) = "point"
  BY <1>2, <1>4, AfterPoint
<1>5. CASE Head(todo) = "unlock"
  BY <1>2, <1>5, AfterUnlock
<1>6. CASE Head(todo) = "create"
  BY <1>2, <1>6, AfterCreate
<1>7. CASE Head(todo) = "adopt"
  BY <1>2, <1>7, AfterAdopt
<1>8. CASE Head(todo) = "remember"
  BY <1>2, <1>8, AfterRemember
<1>9. CASE Head(todo) = "bundle"
  BY <1>2, <1>9, AfterBundle
<1>10. CASE Head(todo) = "session"
  BY <1>2, <1>10, AfterSession
<1>11. CASE Head(todo) = "show_key"
  BY <1>2, <1>11, AfterShowKey
<1>12. CASE Head(todo) = "apply"
  BY <1>2, <1>12, AfterApply
<1>13. CASE Head(todo) = "settings"
  BY <1>2, <1>13, AfterSettings
<1>14. CASE Head(todo) = "next"
  BY <1>2, <1>14, AfterNext
<1>15. CASE Head(todo) = "mutate"
  BY <1>2, <1>15, AfterMutate
<1>16. CASE Head(todo) = "reopen"
  BY <1>2, <1>16, AfterReopen
<1>17. CASE Head(todo) = "rekey"
  BY <1>2, <1>17, AfterRekey
<1>18. CASE Head(todo) = "archive_vault"
  BY <1>2, <1>18, AfterArchiveVault
<1>19. CASE Head(todo) = "archive_bundle"
  BY <1>2, <1>19, AfterArchiveBundle
<1>20. CASE Head(todo) = "reset"
  BY <1>2, <1>20, AfterReset
<1> QED
  BY <1>3, <1>4, <1>5, <1>6, <1>7, <1>8, <1>9, <1>10, <1>11, <1>12, <1>13, <1>14, <1>15, <1>16,
     <1>17, <1>18, <1>19, <1>20 DEF StepNames

\* A handler that has ended relies on no argument.
LEMMA ArgumentsEmpty == ASSUME todo' = <<>> PROVE Arguments'
BY PlansApart DEF Arguments, Switching, Ahead

\* The steps of the handlers leave the arguments the later steps use.
LEMMA ArgumentsStep ==
    ASSUME TInv, Step, UNCHANGED deployment
    PROVE  Arguments'
<1> USE DEF client, memory
<1>1. Types /\ Arguments /\ todo # <<>>
  BY DEF TInv, Step, At, Truncate, Point, Unlock, Create, Adopt, Remember, WriteBundle,
     OpenSession, ShowKey, Apply, SaveSettings, NextDefinition, Mutate, Reopen, Rekey,
     ArchiveVault, ArchiveBundle, Reset
<1>2. ASSUME Proceed, UNCHANGED minted PROVE Arguments'
  BY <1>1, <1>2, ArgumentsProceed
<1>3. ASSUME Raise PROVE Arguments'
  BY <1>3, ArgumentsEmpty DEF Raise
<1>4. CASE Truncate \/ Point \/ Adopt \/ Remember \/ WriteBundle
  BY <1>2, <1>4 DEF Truncate, Point, Adopt, Remember, WriteBundle
<1>5. CASE Unlock
  BY <1>2, <1>3, <1>5 DEF Unlock
<1>6. CASE Create
  BY <1>1, <1>3, <1>6, ArgumentsProceed DEF Create, At
<1>7. CASE OpenSession \/ ShowKey \/ Apply \/ SaveSettings \/ Mutate \/ Reopen
  BY <1>2, <1>7 DEF OpenSession, ShowKey, Apply, SaveSettings, Mutate, Reopen
<1>8. CASE Rekey \/ ArchiveVault \/ ArchiveBundle \/ Reset
  BY <1>2, <1>8 DEF Rekey, ArchiveVault, ArchiveBundle, Reset
<1>9. CASE NextDefinition
  <2>1. /\ todo' # <<>> /\ Head(todo') = "truncate"
        /\ todo \in Toggles \cup Rotating
        /\ todo \in Toggles => todo' \in Toggles
        /\ todo \in Rotating => todo' \in Rotating \cup Rotated
    <3> DEFINE visit == SwitchSteps \o <<"mutate">> \o todo
               back == SwitchSteps \o <<"reopen">> \o Tail(todo)
    <3>1. todo \in Plans /\ Head(todo) = "next" /\ todo' \in {visit, back}
      BY <1>1, <1>9 DEF NextDefinition, At, Types
    <3>2. /\ visit # <<>> /\ Head(visit) = "truncate" /\ back # <<>> /\ Head(back) = "truncate"
          /\ \/ todo \in Toggles /\ visit \in Toggles /\ back \in Toggles
             \/ todo \in Rotating /\ visit \in Rotating /\ back \in Rotated
      BY <1>1, <3>1, LoopSteps
    <3> HIDE DEF visit, back
    <3> QED
      BY <3>1, <3>2, PlansApart
  <2>2. /\ op'.name \in Names /\ op'.pw = op.pw /\ op'.home = op.home /\ op'.key = op.key
    BY <1>1, <1>9, <2>1 DEF NextDefinition, Arguments, Types, Locals
  <2>3. op.pw \in Passwords /\ op.home \in Names /\ (todo \in Rotating => op.key # 0)
    BY <1>1, <1>9, <2>1, PlansApart DEF Arguments, Ahead, NextDefinition, At
  <2> QED
    BY <2>1, <2>2, <2>3, PlansApart DEF Arguments, Switching, Ahead
<1> QED
  BY <1>4, <1>5, <1>6, <1>7, <1>8, <1>9 DEF Step

\* A request gives its handler the arguments its steps use.
LEMMA ArgumentsRequest ==
    ASSUME TInv, AdminRequest \/ AgentRequest \/ AutoLock \/ Fault \/ Crash \/ Restart,
           UNCHANGED deployment
    PROVE  Arguments'
<1> USE DEF memory, disk, client, Start
<1>1. Types /\ Arguments /\ Active \in Names /\ (\A n \in Names : CanEnsure(n) \in BOOLEAN)
  BY ActiveIsName DEF TInv, CanEnsure
<1>2. /\ KnownMaster \in Passwords \cup {None} /\ master \in Passwords \cup {None}
      /\ deployment.typed \subseteq Passwords /\ MaxKeys' = MaxKeys /\ minted \in Nat
  BY <1>1, KnownPassword DEF Types, MaxKeys
<1>3. ASSUME todo' = todo, op' = op, minted' = minted PROVE Arguments'
  BY <1>1, <1>2, <1>3 DEF Arguments, Switching, Ahead
<1>4. ASSUME todo' = <<>> PROVE Arguments'
  BY <1>4, ArgumentsEmpty
<1> USE DEF NoOp
<1>5. ASSUME NEW pw \in deployment.typed, Setup(pw) PROVE Arguments'
  <2>1. /\ todo' \in Setups /\ todo' # <<>> /\ Head(todo') = "create" /\ op'.pw = pw
        /\ UNCHANGED minted /\ minted < MaxKeys
    BY <1>5, FirstSteps DEF Setup
  <2> QED
    BY <1>2, <2>1, PlansApart DEF Arguments, Switching, Ahead
<1>6. ASSUME NEW pw \in deployment.typed, RecoveryReset(pw) PROVE Arguments'
  <2>1. todo' \in Rekeys /\ todo' # <<>> /\ Head(todo') = "rekey" /\ op'.pw = pw
    BY <1>6, FirstSteps DEF RecoveryReset
  <2> QED
    BY <1>2, <2>1, PlansApart DEF Arguments, Switching, Ahead
<1>7. CASE UpdateSettings
  <2>1. todo' \in Endings /\ todo' # <<>> /\ Head(todo') = "settings"
    BY <1>7, FirstSteps DEF UpdateSettings
  <2> QED
    BY <2>1, PlansApart DEF Arguments, Switching, Ahead
<1>8. CASE RotateKey
  <2>1. todo' \in Rotating /\ todo' # <<>> /\ Head(todo') = "next"
    BY <1>8, FirstSteps DEF RotateKey, AllDefinitions
  <2>2. op'.key # 0 /\ op'.pw \in Passwords /\ op'.home \in Names
    BY <1>1, <1>2, <1>8 DEF RotateKey, AllDefinitions
  <2> QED
    BY <2>1, <2>2, PlansApart DEF Arguments, Switching, Ahead
<1>9. ASSUME NEW on \in BOOLEAN, ToggleAgent(on) PROVE Arguments'
  <2>1. todo' \in Toggles /\ todo' # <<>> /\ Head(todo') = "next"
    BY <1>9, FirstSteps DEF ToggleAgent, AllDefinitions
  <2>2. op'.pw \in Passwords /\ op'.home \in Names
    BY <1>1, <1>2, <1>9 DEF ToggleAgent, AllDefinitions
  <2> QED
    BY <2>1, <2>2, PlansApart DEF Arguments, Switching, Ahead
<1>10. ASSUME NEW n \in Names, SelectVault(n) PROVE Arguments'
  <2>1. todo' \in Selects /\ todo' # <<>> /\ Head(todo') = "truncate" /\ op'.name = n
    BY <1>10, FirstSteps DEF SelectVault
  <2> QED
    BY <2>1, PlansApart DEF Arguments, Switching, Ahead
<1>11. ASSUME NEW n \in Names, op' = [NoOp EXCEPT !.name = n], todo' = EnsureSteps(n)
       PROVE Arguments'
  <2>1. todo' \in Visits /\ todo' # <<>> /\ Head(todo') \in {"truncate", "unlock"} /\ op'.name = n
    BY <1>11, EnsureFirst
  <2> QED
    BY <2>1, PlansApart DEF Arguments, Switching, Ahead
<1>12. ASSUME NEW n \in Names, ArchiveDefinition(n) PROVE Arguments'
  <2>1. todo' \in Archives /\ todo' # <<>> /\ Head(todo') = "archive_vault" /\ op'.name = n
    BY <1>12, FirstSteps DEF ArchiveDefinition
  <2> QED
    BY <2>1, PlansApart DEF Arguments, Switching, Ahead
<1>13. ASSUME NEW n \in Names, NEW f \in Forms, CreateDefinition(n, f) PROVE Arguments'
  <2>1. /\ todo' \in Creates /\ todo' # <<>> /\ Head(todo') = "truncate"
        /\ op'.name = n /\ op'.form = f /\ op'.pw = master /\ master \in Passwords
        /\ UNCHANGED minted /\ minted < MaxKeys
    BY <1>2, <1>13, FirstSteps DEF CreateDefinition
  <2> QED
    BY <1>2, <2>1, PlansApart DEF Arguments, Switching, Ahead
<1>14. ASSUME NEW n \in Names, NEW f \in Forms, UpdateDefinition(n, f) PROVE Arguments'
  <2>1. /\ todo' \in Updates /\ todo' # <<>> /\ Head(todo') \in {"truncate", "unlock"}
        /\ op'.name = n /\ op'.form = f
    BY <1>14, EnsureFirst DEF UpdateDefinition
  <2> QED
    BY <2>1, PlansApart DEF Arguments, Switching, Ahead
<1>15. ASSUME NEW n \in Names, NEW c \in copies, NEW overwrite \in BOOLEAN,
              NEW activate \in BOOLEAN, Import(n, c, overwrite, activate)
       PROVE  Arguments'
  <2>1. CASE ~activate
    BY <1>3, <1>15, <2>1 DEF Import
  <2>2. CASE activate
    <3>1. /\ todo' \in Activations /\ todo' # <<>> /\ Head(todo') = "truncate" /\ op'.name = n
      BY <1>15, <2>2, FirstSteps DEF Import
    <3> QED
      BY <3>1, PlansApart DEF Arguments, Switching, Ahead
  <2> QED
    BY <2>1, <2>2
<1>16. ASSUME NEW n \in Names, NEW key \in 1..minted, McpCall(n, key) PROVE Arguments'
  BY <1>3, <1>11, <1>16 DEF McpCall
<1>17. ASSUME NEW n \in Names, EditDefinition(n) \/ Download(n) PROVE Arguments'
  BY <1>3, <1>11, <1>17 DEF EditDefinition, Download
<1>18. ASSUME NEW pw \in deployment.typed, Login(pw) PROVE Arguments'
  BY <1>3, <1>18 DEF Login
<1>19. CASE LockVault \/ Logout \/ AutoLock \/ Restart
  BY <1>3, <1>19 DEF LockVault, Logout, AutoLock, Restart
<1>20. CASE Fault \/ Crash
  BY <1>4, <1>20 DEF Fault, Crash, Raise
<1> QED
  BY <1>5, <1>6, <1>7, <1>8, <1>9, <1>10, <1>12, <1>13, <1>14, <1>15, <1>16, <1>17, <1>18,
     <1>19, <1>20 DEF AdminRequest, AgentRequest

----------------------------------------------------------------------------
(* A vault is open where a step saves it                                   *)

\* The vault stays open while neither the pointer nor the object in memory changes.
LEMMA UnlockedNext ==
    /\ Unlocked' <=> mem'.name = Active' /\ mem'.data # None
    /\ UNCHANGED <<mem, pointer>> => (Unlocked' <=> Unlocked) /\ Active' = Active
BY DEF Unlocked, Current, Active, LockedVault

\* A handler that has ended saves nothing.
LEMMA ReadyEmpty == ASSUME todo' = <<>> PROVE Ready'
BY PlansApart DEF Ready, Switching, Ahead

\* Handlers that do not save what is in memory need nothing of it.
LEMMA ReadyElsewhere ==
    ASSUME todo' # <<>>, todo' \notin Creates \cup Updates,
           Head(todo') \notin {"adopt", "remember", "bundle", "apply", "settings", "rekey"},
           todo' \in Setups => Head(todo') # "show_key"
    PROVE  Ready'
BY DEF Ready, Switching, Ahead

\* The steps of the handlers open a vault before they save it.
LEMMA ReadyStep ==
    ASSUME TInv, Step, UNCHANGED deployment, Types'
    PROVE  Ready'
<1> USE DEF disk, memory, client, Raise
<1>1. Types /\ Arguments /\ Ready /\ todo # <<>> /\ todo \in Plans /\ Active \in Names
  BY ActiveIsName DEF TInv, Types, Step, At, Truncate, Point, Unlock, Create, Adopt, Remember,
     WriteBundle, OpenSession, ShowKey, Apply, SaveSettings, NextDefinition, Mutate, Reopen,
     Rekey, ArchiveVault, ArchiveBundle, Reset
<1>2. SUFFICES ASSUME todo' # <<>> PROVE Ready'
  BY ReadyEmpty
<1>3. ASSUME Proceed PROVE todo' = Tail(todo) /\ op' = op
  BY <1>1, <1>2, <1>3, ProceedKeepsLocals
<1>4. CASE Truncate
  <2>1. Head(todo') = "point"
    BY <1>1, <1>2, <1>3, <1>4, AfterTruncate DEF Truncate, At
  <2> QED
    BY <1>2, <2>1, PlansApart DEF Ready, Switching, Ahead
<1>5. CASE Point
  <2>1. /\ op.name \in Names /\ Active' = op.name
        /\ Head(todo') \in {"create", "unlock", "reset", "mutate", "reopen"}
    BY <1>1, <1>2, <1>3, <1>5, AfterPoint DEF Point, At, Active, Arguments, Switching, Ahead
  <2> QED
    BY <1>2, <1>3, <1>5, <2>1 DEF Ready, Switching, Ahead, Point
<1>6. CASE Unlock
  <2>1. pointer' = pointer /\ Active' = Active /\ Proceed
    BY <1>2, <1>6 DEF Unlock, Active
  <2>2. Unlocked'
    <3>1. CASE UNCHANGED mem /\ Unlocked
      BY <2>1, <3>1, UnlockedNext
    <3>2. CASE ~Unlocked
      <4>1. Opens(Active, KnownMaster) /\ mem' = Opened(Active)
        BY <1>2, <1>6, <3>2 DEF Unlock
      <4> QED
        BY <1>1, <2>1, <4>1, WhatOpens, UnlockedNext
    <3> QED
      BY <1>6, <3>1, <3>2 DEF Unlock
  <2> QED
    BY <1>1, <1>2, <1>3, <1>6, <2>1, <2>2, AfterUnlock, PlansApart
       DEF Unlock, At, Ready, Switching, Ahead
<1>7. ASSUME NEW step \in {"create", "adopt", "apply", "settings", "mutate", "rekey"}, At(step),
             mem' = Edited(step), UNCHANGED pointer,
             step = "mutate" => Opens(Active, op.pw),
             minted' = IF step = "create" THEN minted + 1 ELSE minted
      PROVE  Unlocked' /\ Active' = Active
  BY <1>7, EditsAreOpen, UnlockedNext DEF Active
<1>8. CASE Create \/ Adopt
  <2>1. Unlocked' /\ Active' = Active /\ Proceed
    BY <1>2, <1>7, <1>8 DEF Create, Adopt, Save
  <2>2. \/ todo' \in Setups /\ Head(todo') = "remember"
        \/ todo \in Creates /\ todo' \in Creates /\ Head(todo) \in {"create", "adopt"}
    BY <1>1, <1>3, <1>8, <2>1, AfterCreate, AfterAdopt DEF Create, Adopt, At
  <2> QED
    BY <1>1, <1>3, <2>1, <2>2, PlansApart DEF Ready, Switching, Ahead
<1>9. CASE Remember \/ WriteBundle
  <2>1. UNCHANGED <<mem, pointer>> /\ Proceed /\ Head(todo) \in {"remember", "bundle"}
    BY <1>9 DEF Remember, WriteBundle, At
  <2>2. Unlocked' /\ Active' = Active
    BY <1>1, <2>1, UnlockedNext DEF Ready, Ahead
  <2>3. todo' \in Creates \cup Updates => todo \in Creates
    BY <1>1, <1>3, <2>1, AfterRemember, AfterBundle, PlansApart
  <2> QED
    BY <1>1, <1>3, <2>1, <2>2, <2>3 DEF Ready, Switching, Ahead
<1>10. CASE OpenSession \/ ShowKey \/ Apply \/ SaveSettings \/ Rekey \/ ArchiveVault \/ ArchiveBundle \/ Reset
  <2>1. /\ Proceed
        /\ Head(todo) \in {"session", "show_key", "apply", "settings", "rekey",
                           "archive_vault", "archive_bundle", "reset"}
    BY <1>10 DEF OpenSession, ShowKey, Apply, SaveSettings, Rekey, ArchiveVault, ArchiveBundle,
       Reset, At
  <2>2. /\ todo' \in Endings \cup Rekeys \cup Archives
        /\ Head(todo') \in {"session", "bundle", "archive_bundle"}
        /\ Head(todo') = "bundle" => Head(todo) = "rekey"
    BY <1>1, <1>2, <1>3, <2>1, AfterSession, AfterShowKey, AfterApply, AfterSettings, AfterRekey,
       AfterArchiveVault, AfterArchiveBundle, AfterReset
  <2>3. Head(todo') = "bundle" => Unlocked'
    BY <1>7, <1>10, <2>2 DEF OpenSession, ShowKey, Apply, SaveSettings, Rekey, ArchiveVault,
       ArchiveBundle, Reset, At, Save
  <2> QED
    BY <1>2, <2>2, <2>3, PlansApart DEF Ready, Switching, Ahead
<1>11. CASE NextDefinition
  <2>1. /\ todo' \in Toggles \cup Rotating \cup Rotated /\ Head(todo') = "truncate"
    BY <1>1, <1>11, LoopSteps DEF NextDefinition, At
  <2> QED
    BY <1>2, <2>1, PlansApart DEF Ready, Switching, Ahead
<1>12. CASE Mutate \/ Reopen
  <2>1. /\ todo' \in Toggles \cup Rotating \cup Rotated /\ Head(todo') \in {"next", "show_key"}
    BY <1>1, <1>2, <1>3, <1>12, AfterMutate, AfterReopen DEF Mutate, Reopen, At
  <2> QED
    BY <1>2, <2>1, PlansApart DEF Ready, Switching, Ahead
<1> QED
  BY <1>4, <1>5, <1>6, <1>8, <1>9, <1>10, <1>11, <1>12 DEF Step

\* A request that saves at once found the vault open.
LEMMA ReadyRequest ==
    ASSUME TInv, AdminRequest \/ AgentRequest \/ AutoLock \/ Fault \/ Crash \/ Restart,
           UNCHANGED deployment
    PROVE  Ready'
<1> USE DEF memory, disk, client, Start
<1>1. Types /\ Ready /\ Active \in Names
  BY ActiveIsName DEF TInv
<1>2. ASSUME todo' = <<>> PROVE Ready'
  BY <1>2, ReadyEmpty
<1>3. ASSUME todo' # <<>>, todo' \notin Creates \cup Updates,
             Head(todo') \notin {"create", "adopt", "remember", "bundle", "apply", "settings",
                                 "rekey", "show_key"}
      PROVE  Ready'
  BY <1>3, ReadyElsewhere
<1>4. ASSUME NEW pw \in deployment.typed, Setup(pw) PROVE Ready'
  <2>1. todo' \in Setups /\ todo' # <<>> /\ Head(todo') = "create"
    BY <1>4, FirstSteps DEF Setup
  <2> QED
    BY <2>1, PlansApart, ReadyElsewhere
<1>5. ASSUME NEW pw \in deployment.typed, RecoveryReset(pw) PROVE Ready'
  <2>1. todo' \in Rekeys /\ todo' # <<>>
    BY <1>5, FirstSteps DEF RecoveryReset
  <2>2. Unlocked'
    BY <1>1, <1>5, WhatIsUnlocked, WhatOpens, UnlockedNext DEF RecoveryReset, Active
  <2> QED
    BY <2>1, <2>2, PlansApart DEF Ready, Switching, Ahead
<1>6. CASE UpdateSettings
  <2>1. todo' \in Endings /\ todo' # <<>> /\ Unlocked'
    BY <1>6, FirstSteps, UnlockedNext DEF UpdateSettings, Admin
  <2> QED
    BY <2>1, PlansApart DEF Ready, Switching, Ahead
<1>7. CASE RotateKey \/ \E on \in BOOLEAN : ToggleAgent(on)
  <2>1. todo' \in Rotating \cup Toggles /\ todo' # <<>> /\ Head(todo') = "next"
    BY <1>7, FirstSteps DEF RotateKey, ToggleAgent, AllDefinitions
  <2> QED
    BY <1>3, <2>1, PlansApart
<1>8. ASSUME NEW n \in Names, SelectVault(n) PROVE Ready'
  <2>1. todo' \in Selects /\ todo' # <<>> /\ Head(todo') = "truncate"
    BY <1>8, FirstSteps DEF SelectVault
  <2> QED
    BY <1>3, <2>1, PlansApart
<1>9. ASSUME NEW n \in Names, todo' = EnsureSteps(n) PROVE Ready'
  <2>1. todo' \in Visits /\ todo' # <<>> /\ Head(todo') \in {"truncate", "unlock"}
    BY <1>9, EnsureFirst
  <2> QED
    BY <1>3, <2>1, PlansApart
<1>10. ASSUME NEW n \in Names, ArchiveDefinition(n) PROVE Ready'
  <2>1. todo' \in Archives /\ todo' # <<>> /\ Head(todo') = "archive_vault"
    BY <1>10, FirstSteps DEF ArchiveDefinition
  <2> QED
    BY <1>3, <2>1, PlansApart
<1>11. ASSUME NEW n \in Names, NEW f \in Forms, CreateDefinition(n, f) PROVE Ready'
  <2>1. todo' \in Creates /\ todo' # <<>> /\ Head(todo') = "truncate"
    BY <1>11, FirstSteps DEF CreateDefinition
  <2> QED
    BY <2>1, PlansApart DEF Ready, Switching, Ahead
<1>12. ASSUME NEW n \in Names, NEW f \in Forms, UpdateDefinition(n, f) PROVE Ready'
  <2>1. /\ todo' \in Updates /\ todo' # <<>> /\ op'.name = n
        /\ Head(todo') = IF Active = n THEN "unlock" ELSE "truncate"
        /\ Active' = Active
    BY <1>12, EnsureFirst DEF UpdateDefinition, NoOp, Active
  <2> QED
    BY <2>1, PlansApart DEF Ready, Switching, Ahead
<1>13. ASSUME NEW n \in Names, NEW c \in copies, NEW overwrite \in BOOLEAN,
              NEW activate \in BOOLEAN, Import(n, c, overwrite, activate)
       PROVE  Ready'
  <2>1. CASE ~activate
    BY <1>2, <1>13, <2>1 DEF Import, Admin, Idle
  <2>2. CASE activate
    <3>1. todo' \in Activations /\ todo' # <<>> /\ Head(todo') = "truncate"
      BY <1>13, <2>2, FirstSteps DEF Import
    <3> QED
      BY <1>3, <3>1, PlansApart
  <2> QED
    BY <2>1, <2>2
<1>14. ASSUME NEW n \in Names, NEW key \in 1..minted, McpCall(n, key) PROVE Ready'
  BY <1>2, <1>9, <1>14 DEF McpCall, Idle
<1>15. ASSUME NEW n \in Names, EditDefinition(n) \/ Download(n) PROVE Ready'
  BY <1>2, <1>9, <1>15 DEF EditDefinition, Download, Admin, Idle
<1>16. ASSUME NEW pw \in deployment.typed, Login(pw) PROVE Ready'
  BY <1>2, <1>16 DEF Login, Idle
<1>17. CASE LockVault \/ Logout \/ AutoLock
  BY <1>2, <1>17 DEF LockVault, Logout, AutoLock, Idle
<1>18. CASE Fault \/ Crash
  BY <1>2, <1>18 DEF Fault, Crash, Raise
<1>19. CASE Restart
  <2>1. UNCHANGED <<todo, op, pointer>> /\ Active' = Active
    BY <1>19 DEF Restart, Active
  <2>2. Unlocked => Unlocked'
    BY <1>1, <1>19, <2>1, WhatOpens, UnlockedNext DEF Restart
  <2> QED
    BY <1>1, <2>1, <2>2 DEF Ready, Switching, Ahead
<1> QED
  BY <1>4, <1>5, <1>6, <1>7, <1>8, <1>10, <1>11, <1>12, <1>13, <1>14, <1>15, <1>16, <1>17,
     <1>18, <1>19 DEF AdminRequest, AgentRequest

----------------------------------------------------------------------------
(* Types hold                                                              *)

\* The types, the arguments and the open vaults are right at the start ...
LEMMA TInit == Init => TInv
<1> SUFFICES ASSUME Init PROVE TInv
  OBVIOUS
<1>1. MaxKeys \in Nat /\ minted = 0 /\ todo = <<>> /\ op = NoOp
  BY VaultManagerAssumption DEF Init, MaxKeys
<1>2. NoOp \in Locals
  BY <1>1, VaultManagerAssumption DEF NoOp, Locals
<1>3. LockedVault(DefaultName) \in LockedMem
  BY VaultManagerAssumption DEF LockedVault, LockedMem
<1>4. todo \in Plans
  BY <1>1 DEF Plans
<1>5. /\ vault \in [Names -> MintedVault \cup {None}]
      /\ bundle \in [Names -> Passwords \cup {None}]
      /\ acked \in [Names -> SUBSET Forms] /\ copies \subseteq MintedVault
  BY DEF Init
<1>6. /\ pointer \in Names \cup {None, Empty} /\ master \in Passwords \cup {None}
      /\ marker \in BOOLEAN /\ up \in BOOLEAN /\ session \in BOOLEAN /\ timer \in BOOLEAN
      /\ deployment \in Deployments
  BY DEF Init
<1>7. mem \in OpenMem \cup LockedMem /\ op \in Locals
  BY <1>1, <1>2, <1>3 DEF Init
<1>8. minted \in 0..MaxKeys /\ shown \in 0..minted
  BY <1>1 DEF Init
<1>9. Types
  BY <1>4, <1>5, <1>6, <1>7, <1>8 DEF Types
<1> QED
  BY <1>1, <1>9, PlansApart DEF TInv, Arguments, Ready, Switching, Ahead

\* ... and after each step.
LEMMA TStep == TInv /\ [Next]_vars => TInv'
<1> SUFFICES ASSUME TInv, [Next]_vars PROVE TInv'
  OBVIOUS
<1>1. CASE Step /\ UNCHANGED deployment
  BY <1>1, TypesStep, ArgumentsStep, ReadyStep DEF TInv
<1>2. CASE /\ AdminRequest \/ AgentRequest \/ AutoLock \/ Fault \/ Crash \/ Restart
           /\ UNCHANGED deployment
  BY <1>2, TypesRequest, ArgumentsRequest, ReadyRequest DEF TInv
<1>3. CASE UNCHANGED vars
  BY <1>3 DEF vars, disk, memory, client, TInv, Types, Arguments, Ready, MintedVault, OpenMem,
     MintedData, Locals, MaxKeys, Switching, Ahead, Unlocked, Current, Active
<1> QED
  BY <1>1, <1>2, <1>3 DEF Next

\* What the later proofs know of every reachable state.
LEMMA SpecTInv == Spec => []TInv
BY TInit, TStep, PTL DEF Spec

\* Types holds of every key that was minted, so TypeOK holds.
LEMMA TInvIsTypeOK == TInv => TypeOK
<1> SUFFICES ASSUME TInv PROVE TypeOK
  OBVIOUS
<1>1. 0..minted \subseteq 0..MaxKeys
  BY KnownPassword DEF TInv, Types
<1>2. MintedData \subseteq Data
  BY <1>1 DEF MintedData, Data
<1>3. MintedVault \subseteq StoredVault
  BY <1>2 DEF MintedVault, StoredVault
<1>4. OpenMem \subseteq [name : Names, data : Data, pw : Passwords]
  BY <1>2 DEF OpenMem
<1> QED
  BY <1>1, <1>3, <1>4, PlansAreSequences DEF TInv, Types, TypeOK, LockedMem, Locals

\* Every variable stays in its domain, whatever the operations, crashes and
\* failed writes: a handler never switches to a definition it has no name for,
\* never saves without a password, and a cached vault that is unlocked has one.
THEOREM SpecTypeOK == Spec => []TypeOK
BY SpecTInv, TInvIsTypeOK, PTL

----------------------------------------------------------------------------
(* An open vault has its timer                                             *)

\* A step that opens a vault starts its timer, or a later one of the handler does.
LEMMA TimerStep ==
    ASSUME TInv, TimerInv, Step, UNCHANGED deployment
    PROVE  TimerInv'
<1> USE DEF disk, memory, client
<1>1. Types /\ Ready /\ todo # <<>> /\ todo \in Plans /\ Active \in Names
  BY ActiveIsName DEF TInv, Types, Step, At, Truncate, Point, Unlock, Create, Adopt, Remember,
     WriteBundle, OpenSession, ShowKey, Apply, SaveSettings, NextDefinition, Mutate, Reopen,
     Rekey, ArchiveVault, ArchiveBundle, Reset
<1>2. SUFFICES ASSUME mem'.data # None, ~DiskFaults PROVE timer' \/ Untimed'
  BY DEF TimerInv, DiskFaults
<1>3. ASSUME Proceed PROVE todo' = Tail(todo)
  BY <1>1, <1>3, ProceedKeepsLocals
<1>4. mem.data = None \/ timer \/ Untimed
  BY <1>2 DEF TimerInv
<1>5. \A n : LockedVault(n).data = None
  BY DEF LockedVault
<1>6. CASE Truncate
  <2>1. \/ ~Untimed
        \/ todo' \in Toggles \cup Rotating \cup Rotated /\ todo' # <<>> /\ Head(todo') = "point"
    BY <1>1, <1>3, <1>6, AfterTruncate, PlansApart DEF Truncate, At, Untimed, Ahead
  <2> QED
    BY <1>2, <1>4, <1>6, <2>1 DEF Truncate, Untimed, Ahead
<1>7. CASE Point \/ Reset
  BY <1>2, <1>5, <1>7 DEF Point, Reset
<1>8. CASE Unlock \/ Apply \/ SaveSettings
  <2>1. ~Untimed
    BY <1>1, <1>8, AfterUnlock, AfterApply, AfterSettings, PlansApart
       DEF Unlock, Apply, SaveSettings, At, Untimed, Ahead
  <2>2. CASE Unlock
    BY <1>2, <1>4, <2>1, <2>2 DEF Unlock
  <2>3. CASE Apply \/ SaveSettings
    <3>1. mem.data # None /\ UNCHANGED timer
      BY <1>1, <2>3, WhatIsUnlocked DEF Apply, SaveSettings, Ready, At, Ahead
    <3> QED
      BY <1>4, <2>1, <3>1
  <2> QED
    BY <1>8, <2>2, <2>3
<1>9. CASE Create
  <2>1. CASE UNCHANGED mem
    <3>1. ~Untimed
      BY <1>1, <1>9, AfterCreate, PlansApart DEF Create, At, Untimed, Ahead
    <3> QED
      BY <1>2, <1>4, <1>9, <2>1, <3>1 DEF Create
  <2>2. CASE Proceed
    BY <1>1, <1>3, <1>9, <2>2, AfterCreate DEF Create, At, Untimed, Ahead
  <2> QED
    BY <1>9, <2>1, <2>2 DEF Create
<1>10. CASE Adopt \/ Remember \/ Rekey
  BY <1>1, <1>3, <1>10, AfterAdopt, AfterRemember, AfterRekey
     DEF Adopt, Remember, Rekey, At, Untimed, Ahead
<1>11. CASE WriteBundle \/ Reopen
  BY <1>11 DEF WriteBundle, Reopen
<1>12. CASE OpenSession \/ ShowKey \/ ArchiveVault \/ ArchiveBundle
  <2>1. ~Untimed
    BY <1>1, <1>12, AfterSession, AfterShowKey, AfterArchiveVault, AfterArchiveBundle, PlansApart
       DEF OpenSession, ShowKey, ArchiveVault, ArchiveBundle, At, Untimed, Ahead
  <2> QED
    BY <1>2, <1>4, <1>12, <2>1 DEF OpenSession, ShowKey, ArchiveVault, ArchiveBundle
<1>13. CASE NextDefinition
  BY <1>1, <1>13, LoopSteps DEF NextDefinition, At, Untimed, Ahead
<1>14. CASE Mutate
  BY <1>1, <1>3, <1>14, AfterMutate DEF Mutate, At, Untimed, Ahead
<1> QED
  BY <1>6, <1>7, <1>8, <1>9, <1>10, <1>11, <1>12, <1>13, <1>14 DEF Step

\* Nothing but a failed write leaves a vault open without a timer.
LEMMA TimerNext == TInv /\ TimerInv /\ [Next]_vars => TimerInv'
<1> SUFFICES ASSUME TInv, TimerInv, [Next]_vars PROVE TimerInv'
  OBVIOUS
<1> USE DEF disk, memory, client, Start
<1>1. Types
  BY DEF TInv
<1>2. \A n : LockedVault(n).data = None
  BY DEF LockedVault
<1>3. ASSUME UNCHANGED <<mem, timer, todo, deployment>> PROVE TimerInv'
  BY <1>3 DEF TimerInv, DiskFaults, Untimed, Ahead
<1>4. ASSUME Idle, UNCHANGED <<mem, timer, deployment>> PROVE TimerInv'
  BY <1>4, PlansApart DEF TimerInv, DiskFaults, Untimed, Ahead, Idle
<1>5. ASSUME timer' \/ mem'.data = None PROVE TimerInv'
  BY <1>5 DEF TimerInv
<1>6. ASSUME NEW pw \in deployment.typed, UNCHANGED deployment,
             Setup(pw) \/ Login(pw) \/ RecoveryReset(pw)
      PROVE  TimerInv'
  <2>1. RecoveryReset(pw) => Ahead({"rekey"})'
    BY FirstSteps DEF RecoveryReset, Ahead
  <2>2. RecoveryReset(pw) => TimerInv'
    BY <2>1 DEF TimerInv, Untimed, Ahead
  <2> QED
    BY <1>4, <1>5, <1>6, <2>2 DEF Setup, Login
<1>7. CASE LockVault \/ AutoLock \/ Crash
  BY <1>2, <1>5, <1>7 DEF LockVault, AutoLock, Crash
<1>8. CASE UNCHANGED deployment /\ (Logout \/ UpdateSettings \/ RotateKey)
  BY <1>4, <1>8 DEF Logout, UpdateSettings, RotateKey, AllDefinitions, Admin
<1>9. ASSUME NEW on \in BOOLEAN, ToggleAgent(on), UNCHANGED deployment PROVE TimerInv'
  BY <1>4, <1>9 DEF ToggleAgent, AllDefinitions, Admin
<1>10. ASSUME NEW n \in Names, UNCHANGED deployment,
              SelectVault(n) \/ EditDefinition(n) \/ ArchiveDefinition(n) \/ Download(n)
       PROVE  TimerInv'
  BY <1>4, <1>10 DEF SelectVault, EditDefinition, ArchiveDefinition, Download, Admin
<1>11. ASSUME NEW n \in Names, NEW f \in Forms, UNCHANGED deployment,
              CreateDefinition(n, f) \/ UpdateDefinition(n, f)
       PROVE  TimerInv'
  BY <1>4, <1>11 DEF CreateDefinition, UpdateDefinition, Admin
<1>12. ASSUME NEW n \in Names, NEW c \in copies, NEW overwrite \in BOOLEAN,
              NEW activate \in BOOLEAN, Import(n, c, overwrite, activate), UNCHANGED deployment
       PROVE  TimerInv'
  BY <1>4, <1>12 DEF Import, Admin
<1>13. ASSUME NEW n \in Names, NEW key \in 1..minted, McpCall(n, key), UNCHANGED deployment
       PROVE  TimerInv'
  <2>1. CASE Unlocked
    <3>1. UNCHANGED mem /\ timer' = timer
      BY <1>1, <1>13, <2>1, WhatIsUnlocked DEF McpCall, TInv, Types
    <3> QED
      BY <1>4, <1>13, <3>1 DEF McpCall
  <2>2. CASE ~Unlocked
    BY <1>5, <1>13, <2>2 DEF McpCall
  <2> QED
    BY <2>1, <2>2
<1>14. CASE Restart /\ UNCHANGED deployment
  BY <1>3, <1>5, <1>14 DEF Restart
<1>15. CASE Fault /\ UNCHANGED deployment
  BY <1>15 DEF Fault, TimerInv, DiskFaults
<1>16. CASE UNCHANGED vars
  BY <1>3, <1>16 DEF vars
<1> QED
  BY <1>6, <1>7, <1>8, <1>9, <1>10, <1>11, <1>12, <1>13, <1>14, <1>15, <1>16, TimerStep
     DEF Next, AdminRequest, AgentRequest

\* Between requests a decrypted vault is never left in memory without the
\* thread that clears it, in an instance whose writes do not fail: the steps
\* that may leave one are followed by the step that starts the thread.
THEOREM SpecUnlockedHasTimer == Spec => []UnlockedHasTimer
<1>1. Init => TimerInv
  BY DEF Init, TimerInv, LockedVault
<1>2. TInv /\ TimerInv => UnlockedHasTimer
  BY WhatIsUnlocked, PlansApart
     DEF TInv, TimerInv, UnlockedHasTimer, TimerGuardsVault, Quiescent, Untimed, Ahead
<1> QED
  BY <1>1, <1>2, SpecTInv, TimerNext, PTL DEF Spec

----------------------------------------------------------------------------
(* Acknowledged edits                                                      *)

\* What a step that saves leaves on the disk and in memory.
LEMMA WhatASaveLeaves ==
    ASSUME TInv, Types', UNCHANGED deployment,
           NEW step \in {"create", "adopt", "apply", "settings", "mutate", "rekey"}, At(step),
           step = "mutate" => Opens(Active, op.pw), Save(step),
           minted' = IF step = "create" THEN minted + 1 ELSE minted
    PROVE  /\ Active \in Names /\ mem' = Edited(step) /\ mem'.name = Active /\ mem'.data # None
           /\ vault'[Active] = [pw |-> mem'.pw, data |-> mem'.data] /\ vault'[Active] # None
           /\ vault'[Active].pw = mem'.pw /\ vault'[Active].data = mem'.data
           /\ \A n \in Names \ {Active} : vault'[n] = vault[n]
<1>1. Types /\ Active \in Names
  BY ActiveIsName DEF TInv
<1>2. mem' = Edited(step) /\ mem' \in OpenMem' /\ mem'.name = Active /\ mem'.data # None
  BY EditsAreOpen DEF Save
<1>3. /\ vault'[Active] = [pw |-> mem'.pw, data |-> mem'.data]
      /\ \A n \in Names \ {Active} : vault'[n] = vault[n]
  BY <1>1, <1>2, WhatIsSaved DEF Save
<1>4. [pw |-> mem'.pw, data |-> mem'.data] \in MintedVault' /\ minted' \in Nat
  BY <1>2, KnownPassword DEF OpenMem, MintedVault, Types, TInv
<1>5. vault'[Active] # None
  BY <1>3, <1>4, NoneIsNoRecord DEF MintedVault, MintedData
<1> QED
  BY <1>1, <1>2, <1>3, <1>5

\* The steps of the handlers keep the acknowledged forms, in memory and on the disk.
LEMMA AckStep ==
    ASSUME TInv, AckInv, NothingIsRestored, Step, UNCHANGED deployment, Types'
    PROVE  AcknowledgedEditsSurvive' /\ MemoryHoldsAcked'
<1> USE DEF disk, memory, client, Raise
<1>1. /\ Types /\ Ready /\ todo # <<>> /\ todo \in Plans /\ Active \in Names
      /\ acked \in [Names -> SUBSET Forms]
      /\ AcknowledgedEditsSurvive /\ MemoryHoldsAcked
  BY ActiveIsName DEF TInv, AckInv, Types, Step, At, Truncate, Point, Unlock, Create, Adopt,
     Remember, WriteBundle, OpenSession, ShowKey, Apply, SaveSettings, NextDefinition, Mutate,
     Reopen, Rekey, ArchiveVault, ArchiveBundle, Reset
<1>2. ASSUME Proceed PROVE todo' = Tail(todo)
  BY <1>1, <1>2, ProceedKeepsLocals
<1>3. \A n : LockedVault(n).data = None
  BY DEF LockedVault
<1>4. ASSUME UNCHANGED <<vault, acked>> PROVE AcknowledgedEditsSurvive'
  BY <1>1, <1>4 DEF AcknowledgedEditsSurvive
<1>5. ASSUME UNCHANGED <<mem, acked>>, todo' \notin Activations => todo \notin Activations
      PROVE  MemoryHoldsAcked'
  BY <1>1, <1>5 DEF MemoryHoldsAcked
<1>6. ASSUME mem'.data = None PROVE MemoryHoldsAcked'
  BY <1>6 DEF MemoryHoldsAcked
<1>7. ASSUME NEW pw, Opens(Active, pw), mem' = Opened(Active), UNCHANGED acked
      PROVE  MemoryHoldsAcked'
  BY <1>1, <1>7 DEF MemoryHoldsAcked, AcknowledgedEditsSurvive, Opened
<1>8. CASE Truncate
  <2>1. todo \in Activations => todo' \in Activations
    BY <1>1, <1>2, <1>8, AfterTruncate, PlansApart DEF Truncate, At
  <2> QED
    BY <1>4, <1>5, <1>8, <2>1 DEF Truncate
<1>9. CASE Point \/ Reset
  BY <1>3, <1>4, <1>6, <1>9 DEF Point, Reset
<1>10. CASE Unlock
  <2>1. todo \notin Activations
    BY <1>1, <1>10, AfterUnlock, PlansApart DEF Unlock, At
  <2> QED
    BY <1>4, <1>5, <1>7, <1>10, <2>1 DEF Unlock
<1>11. ASSUME NEW step \in {"create", "adopt", "apply", "settings", "mutate", "rekey"}, At(step),
              step = "mutate" => Opens(Active, op.pw), Save(step),
              minted' = IF step = "create" THEN minted + 1 ELSE minted,
              step # "apply" => UNCHANGED acked
                    /\ (acked[Active] # {} => mem'.data.form \in acked[Active]),
              step = "apply" => acked' = [acked EXCEPT ![op.name] = {op.form}]
       PROVE  AcknowledgedEditsSurvive' /\ MemoryHoldsAcked'
  <2>1. /\ mem' = Edited(step) /\ mem'.name = Active /\ mem'.data # None
        /\ vault'[Active] # None /\ vault'[Active].data = mem'.data
        /\ \A n \in Names \ {Active} : vault'[n] = vault[n]
    BY <1>11, WhatASaveLeaves
  <2>2. CASE step # "apply"
    BY <1>1, <1>11, <2>1, <2>2 DEF AcknowledgedEditsSurvive, MemoryHoldsAcked
  <2>3. CASE step = "apply"
    <3>1. Unlocked /\ Active = op.name
      BY <1>1, <1>11, <2>3, AfterApply DEF Ready, Switching, Ahead, At
    <3>2. mem'.data.form = op.form
      BY <1>1, <2>1, <2>3, <3>1, WhatIsEdited
    <3> QED
      BY <1>1, <1>11, <2>1, <2>3, <3>1, <3>2 DEF AcknowledgedEditsSurvive, MemoryHoldsAcked
  <2> QED
    BY <2>2, <2>3
<1>12. CASE Create
  <2>1. todo \notin Activations
    BY <1>1, <1>12, AfterCreate, PlansApart DEF Create, At
  <2>2. CASE UNCHANGED <<vault, mem>>
    BY <1>4, <1>5, <1>12, <2>1, <2>2 DEF Create
  <2>3. CASE Save("create") /\ vault[Active] = None /\ minted' = minted + 1
    BY <1>1, <1>11, <1>12, <2>3 DEF Create, AcknowledgedEditsSurvive
  <2> QED
    BY <1>12, <2>2, <2>3 DEF Create
<1>13. ASSUME NEW step \in {"adopt", "settings", "rekey"}, At(step), Save(step)
       PROVE  acked[Active] # {} => mem'.data.form \in acked[Active]
  <2>1. Unlocked /\ mem.name = Active /\ mem.data # None
    BY <1>1, <1>13, WhatIsUnlocked DEF Ready, At, Ahead
  <2>2. todo \notin Activations
    BY <1>1, <1>13, AfterAdopt, AfterSettings, AfterRekey, PlansApart DEF At
  <2>3. mem'.data.form = mem.data.form
    BY <1>1, <1>13, <2>1, WhatIsEdited DEF Save
  <2> QED
    BY <1>1, <2>1, <2>2, <2>3 DEF MemoryHoldsAcked
<1>14. CASE Adopt \/ SaveSettings \/ Rekey
  BY <1>11, <1>13, <1>14 DEF Adopt, SaveSettings, Rekey
<1>15. CASE Apply
  BY <1>11, <1>15 DEF Apply
<1>16. CASE Mutate
  <2>1. todo \notin Activations
    BY <1>1, <1>16, AfterMutate, PlansApart DEF Mutate, At
  <2>2. CASE Opens(Active, op.pw)
    <3>1. acked[Active] # {} => vault[Active].data.form \in acked[Active]
      BY <1>1 DEF AcknowledgedEditsSurvive
    <3>2. mem'.data.form = vault[Active].data.form
      BY <1>1, <1>16, <2>2, WhatIsEdited DEF Mutate, Save
    <3> QED
      BY <1>11, <1>16, <2>2, <3>1, <3>2 DEF Mutate
  <2>3. CASE ~Opens(Active, op.pw)
    BY <1>4, <1>5, <1>16, <2>1, <2>3 DEF Mutate
  <2> QED
    BY <2>2, <2>3
<1>17. CASE Reopen
  <2>1. todo \notin Activations
    BY <1>1, <1>17, AfterReopen, PlansApart DEF Reopen, At
  <2> QED
    BY <1>4, <1>5, <1>7, <1>17, <2>1 DEF Reopen
<1>18. CASE ArchiveVault
  <2>1. todo \notin Activations /\ op.name \in Names
    BY <1>1, <1>18, AfterArchiveVault, PlansApart DEF ArchiveVault, At, TInv, Arguments
  <2> QED
    BY <1>1, <1>18, <2>1 DEF ArchiveVault, AcknowledgedEditsSurvive, MemoryHoldsAcked, Types,
       OpenMem, LockedMem
<1>19. CASE Remember \/ WriteBundle \/ OpenSession \/ ShowKey \/ ArchiveBundle
  <2>1. todo \notin Activations
    BY <1>1, <1>19, AfterRemember, AfterBundle, AfterSession, AfterShowKey, AfterArchiveBundle,
       PlansApart
       DEF Remember, WriteBundle, OpenSession, ShowKey, ArchiveBundle, At
  <2> QED
    BY <1>4, <1>5, <1>19, <2>1 DEF Remember, WriteBundle, OpenSession, ShowKey, ArchiveBundle
<1>20. CASE NextDefinition
  <2>1. todo \notin Activations
    BY <1>1, <1>20, AfterNext, PlansApart DEF NextDefinition, At
  <2> QED
    BY <1>4, <1>5, <1>20, <2>1 DEF NextDefinition
<1> QED
  BY <1>8, <1>9, <1>10, <1>12, <1>14, <1>15, <1>16, <1>17, <1>18, <1>19, <1>20 DEF Step

\* An import that activates its definition ends with the reset of the cached vault.
LEMMA ActivationsReset ==
    ASSUME todo \in Activations
    PROVE  \E i \in DOMAIN todo : todo[i] = "reset"
<1>1. <<"truncate", "point", "reset">>[3] = "reset" /\ <<"point", "reset">>[2] = "reset"
  OBVIOUS
<1>2. 3 \in DOMAIN <<"truncate", "point", "reset">> /\ 2 \in DOMAIN <<"point", "reset">>
  OBVIOUS
<1> QED
  BY <1>1, <1>2 DEF Activations

\* So do the requests, faults, crashes and restarts.
LEMMA AckRequest ==
    ASSUME TInv, AckInv, NothingIsRestored, Types', UNCHANGED deployment,
           AdminRequest \/ AgentRequest \/ AutoLock \/ Fault \/ Crash \/ Restart
    PROVE  AcknowledgedEditsSurvive' /\ MemoryHoldsAcked'
<1> USE DEF disk, memory, client, Start
<1>1. /\ Types /\ Ready /\ Active \in Names /\ acked \in [Names -> SUBSET Forms]
      /\ vault \in [Names -> MintedVault \cup {None}] /\ copies \subseteq MintedVault
      /\ AcknowledgedEditsSurvive /\ MemoryHoldsAcked
  BY ActiveIsName DEF TInv, AckInv, Types
<1>2. \A n : LockedVault(n).data = None
  BY DEF LockedVault
<1>3. /\ todo = <<>> => todo \notin Activations
      /\ Unlocked => Current = mem
  BY <1>1, PlansApart, WhatIsUnlocked
<1>4. ASSUME UNCHANGED <<vault, acked>> PROVE AcknowledgedEditsSurvive'
  BY <1>1, <1>4 DEF AcknowledgedEditsSurvive
<1>5. ASSUME mem' = mem, UNCHANGED acked, todo' \notin Activations => todo \notin Activations
      PROVE  MemoryHoldsAcked'
  BY <1>1, <1>5 DEF MemoryHoldsAcked
<1>6. ASSUME mem'.data = None PROVE MemoryHoldsAcked'
  BY <1>6 DEF MemoryHoldsAcked
<1>7. ASSUME NEW pw, Opens(Active, pw), mem' = Opened(Active), UNCHANGED acked
      PROVE  MemoryHoldsAcked'
  BY <1>1, <1>7 DEF MemoryHoldsAcked, AcknowledgedEditsSurvive, Opened
<1>8. ASSUME Idle, UNCHANGED <<vault, mem, acked>>
      PROVE  AcknowledgedEditsSurvive' /\ MemoryHoldsAcked'
  BY <1>3, <1>4, <1>5, <1>8 DEF Idle
<1>9. ASSUME NEW pw \in deployment.typed, Setup(pw) \/ Login(pw) \/ RecoveryReset(pw)
      PROVE  AcknowledgedEditsSurvive' /\ MemoryHoldsAcked'
  <2>1. AcknowledgedEditsSurvive' /\ Idle /\ UNCHANGED acked
    BY <1>4, <1>9 DEF Setup, Login, RecoveryReset
  <2>2. \/ mem' = mem
        \/ Opens(Active, pw) /\ mem' = Opened(Active)
        \/ Opens(Active, bundle[Active]) /\ mem' = Opened(Active)
    BY <1>3, <1>9 DEF Setup, Login, RecoveryReset
  <2> QED
    BY <1>3, <1>5, <1>7, <2>1, <2>2 DEF Idle
<1>10. CASE LockVault \/ AutoLock \/ Crash
  BY <1>2, <1>4, <1>6, <1>10 DEF LockVault, AutoLock, Crash
<1>11. CASE Logout \/ UpdateSettings \/ RotateKey
  BY <1>8, <1>11 DEF Logout, UpdateSettings, RotateKey, AllDefinitions, Admin
<1>12. ASSUME NEW on \in BOOLEAN, ToggleAgent(on)
       PROVE  AcknowledgedEditsSurvive' /\ MemoryHoldsAcked'
  BY <1>8, <1>12 DEF ToggleAgent, AllDefinitions, Admin
<1>13. ASSUME NEW n \in Names,
              SelectVault(n) \/ EditDefinition(n) \/ ArchiveDefinition(n) \/ Download(n)
       PROVE  AcknowledgedEditsSurvive' /\ MemoryHoldsAcked'
  BY <1>8, <1>13 DEF SelectVault, EditDefinition, ArchiveDefinition, Download, Admin
<1>14. ASSUME NEW n \in Names, NEW f \in Forms, CreateDefinition(n, f) \/ UpdateDefinition(n, f)
       PROVE  AcknowledgedEditsSurvive' /\ MemoryHoldsAcked'
  BY <1>8, <1>14 DEF CreateDefinition, UpdateDefinition, Admin
<1>15. ASSUME NEW n \in Names, NEW c \in copies, NEW overwrite \in BOOLEAN,
              NEW activate \in BOOLEAN, Import(n, c, overwrite, activate)
       PROVE  AcknowledgedEditsSurvive' /\ MemoryHoldsAcked'
  <2>1. /\ c \in MintedVault /\ c # None /\ vault' = [vault EXCEPT ![n] = c]
        /\ acked' = [acked EXCEPT ![n] = {c.data.form} \ {None}]
    BY <1>1, <1>15, NoneApart DEF Import
  <2>2. AcknowledgedEditsSurvive'
    BY <1>1, <2>1 DEF AcknowledgedEditsSurvive
  <2>3. CASE activate
    <3>1. todo' \in Activations
      BY <1>15, <2>3, FirstSteps DEF Import
    <3> QED
      BY <2>2, <3>1 DEF MemoryHoldsAcked
  <2>4. CASE ~activate
    <3>1. mem.name = Active /\ n # Active /\ UNCHANGED <<mem, todo>>
      BY <1>1, <1>15, <2>4, WhatIsUnlocked DEF Import, Admin, NothingIsRestored
    <3> QED
      BY <1>1, <2>1, <2>2, <3>1 DEF MemoryHoldsAcked
  <2> QED
    BY <2>3, <2>4
<1>16. ASSUME NEW n \in Names, NEW key \in 1..minted, McpCall(n, key)
       PROVE  AcknowledgedEditsSurvive' /\ MemoryHoldsAcked'
  <2>1. AcknowledgedEditsSurvive' /\ Idle /\ UNCHANGED acked
    BY <1>4, <1>16 DEF McpCall
  <2>2. mem' = mem \/ (Opens(Active, KnownMaster) /\ mem' = Opened(Active))
    BY <1>3, <1>16 DEF McpCall
  <2> QED
    BY <1>3, <1>5, <1>7, <2>1, <2>2 DEF Idle
<1>17. CASE Restart
  BY <1>4, <1>5, <1>7, <1>17 DEF Restart
<1>18. CASE Fault
  <2>1. todo \notin Activations /\ UNCHANGED vault
    BY <1>18, ActivationsReset DEF Fault, NothingIsRestored
  <2>2. PICK step \in {"truncate", "point", "create", "adopt", "bundle", "apply", "settings",
                       "mutate", "rekey", "archive_vault", "archive_bundle"} :
          /\ At(step)
          /\ mem' = IF \/ step \in {"create", "adopt", "apply", "settings", "rekey"}
                       \/ step = "mutate" /\ Opens(Active, op.pw)
                    THEN Edited(step) ELSE mem
          /\ step = "create" => vault[Active] = None
          /\ minted' = IF step = "create" THEN minted + 1 ELSE minted
          /\ acked' = IF step = "apply" /\ acked[op.name] # {}
                      THEN [acked EXCEPT ![op.name] = @ \cup {op.form}]
                      ELSE acked
    BY <1>18 DEF Fault
  <2>3. step = "apply" => Unlocked /\ Active = op.name
    BY <1>1, <2>2, AfterApply DEF Ready, Switching, Ahead, At, Types
  <2>4. AcknowledgedEditsSurvive'
    BY <1>1, <2>1, <2>2, <2>3 DEF AcknowledgedEditsSurvive
  <2>5. CASE mem' = mem
    BY <1>1, <2>1, <2>2, <2>4, <2>5 DEF MemoryHoldsAcked
  <2>6. CASE step \in {"create", "adopt", "apply", "settings", "mutate", "rekey"}
             /\ (step = "mutate" => Opens(Active, op.pw))
    <3>1. mem' = Edited(step) /\ mem'.name = Active
      BY <2>2, <2>6, EditsAreOpen
    <3>2. step \in {"adopt", "apply", "settings", "rekey"} => Unlocked /\ mem.name = Active
                                                                /\ mem.data # None
      BY <1>1, <2>2, WhatIsUnlocked DEF Ready, At, Ahead
    <3>3. CASE step \in {"adopt", "settings", "rekey"}
      <4>1. mem'.data.form = mem.data.form
        BY <1>1, <3>1, <3>2, <3>3, WhatIsEdited, WhatIsUnlocked
      <4> QED
        BY <1>1, <2>1, <2>2, <2>4, <3>1, <3>2, <3>3, <4>1 DEF MemoryHoldsAcked
    <3>4. CASE step = "apply"
      <4>1. mem'.data.form = op.form
        BY <1>1, <3>1, <3>2, <3>4, WhatIsEdited
      <4> QED
        BY <1>1, <2>2, <2>3, <2>4, <3>1, <3>4, <4>1 DEF MemoryHoldsAcked
    <3>5. CASE step = "create"
      BY <1>1, <2>2, <2>4, <3>1, <3>5 DEF MemoryHoldsAcked, AcknowledgedEditsSurvive
    <3>6. CASE step = "mutate"
      <4>1. mem'.data.form = vault[Active].data.form
        BY <1>1, <2>6, <3>1, <3>6, WhatIsEdited
      <4> QED
        BY <1>1, <2>2, <2>4, <3>1, <3>6, <4>1 DEF MemoryHoldsAcked, AcknowledgedEditsSurvive
    <3> QED
      BY <2>6, <3>3, <3>4, <3>5, <3>6
  <2> QED
    BY <2>2, <2>5, <2>6
<1> QED
  BY <1>9, <1>10, <1>11, <1>12, <1>13, <1>14, <1>15, <1>16, <1>17, <1>18
     DEF AdminRequest, AgentRequest

\* The acknowledged forms survive any step.
LEMMA AckNext == TInv /\ TInv' /\ AckInv /\ [Next]_vars => AckInv'
<1> SUFFICES ASSUME TInv, TInv', AckInv, [Next]_vars PROVE AckInv'
  OBVIOUS
<1>1. CASE UNCHANGED vars
  BY <1>1 DEF vars, disk, memory, client, AckInv, AcknowledgedEditsSurvive, MemoryHoldsAcked,
     NothingIsRestored, Operations
<1>2. CASE Next
  <2>1. NothingIsRestored' <=> NothingIsRestored
    BY <1>2 DEF Next, NothingIsRestored, Operations
  <2> QED
    BY <1>2, <2>1, AckStep, AckRequest DEF Next, AckInv, TInv
<1> QED
  BY <1>1, <1>2

\* Whatever crashes, failed writes, switches, rotations, resets and imports come
\* after it, the file of a definition keeps the form whose save was last
\* acknowledged, or a later one whose save failed, in any instance where no copy is
\* imported over the active definition without activating it.
THEOREM SpecAcknowledgedEditsSurvive == Spec => [](NothingIsRestored => AcknowledgedEditsSurvive)
<1>1. Init => AckInv
  BY DEF Init, AckInv, AcknowledgedEditsSurvive, MemoryHoldsAcked, LockedVault
<1>2. AckInv => (NothingIsRestored => AcknowledgedEditsSurvive)
  BY DEF AckInv
<1> QED
  BY <1>1, <1>2, SpecTInv, AckNext, PTL DEF Spec

----------------------------------------------------------------------------
(* Calm instances                                                          *)

\* The file of an unlocked definition is there.
LEMMA OpenFileExists ==
    ASSUME Types, MemoryIsFile, Unlocked
    PROVE  /\ vault[Active] # None /\ vault[Active].pw = mem.pw /\ vault[Active].data = mem.data
           /\ vault[Active] = [pw |-> mem.pw, data |-> mem.data]
<1>1. mem.name = Active /\ mem \in OpenMem /\ vault[Active] = [pw |-> mem.pw, data |-> mem.data]
  BY WhatIsUnlocked DEF MemoryIsFile
<1>2. [pw |-> mem.pw, data |-> mem.data] \in MintedVault
  BY <1>1 DEF OpenMem, MintedVault
<1> QED
  BY <1>1, <1>2, NoneApart

\* In a calm instance a handler keeps memory and file alike, and the pointer whole.
LEMMA CalmMemoryStep ==
    ASSUME TInv, CalmParts, Step, UNCHANGED deployment, Types'
    PROVE  MemoryIsFile' /\ PointerIsWhole' /\ up'
<1> USE DEF disk, memory, client, Raise
<1>1. /\ Types /\ Ready /\ Arguments /\ todo # <<>> /\ todo \in Plans /\ Active \in Names
      /\ MemoryIsFile /\ PointerIsWhole /\ TargetsExist /\ up
  BY ActiveIsName DEF TInv, CalmParts, Types, Step, At, Truncate, Point, Unlock, Create, Adopt,
     Remember, WriteBundle, OpenSession, ShowKey, Apply, SaveSettings, NextDefinition, Mutate,
     Reopen, Rekey, ArchiveVault, ArchiveBundle, Reset
<1>2. ASSUME UNCHANGED pointer, Head(todo) # "point" PROVE PointerIsWhole'
  BY <1>1, <1>2 DEF PointerIsWhole, Ahead
<1>3. ASSUME UNCHANGED <<mem, vault>> PROVE MemoryIsFile'
  BY <1>1, <1>3 DEF MemoryIsFile
<1>4. ASSUME NEW pw, Opens(Active, pw), mem' = Opened(Active), UNCHANGED vault PROVE MemoryIsFile'
  <2>1. vault[Active] \in MintedVault
    BY <1>1, <1>4, WhatOpens
  <2> QED
    BY <1>4, <2>1 DEF MemoryIsFile, Opened, MintedVault
<1>5. ASSUME mem'.data = None PROVE MemoryIsFile'
  BY <1>5 DEF MemoryIsFile
<1>6. ASSUME NEW step \in {"create", "adopt", "apply", "settings", "mutate", "rekey"}, At(step),
             step = "mutate" => Opens(Active, op.pw), Save(step),
             minted' = IF step = "create" THEN minted + 1 ELSE minted
      PROVE  MemoryIsFile'
  BY <1>6, WhatASaveLeaves DEF MemoryIsFile
<1>7. CASE Truncate
  <2>1. Ahead({"point"})'
    BY <1>1, <1>7, ProceedKeepsLocals, AfterTruncate DEF Truncate, At, Ahead
  <2> QED
    BY <1>1, <1>3, <1>7, <2>1 DEF Truncate, PointerIsWhole
<1>8. CASE Point
  <2>1. pointer' = op.name /\ op.name \in Names /\ mem'.data = None /\ up'
    BY <1>1, <1>8 DEF Point, Arguments, Switching, Ahead, At, LockedVault
  <2> QED
    BY <1>5, <2>1, VaultManagerAssumption DEF PointerIsWhole
<1>9. CASE Unlock \/ Reopen
  BY <1>1, <1>2, <1>3, <1>4, <1>9 DEF Unlock, Reopen, At
<1>10. CASE Create \/ Adopt \/ Apply \/ SaveSettings \/ Rekey
  BY <1>1, <1>2, <1>3, <1>6, <1>10 DEF Create, Adopt, Apply, SaveSettings, Rekey, At
<1>11. CASE Mutate
  BY <1>1, <1>2, <1>3, <1>6, <1>11 DEF Mutate, At
<1>12. CASE Remember \/ WriteBundle \/ OpenSession \/ ShowKey \/ ArchiveBundle \/ NextDefinition
  BY <1>1, <1>2, <1>3, <1>12
     DEF Remember, WriteBundle, OpenSession, ShowKey, ArchiveBundle, NextDefinition, At
<1>13. CASE Reset
  BY <1>1, <1>2, <1>5, <1>13 DEF Reset, At, LockedVault
<1>14. CASE ArchiveVault
  <2>1. op.name # Active /\ mem.name = Active
    BY <1>1, <1>14, WhatIsUnlocked DEF ArchiveVault, At, TargetsExist, Ahead
  <2> QED
    BY <1>1, <1>2, <1>14, <2>1 DEF ArchiveVault, At, MemoryIsFile
<1> QED
  BY <1>7, <1>8, <1>9, <1>10, <1>11, <1>12, <1>13, <1>14 DEF Step

\* It switches to definitions that exist, or to the one it is about to create.
LEMMA CalmTargetsStep ==
    ASSUME TInv, CalmParts, Step, UNCHANGED deployment, Types'
    PROVE  TargetsExist'
<1> USE DEF disk, memory, client, Raise
<1>1. /\ Types /\ Ready /\ Arguments /\ todo # <<>> /\ todo \in Plans /\ Active \in Names
      /\ MemoryIsFile /\ PointerIsWhole /\ TargetsExist /\ op \in Locals
  BY ActiveIsName DEF TInv, CalmParts, Types, Step, At, Truncate, Point, Unlock, Create, Adopt,
     Remember, WriteBundle, OpenSession, ShowKey, Apply, SaveSettings, NextDefinition, Mutate,
     Reopen, Rekey, ArchiveVault, ArchiveBundle, Reset
<1>2. ASSUME Proceed PROVE todo' = Tail(todo) /\ (todo' # <<>> => op' = op)
  BY <1>1, <1>2, ProceedKeepsLocals
<1>3. UNCHANGED pointer => Active' = Active
  BY DEF Active
<1>4. CASE Truncate
  <2>1. /\ todo' # <<>> /\ Head(todo') = "point" /\ op' = op
        /\ todo' \in Creates => todo \in Creates
        /\ todo' \notin Creates => todo \notin Creates
        /\ todo' \in Toggles \cup Rotating => todo \in Toggles \cup Rotating
        /\ todo' \notin Setups /\ Head(todo) = "truncate" /\ UNCHANGED vault
    BY <1>1, <1>2, <1>4, AfterTruncate, PlansApart DEF Truncate, At
  <2> QED
    BY <1>1, <2>1 DEF TargetsExist, Switching, Ahead, Existing
<1>5. CASE Point
  <2>1. /\ op.name \in Names /\ Active' = op.name /\ UNCHANGED <<vault, marker>>
        /\ Head(todo) = "point"
        /\ todo' # <<>> => op' = op
        /\ todo' # <<>> => Head(todo') \in {"create", "unlock", "reset", "mutate", "reopen"}
        /\ todo' # <<>> /\ todo' \in Creates => todo \in Creates /\ Head(todo') = "create"
        /\ todo' \notin Creates => todo \notin Creates
        /\ todo' \in Toggles \cup Rotating => todo \in Toggles \cup Rotating
        /\ todo' \notin Setups
    BY <1>1, <1>2, <1>5, AfterPoint, PlansApart DEF Point, At, Arguments, Switching, Ahead, Active
  <2> QED
    BY <1>1, <2>1, PlansApart DEF TargetsExist, Switching, Ahead, Existing
<1>6. ASSUME marker' => vault'[Active'] # None,
             \/ todo' = <<>>
             \/ /\ todo' \in Setups \cup Creates \cup Updates \cup Rekeys \cup Endings \cup Rotated
                /\ Head(todo') \notin {"truncate", "point", "create", "archive_vault", "archive_bundle"}
      PROVE  TargetsExist'
  BY <1>6, PlansApart DEF TargetsExist, Switching, Ahead
<1>7. ASSUME Head(todo) \notin {"point", "create"} PROVE marker => vault[Active] # None
  BY <1>1, <1>7 DEF TargetsExist, Ahead
<1>8. CASE Unlock \/ WriteBundle \/ OpenSession \/ ShowKey \/ Reopen \/ ArchiveBundle \/ Reset
  <2>1. /\ UNCHANGED <<vault, pointer, marker>>
        /\ Head(todo) \in {"unlock", "bundle", "session", "show_key", "reopen", "archive_bundle",
                           "reset"}
        /\ Proceed \/ Raise
    BY <1>8 DEF Unlock, WriteBundle, OpenSession, ShowKey, Reopen, ArchiveBundle, Reset, At
  <2>2. \/ todo' = <<>>
        \/ /\ todo' \in Setups \cup Creates \cup Updates \cup Rekeys \cup Endings \cup Rotated
           /\ Head(todo') \in {"show_key", "session", "apply"}
    BY <1>1, <1>2, <2>1, AfterUnlock, AfterBundle, AfterSession, AfterShowKey, AfterReopen,
       AfterArchiveBundle, AfterReset
  <2> QED
    BY <1>3, <1>6, <1>7, <2>1, <2>2
<1>9. CASE Remember
  <2>1. vault[Active] # None
    BY <1>1, <1>9, OpenFileExists DEF Remember, At, Ready, Ahead
  <2>2. todo' # <<>> /\ todo' \in Setups \cup Creates /\ Head(todo') = "bundle"
    BY <1>1, <1>2, <1>9, AfterRemember DEF Remember, At
  <2> QED
    BY <1>3, <1>6, <1>9, <2>1, <2>2 DEF Remember
<1>10. ASSUME NEW step \in {"create", "adopt", "apply", "settings", "mutate", "rekey"}, At(step),
              step = "mutate" => Opens(Active, op.pw), Save(step),
              minted' = IF step = "create" THEN minted + 1 ELSE minted
       PROVE  vault'[Active] # None /\ \A n \in Names : vault[n] # None => vault'[n] # None
  BY <1>10, WhatASaveLeaves
<1>11. CASE Create \/ Adopt \/ Apply \/ SaveSettings \/ Rekey
  <2>1. /\ UNCHANGED pointer /\ vault'[Active] # None
        /\ Head(todo) \in {"create", "adopt", "apply", "settings", "rekey"}
        /\ Proceed \/ Raise
    BY <1>10, <1>11 DEF Create, Adopt, Apply, SaveSettings, Rekey, At
  <2>2. \/ todo' = <<>>
        \/ /\ todo' \in Setups \cup Creates \cup Rekeys \cup Endings
           /\ Head(todo') \in {"remember", "adopt", "session", "bundle"}
    BY <1>1, <1>2, <2>1, AfterCreate, AfterAdopt, AfterApply, AfterSettings, AfterRekey
  <2> QED
    BY <1>3, <1>6, <2>1, <2>2
<1>12. CASE Mutate
  <2>1. /\ todo \in Toggles \cup Rotating /\ todo' \in Toggles \cup Rotating
        /\ todo' # <<>> /\ Head(todo') = "next" /\ Head(todo) = "mutate" /\ op' = op
    BY <1>1, <1>2, <1>12, AfterMutate DEF Mutate, At
  <2>2. UNCHANGED <<pointer, marker>> /\ \A n \in Names : vault[n] # None => vault'[n] # None
    BY <1>10, <1>12 DEF Mutate
  <2> QED
    BY <1>1, <1>3, <1>7, <2>1, <2>2, PlansApart DEF TargetsExist, Switching, Ahead, Existing
<1>13. CASE NextDefinition
  <2>1. /\ todo \in Toggles \cup Rotating /\ todo' \in Toggles \cup Rotating \cup Rotated
        /\ todo' # <<>> /\ Head(todo') = "truncate" /\ Head(todo) = "next"
        /\ UNCHANGED <<vault, pointer, marker>>
    BY <1>1, <1>13, LoopSteps DEF NextDefinition, At
  <2>2. op.left \subseteq Existing /\ op.home \in Existing
    BY <1>1, <2>1 DEF TargetsExist
  <2>3. op'.name \in Existing /\ op'.left \subseteq Existing /\ op'.home \in Existing
    BY <1>1, <1>13, <2>2 DEF NextDefinition, Locals
  <2> QED
    BY <1>3, <1>7, <2>1, <2>3, PlansApart DEF TargetsExist, Switching, Ahead, Existing
<1>14. CASE ArchiveVault
  <2>1. /\ op.name # Active /\ op.name \in Names /\ op' = op
        /\ todo' # <<>> /\ todo' \in Archives /\ Head(todo') = "archive_bundle"
        /\ Head(todo) = "archive_vault" /\ UNCHANGED <<pointer, marker>>
    BY <1>1, <1>2, <1>14, AfterArchiveVault DEF ArchiveVault, At, TargetsExist, Arguments, Ahead
  <2>2. vault' = [vault EXCEPT ![op.name] = None] /\ vault \in [Names -> MintedVault \cup {None}]
    BY <1>1, <1>14 DEF ArchiveVault, Types
  <2> QED
    BY <1>1, <1>3, <1>7, <2>1, <2>2, PlansApart DEF TargetsExist, Switching, Ahead
<1> QED
  BY <1>4, <1>5, <1>8, <1>9, <1>11, <1>12, <1>13, <1>14 DEF Step

\* Where it changes a password, it writes the bundle for it.
LEMMA CalmBundlesStep ==
    ASSUME TInv, CalmParts, Step, UNCHANGED deployment, Types'
    PROVE  PasswordIsSaved' /\ BundlesOpen'
<1> USE DEF disk, memory, client, Raise
<1>1. /\ Types /\ Ready /\ Arguments /\ todo # <<>> /\ todo \in Plans /\ Active \in Names
      /\ MemoryIsFile /\ TargetsExist /\ PasswordIsSaved /\ BundlesOpen
  BY ActiveIsName DEF TInv, CalmParts, Types, Step, At, Truncate, Point, Unlock, Create, Adopt,
     Remember, WriteBundle, OpenSession, ShowKey, Apply, SaveSettings, NextDefinition, Mutate,
     Reopen, Rekey, ArchiveVault, ArchiveBundle, Reset
<1>2. ASSUME Proceed PROVE todo' = Tail(todo) /\ (todo' # <<>> => op' = op)
  BY <1>1, <1>2, ProceedKeepsLocals
<1>3. UNCHANGED pointer => Active' = Active
  BY DEF Active
<1>4. ASSUME Head(todo) \notin {"bundle", "archive_bundle"}
      PROVE  \A n \in Names : bundle[n] # None => Opens(n, bundle[n])
  BY <1>1, <1>4 DEF BundlesOpen, Ahead
<1>5. ASSUME Head(todo) \notin {"bundle", "archive_bundle"}, UNCHANGED bundle,
             \A n \in Names : vault[n] # None => vault'[n] # None /\ vault'[n].pw = vault[n].pw
      PROVE  BundlesOpen'
  BY <1>4, <1>5 DEF BundlesOpen, Opens
<1>6. ASSUME todo' # <<>> => Head(todo') \notin {"adopt", "remember", "bundle"}
      PROVE  PasswordIsSaved'
  BY <1>6 DEF PasswordIsSaved, Ahead
<1>7. CASE Truncate \/ Unlock \/ OpenSession \/ ShowKey \/ Reopen \/ Reset
  <2>1. /\ UNCHANGED <<vault, bundle>>
        /\ Proceed \/ Raise
        /\ Head(todo) \in {"truncate", "unlock", "session", "show_key", "reopen", "reset"}
    BY <1>7 DEF Truncate, Unlock, OpenSession, ShowKey, Reopen, Reset, At
  <2>2. todo' # <<>> => Head(todo') \in {"point", "apply", "session", "show_key"}
    BY <1>1, <1>2, <2>1, AfterTruncate, AfterUnlock, AfterSession, AfterShowKey, AfterReopen,
       AfterReset
  <2> QED
    BY <1>5, <1>6, <2>1, <2>2
<1>8. CASE Point
  <2>1. todo' # <<>> => Head(todo') \in {"create", "unlock", "reset", "mutate", "reopen"}
    BY <1>1, <1>2, <1>8, AfterPoint DEF Point, At
  <2> QED
    BY <1>5, <1>6, <1>8, <2>1 DEF Point, At
<1>9. CASE NextDefinition
  <2>1. Head(todo') = "truncate"
    BY <1>1, <1>9, LoopSteps DEF NextDefinition, At
  <2> QED
    BY <1>5, <1>6, <1>9, <2>1 DEF NextDefinition, At
<1>10. ASSUME NEW step \in {"create", "adopt", "apply", "settings", "mutate", "rekey"}, At(step),
              step = "mutate" => Opens(Active, op.pw), Save(step),
              minted' = IF step = "create" THEN minted + 1 ELSE minted
       PROVE  /\ mem' = Edited(step) /\ vault'[Active] # None /\ vault'[Active].pw = mem'.pw
              /\ \A n \in Names \ {Active} : vault'[n] = vault[n]
  BY <1>10, WhatASaveLeaves
<1>11. CASE Create
  <2>1. CASE Raise /\ UNCHANGED vault
    BY <1>5, <1>6, <1>11, <2>1 DEF Create, At
  <2>2. CASE vault[Active] = None /\ Save("create") /\ minted' = minted + 1 /\ Proceed
    <3>1. mem' = Edited("create")
      BY <1>10, <1>11, <2>2 DEF Create
    <3>2. mem'.pw = op.pw
      BY <1>1, <3>1, WhatIsEdited
    <3>3. op' = op /\ Head(todo') \in {"adopt", "remember"} /\ todo' # <<>>
      BY <1>1, <1>2, <1>11, <2>2, AfterCreate DEF Create, At
    <3>4. BundlesOpen'
      <4>1. \A n \in Names : vault[n] # None => vault'[n] = vault[n]
        BY <1>10, <1>11, <2>2 DEF Create
      <4> QED
        BY <1>5, <1>11, <4>1 DEF Create, At
    <3> QED
      BY <3>2, <3>3, <3>4 DEF PasswordIsSaved
  <2> QED
    BY <1>11, <2>1, <2>2 DEF Create
<1>12. ASSUME NEW step \in {"adopt", "apply", "settings"}, At(step), Save(step), UNCHANGED minted
       PROVE  /\ mem'.pw = mem.pw
              /\ \A n \in Names : vault[n] # None => vault'[n] # None /\ vault'[n].pw = vault[n].pw
  <2>1. Unlocked
    BY <1>1, <1>12 DEF Ready, At, Ahead
  <2>2. vault[Active].pw = mem.pw /\ mem'.pw = mem.pw
    BY <1>1, <1>12, <2>1, OpenFileExists, WhatIsEdited DEF Save
  <2> QED
    BY <1>10, <1>12, <2>2
<1>13. CASE Adopt
  <2>1. /\ op' = op /\ mem.pw = op.pw
        /\ todo' # <<>> => Head(todo') = "remember"
    BY <1>1, <1>2, <1>13, AfterAdopt DEF Adopt, At, PasswordIsSaved, Ahead
  <2> QED
    BY <1>5, <1>12, <1>13, <2>1 DEF Adopt, At, PasswordIsSaved
<1>14. CASE Apply \/ SaveSettings
  <2>1. todo' # <<>> => Head(todo') = "session"
    BY <1>1, <1>2, <1>14, AfterApply, AfterSettings DEF Apply, SaveSettings, At
  <2> QED
    BY <1>5, <1>6, <1>12, <1>14, <2>1 DEF Apply, SaveSettings, At
<1>15. CASE Mutate
  <2>1. todo' # <<>> => Head(todo') = "next"
    BY <1>1, <1>2, <1>15, AfterMutate DEF Mutate, At
  <2>2. CASE Opens(Active, op.pw)
    <3>1. mem'.pw = op.pw /\ vault[Active].pw = op.pw
      BY <1>1, <1>15, <2>2, WhatIsEdited DEF Mutate, Save, Opens
    <3>2. \A n \in Names : vault[n] # None => vault'[n] # None /\ vault'[n].pw = vault[n].pw
      BY <1>10, <1>15, <2>2, <3>1 DEF Mutate
    <3> QED
      BY <1>5, <1>6, <1>15, <2>1, <3>2 DEF Mutate, At
  <2>3. CASE ~Opens(Active, op.pw)
    BY <1>5, <1>6, <1>15, <2>1, <2>3 DEF Mutate, At
  <2> QED
    BY <2>2, <2>3
<1>16. CASE Remember
  <2>1. mem.pw = op.pw /\ (todo' # <<>> => op' = op)
    BY <1>1, <1>2, <1>16 DEF Remember, At, PasswordIsSaved, Ahead
  <2> QED
    BY <1>1, <1>5, <1>16, <2>1 DEF Remember, At, PasswordIsSaved, Ahead
<1>17. CASE WriteBundle
  <2>1. todo' # <<>> => Head(todo') \in {"show_key", "apply", "session"}
    BY <1>1, <1>2, <1>17, AfterBundle DEF WriteBundle, At
  <2>2. Opens(Active, op.pw)
    BY <1>1, <1>17, OpenFileExists
       DEF WriteBundle, At, Ready, Ahead, PasswordIsSaved, Opens
  <2>3. \A n \in Names \ {Active} : bundle[n] # None => Opens(n, bundle[n])
    BY <1>1, <1>17 DEF WriteBundle, At, BundlesOpen, Ahead
  <2>4. bundle' = [bundle EXCEPT ![Active] = op.pw] /\ bundle \in [Names -> Passwords \cup {None}]
        /\ UNCHANGED vault
    BY <1>1, <1>17 DEF WriteBundle, Types
  <2> QED
    BY <1>1, <1>6, <2>1, <2>2, <2>3, <2>4 DEF BundlesOpen, Opens
<1>18. CASE Rekey
  <2>1. /\ todo' # <<>> /\ todo' \in Rekeys /\ Head(todo') = "bundle" /\ op' = op
        /\ UNCHANGED <<bundle, pointer>>
    BY <1>1, <1>2, <1>18, AfterRekey DEF Rekey, At
  <2>2. mem'.pw = op.pw
    BY <1>1, <1>10, <1>18, WhatIsEdited DEF Rekey, At, Ready, Ahead
  <2>3. \A n \in Names \ {Active} : vault'[n] = vault[n]
    BY <1>10, <1>18 DEF Rekey
  <2> QED
    BY <1>3, <1>4, <1>18, <2>1, <2>2, <2>3
       DEF Rekey, At, PasswordIsSaved, BundlesOpen, Ahead, Opens
<1>19. CASE ArchiveVault
  <2>1. /\ op.name \in Names /\ op' = op /\ Head(todo) = "archive_vault"
        /\ todo' # <<>> /\ Head(todo') = "archive_bundle"
        /\ UNCHANGED bundle /\ vault' = [vault EXCEPT ![op.name] = None]
        /\ vault \in [Names -> MintedVault \cup {None}]
    BY <1>1, <1>2, <1>19, AfterArchiveVault DEF ArchiveVault, At, Arguments, Types
  <2> QED
    BY <1>4, <1>6, <2>1 DEF BundlesOpen, Opens, Ahead
<1>20. CASE ArchiveBundle
  <2>1. /\ todo' = <<>> /\ op.name \in Names /\ Head(todo) = "archive_bundle" /\ UNCHANGED vault
        /\ bundle' = [bundle EXCEPT ![op.name] = None]
        /\ bundle \in [Names -> Passwords \cup {None}]
    BY <1>1, <1>2, <1>20, AfterArchiveBundle DEF ArchiveBundle, At, Arguments, Types
  <2>2. \A n \in Names \ {op.name} : bundle[n] # None => Opens(n, bundle[n])
    BY <1>1, <2>1 DEF BundlesOpen, Ahead
  <2> QED
    BY <1>6, <2>1, <2>2 DEF BundlesOpen, Opens
<1> QED
  BY <1>7, <1>8, <1>9, <1>11, <1>13, <1>14, <1>15, <1>16, <1>17, <1>18, <1>19, <1>20 DEF Step

\* A request of a calm instance starts from all that.
LEMMA CalmRequest ==
    ASSUME TInv, CalmParts, Calm, UNCHANGED deployment,
           AdminRequest \/ AgentRequest \/ AutoLock \/ Fault \/ Crash \/ Restart
    PROVE  CalmParts'
<1> USE DEF disk, memory, client, Start
<1>1. /\ Types /\ Active \in Names /\ up
      /\ MemoryIsFile /\ PointerIsWhole /\ TargetsExist /\ BundlesOpen
  BY ActiveIsName DEF TInv, CalmParts
<1>2. /\ Unlocked => Current = mem
      /\ \A n : LockedVault(n).data = None
  BY <1>1, WhatIsUnlocked DEF LockedVault
<1>3. /\ Idle => up /\ pointer # Empty
      /\ Idle => \A n \in Names : bundle[n] # None => Opens(n, bundle[n])
      /\ Idle => (marker => vault[Active] # None)
  BY <1>1 DEF Idle, PointerIsWhole, BundlesOpen, TargetsExist, Ahead
<1>4. ASSUME Idle, UNCHANGED <<disk, up>>
      PROVE  /\ up' /\ PointerIsWhole' /\ BundlesOpen' /\ Active' = Active
             /\ marker' => vault'[Active'] # None
  BY <1>3, <1>4 DEF Idle, PointerIsWhole, BundlesOpen, Opens, Active
<1>5. ASSUME \/ mem' = mem \/ mem'.data = None
             \/ \E pw : Opens(Active, pw) /\ mem' = Opened(Active),
             UNCHANGED vault
      PROVE  MemoryIsFile'
  <2>1. ASSUME NEW pw, Opens(Active, pw)
        PROVE  vault[Active] = [pw |-> vault[Active].pw, data |-> vault[Active].data]
    BY <1>1, <2>1, WhatOpens DEF MintedVault
  <2> QED
    BY <1>1, <1>5, <2>1 DEF MemoryIsFile, Opened, Opens
\* A request that leaves the disk alone keeps what concerns nothing but the disk.
<1>6. ASSUME Idle, UNCHANGED <<disk, up>>, MemoryIsFile',
             todo' # <<>> => Head(todo') \notin {"adopt", "remember", "bundle"},
             TargetsExist'
      PROVE  CalmParts'
  BY <1>4, <1>6 DEF CalmParts, PasswordIsSaved, Ahead
<1>7. ASSUME Idle, UNCHANGED <<disk, up>>, MemoryIsFile',
             \/ todo' = <<>>
             \/ todo' \in Rekeys /\ Head(todo') = "rekey"
             \/ todo' \in Endings /\ Head(todo') = "settings"
             \/ /\ todo' \in Selects \cup Visits \cup Updates
                /\ \/ Head(todo') = "unlock"
                   \/ Head(todo') = "truncate" /\ vault[op'.name] # None
      PROVE  CalmParts'
  <2>1. TargetsExist'
    BY <1>4, <1>7, PlansApart DEF TargetsExist, Switching, Ahead
  <2> QED
    BY <1>6, <1>7, <2>1
<1>8. ASSUME NEW pw \in deployment.typed, Setup(pw) PROVE CalmParts'
  <2>1. /\ todo' \in Setups /\ todo' # <<>> /\ Head(todo') = "create" /\ Idle
        /\ UNCHANGED <<disk, up, mem>>
    BY <1>8, FirstSteps DEF Setup
  <2>2. vault[Active] = None /\ ~marker
    BY <1>1, <1>8 DEF Setup
  <2>3. TargetsExist'
    BY <1>4, <2>1, <2>2, PlansApart DEF TargetsExist, Switching, Ahead
  <2> QED
    BY <1>5, <1>6, <2>1, <2>3
<1>9. ASSUME NEW pw \in deployment.typed, Login(pw) PROVE CalmParts'
  <2>1. Idle /\ todo' = <<>> /\ UNCHANGED <<disk, up>> /\ MemoryIsFile'
    BY <1>2, <1>5, <1>9 DEF Login, Idle
  <2> QED
    BY <1>7, <2>1
<1>10. ASSUME NEW pw \in deployment.typed, RecoveryReset(pw) PROVE CalmParts'
  <2>1. /\ Idle /\ todo' \in Rekeys /\ Head(todo') = "rekey" /\ UNCHANGED <<disk, up>>
        /\ MemoryIsFile'
    BY <1>2, <1>5, <1>10, FirstSteps DEF RecoveryReset
  <2> QED
    BY <1>7, <2>1
<1>11. CASE LockVault \/ Logout \/ AutoLock
  <2>1. Idle /\ todo' = <<>> /\ UNCHANGED <<disk, up>> /\ MemoryIsFile'
    BY <1>2, <1>5, <1>11 DEF LockVault, Logout, AutoLock, Idle
  <2> QED
    BY <1>7, <2>1
<1>12. CASE UpdateSettings
  <2>1. /\ Idle /\ todo' \in Endings /\ Head(todo') = "settings" /\ UNCHANGED <<disk, up>>
        /\ MemoryIsFile'
    BY <1>5, <1>12, FirstSteps DEF UpdateSettings
  <2> QED
    BY <1>7, <2>1
<1>13. ASSUME NEW o, NEW last, AllDefinitions(o, last), o \in Locals',
              todo' \in Toggles \cup Rotating, todo' # <<>>, Head(todo') = "next"
       PROVE  CalmParts'
  <2>1. Idle /\ UNCHANGED <<disk, up, mem>> /\ Unlocked
    BY <1>13 DEF AllDefinitions, Admin
  <2>2. op'.left = Existing /\ op'.home = Active
    BY <1>13 DEF AllDefinitions, Existing, Locals
  <2>3. Active \in Existing
    BY <1>1, <2>1, OpenFileExists DEF Existing
  <2>4. TargetsExist'
    BY <1>4, <1>13, <2>1, <2>2, <2>3, PlansApart DEF TargetsExist, Switching, Ahead, Existing
  <2> QED
    BY <1>5, <1>6, <1>13, <2>1, <2>4
<1>14. CASE RotateKey
  <2>1. AllDefinitions([NoOp EXCEPT !.key = minted'], <<"show_key">>)
    BY <1>14 DEF RotateKey
  <2>2. todo' \in Rotating /\ todo' # <<>> /\ Head(todo') = "next"
    BY <2>1, FirstSteps DEF AllDefinitions
  <2>3. [NoOp EXCEPT !.key = minted'] \in Locals'
    <3>1. minted' \in Nat
      BY <1>1, <1>14, KnownPassword DEF RotateKey, Types
    <3>2. NoOp \in Locals'
      BY <3>1, VaultManagerAssumption DEF NoOp, Locals
    <3> QED
      BY <3>1, <3>2 DEF Locals
  <2> QED
    BY <1>13, <2>1, <2>2, <2>3
<1>15. ASSUME NEW on \in BOOLEAN, ToggleAgent(on) PROVE CalmParts'
  <2>1. AllDefinitions([NoOp EXCEPT !.on = on], <<>>)
    BY <1>15 DEF ToggleAgent
  <2>2. todo' \in Toggles /\ todo' # <<>> /\ Head(todo') = "next"
    BY <2>1, FirstSteps DEF AllDefinitions
  <2>3. [NoOp EXCEPT !.on = on] \in Locals'
    <3>1. minted' \in Nat
      BY <1>1, <1>15, KnownPassword DEF ToggleAgent, Types
    <3> QED
      BY <3>1, VaultManagerAssumption DEF NoOp, Locals
  <2> QED
    BY <1>13, <2>1, <2>2, <2>3
<1>16. ASSUME NEW n \in Names, op'.name = n, CanEnsure(n), Idle, UNCHANGED <<disk, up>>, MemoryIsFile',
              todo' \in {EnsureSteps(n), EnsureSteps(n) \o <<"apply">>}
       PROVE  CalmParts'
  BY <1>7, <1>16, EnsureFirst DEF CanEnsure
<1>17. ASSUME NEW n \in Names, SelectVault(n) PROVE CalmParts'
  <2>1. /\ Idle /\ todo' \in Selects /\ Head(todo') = "truncate" /\ op'.name = n
        /\ vault[n] # None
        /\ UNCHANGED <<disk, up, mem>>
    BY <1>17, FirstSteps DEF SelectVault, NoOp
  <2> QED
    BY <1>5, <1>7, <2>1
<1>18. ASSUME NEW n \in Names, EditDefinition(n) PROVE CalmParts'
  BY <1>5, <1>16, <1>18 DEF EditDefinition, Admin, NoOp
<1>19. ASSUME NEW n \in Names, ArchiveDefinition(n) PROVE CalmParts'
  <2>1. /\ Idle /\ todo' \in Archives /\ Head(todo') = "archive_vault" /\ op'.name = n
        /\ todo' # <<>> /\ n # Active /\ Unlocked /\ UNCHANGED <<disk, up, mem>>
    BY <1>19, FirstSteps DEF ArchiveDefinition, Admin, NoOp
  <2>2. Unlocked' /\ Active' = Active
    BY <2>1, UnlockedNext
  <2>3. TargetsExist'
    BY <1>4, <2>1, <2>2, PlansApart DEF TargetsExist, Switching, Ahead
  <2> QED
    BY <1>5, <1>6, <2>1, <2>3
<1>20. ASSUME NEW n \in Names, Download(n) PROVE CalmParts'
  BY <1>5, <1>7, <1>20 DEF Download, Admin, Idle
<1>21. ASSUME NEW n \in Names, NEW f \in Forms, CreateDefinition(n, f) PROVE CalmParts'
  <2>1. /\ Idle /\ todo' \in Creates /\ Head(todo') = "truncate" /\ op'.name = n
        /\ todo' # <<>> /\ vault[n] = None /\ UNCHANGED <<disk, up, mem>>
    BY <1>21, FirstSteps DEF CreateDefinition, Admin, NoOp
  <2>2. TargetsExist'
    BY <1>4, <2>1, PlansApart DEF TargetsExist, Switching, Ahead
  <2> QED
    BY <1>5, <1>6, <2>1, <2>2
<1>22. ASSUME NEW n \in Names, NEW f \in Forms, UpdateDefinition(n, f) PROVE CalmParts'
  BY <1>5, <1>16, <1>22 DEF UpdateDefinition, Admin, NoOp
<1>23. ASSUME NEW n \in Names, NEW key \in 1..minted, McpCall(n, key) PROVE CalmParts'
  <2>1. Idle /\ UNCHANGED <<disk, up>> /\ MemoryIsFile'
    BY <1>2, <1>5, <1>23 DEF McpCall
  <2>2. \/ todo' = <<>>
        \/ CanEnsure(n) /\ op'.name = n /\ todo' = EnsureSteps(n)
    BY <1>23 DEF McpCall, Idle, NoOp
  <2> QED
    BY <1>7, <1>16, <2>1, <2>2
<1>24. ~Fault /\ ~Crash /\ ~Restart
       /\ ~\E n \in Names, c \in copies, overwrite, activate \in BOOLEAN :
                Import(n, c, overwrite, activate)
  BY <1>1 DEF Fault, Crash, Restart, Import, Calm
<1> QED
  BY <1>8, <1>9, <1>10, <1>11, <1>12, <1>14, <1>15, <1>17, <1>18, <1>19, <1>20, <1>21, <1>22,
     <1>23, <1>24 DEF AdminRequest, AgentRequest

\* A calm instance stays in order after any step.
LEMMA CalmNext == TInv /\ TInv' /\ CalmInv /\ [Next]_vars => CalmInv'
<1> SUFFICES ASSUME TInv, TInv', CalmInv, [Next]_vars, Calm' PROVE CalmParts'
  BY DEF CalmInv
<1>1. Calm /\ CalmParts
  BY DEF CalmInv, Calm, DiskFaults, Operations, Next, vars
<1>2. CASE UNCHANGED vars
  BY <1>1, <1>2 DEF vars, disk, memory, client, CalmParts, MemoryIsFile, PointerIsWhole,
     TargetsExist, PasswordIsSaved, BundlesOpen, Opens, Ahead, Switching, Existing, Active,
     Unlocked, Current
<1>3. CASE Next
  BY <1>1, <1>3, CalmMemoryStep, CalmTargetsStep, CalmBundlesStep, CalmRequest
     DEF Next, CalmParts, TInv
<1> QED
  BY <1>2, <1>3

\* What holds in every reachable state of a calm instance.
LEMMA SpecCalmInv == Spec => []CalmInv
<1>1. Init => CalmInv
  BY PlansApart, VaultManagerAssumption
     DEF Init, CalmInv, CalmParts, MemoryIsFile, PointerIsWhole, TargetsExist, PasswordIsSaved,
         BundlesOpen, LockedVault, Switching, Ahead
<1> QED
  BY <1>1, SpecTInv, CalmNext, PTL DEF Spec

\* In a calm instance the cache never answers with, or saves back, the content
\* of another time: what is decrypted in memory is the file of the active definition.
THEOREM SpecCacheIsCurrent == Spec => []CacheIsCurrent
<1>1. TInv /\ CalmInv => CacheIsCurrent
  BY OpenFileExists, WhatIsUnlocked DEF TInv, CalmInv, CalmParts, CacheIsCurrent
<1> QED
  BY <1>1, SpecTInv, SpecCalmInv, PTL

\* Between the requests of a calm instance the pointer is whole and names a
\* definition that exists once the instance is initialised: the entry point of
\* the container would start it again.
THEOREM SpecRestartIsAccepted == Spec => []RestartIsAccepted
<1>1. CalmInv => RestartIsAccepted
  BY DEF CalmInv, CalmParts, PointerIsWhole, TargetsExist, RestartIsAccepted, Quiescent,
     Startable, Ahead
<1> QED
  BY <1>1, SpecCalmInv, PTL

\* The recovery bundle of a definition holds the password that opens it, between
\* the requests of a calm instance, whichever definitions were reset, created,
\* switched, rotated and unlocked under different passwords in between.
THEOREM SpecBundleFollowsReset == Spec => []BundleFollowsReset
<1>1. CalmInv => BundleFollowsReset
  BY DEF CalmInv, CalmParts, BundlesOpen, BundleFollowsReset, BundleOpensVault, Quiescent,
     Existing, Ahead
<1> QED
  BY <1>1, SpecCalmInv, PTL

----------------------------------------------------------------------------
(* The shared key                                                          *)

\* Wherever one password opens every definition, it goes on doing so.
LEMMA OnePasswordStep ==
    ASSUME TInv, TInv', Calm, CalmParts, OnePassword, Next
    PROVE  OnePassword'
<1> USE DEF disk, memory, client, Raise, Start
<1>1. /\ Types /\ Ready /\ Arguments /\ Active \in Names /\ UNCHANGED deployment
      /\ vault \in [Names -> MintedVault \cup {None}] /\ op \in Locals
      /\ op'.pw \in Passwords \cup {None} /\ UNCHANGED Operations
  BY ActiveIsName DEF TInv, Types, Next, Locals, Operations
<1>2. SUFFICES ASSUME "rotate" \in Operations,
                      NEW p \in Passwords,
                      deployment.typed \subseteq {p}, EnvMaster \in {p, None},
                      master \in {p, None}, op.pw \in {p, None}, mem.pw \in {p, None},
                      \A n \in Existing : vault[n].pw = p
               PROVE  /\ master' \in {p, None} /\ op'.pw \in {p, None} /\ mem'.pw \in {p, None}
                      /\ \A n \in Existing' : vault'[n].pw = p
  BY <1>1 DEF OnePassword, EnvMaster
<1>3. KnownMaster \in {p, None} /\ NoOp.pw = None /\ \A n : LockedVault(n).pw = None
  BY <1>2 DEF KnownMaster, NoOp, LockedVault
<1>4. \A n \in Names : \A pw : Opens(n, pw) => pw = p /\ Opened(n).pw = p
  BY <1>1, <1>2, WhatOpens DEF Opens, Existing
<1>5. Unlocked => mem.pw = p /\ Current = mem
  BY <1>1, <1>2, WhatIsUnlocked, VaultManagerAssumption DEF OpenMem
<1>6. ASSUME UNCHANGED vault PROVE \A n \in Existing' : vault'[n].pw = p
  BY <1>2, <1>6 DEF Existing
<1>7. ASSUME Proceed \/ Raise PROVE op'.pw \in {p, None}
  BY <1>2, <1>3, <1>7 DEF Proceed, Return
<1>8. ASSUME NEW step \in {"create", "adopt", "apply", "settings", "mutate", "rekey"}, At(step),
             step = "mutate" => Opens(Active, op.pw), Save(step),
             minted' = IF step = "create" THEN minted + 1 ELSE minted
      PROVE  mem'.pw = p /\ \A n \in Existing' : vault'[n].pw = p
  <2>1. /\ mem' = Edited(step) /\ vault'[Active].pw = mem'.pw
        /\ \A n \in Names \ {Active} : vault'[n] = vault[n]
    BY <1>1, <1>8, WhatASaveLeaves DEF TInv
  <2>2. step \in {"adopt", "apply", "settings", "rekey"} => Unlocked
    BY <1>1, <1>8 DEF Ready, At, Ahead
  <2>3. step \in {"create", "rekey"} => op.pw \in Passwords
    BY <1>1, <1>8, AfterCreate, AfterRekey, PlansApart DEF At, Arguments, Ahead, Types
  <2>4. mem'.pw \in {mem.pw, op.pw} /\ mem'.pw \in Passwords
    <3>1. CASE step \in {"create", "rekey"}
      BY <1>1, <2>1, <2>2, <2>3, <3>1, WhatIsEdited
    <3>2. CASE step = "mutate"
      BY <1>1, <1>4, <1>8, <2>1, <3>2, WhatIsEdited
    <3>3. CASE step \in {"adopt", "apply", "settings"}
      BY <1>1, <1>5, <2>1, <2>2, <3>3, WhatIsEdited
    <3> QED
      BY <1>8, <3>1, <3>2, <3>3
  <2>5. mem'.pw = p
    BY <1>2, <2>4, VaultManagerAssumption
  <2> QED
    BY <1>2, <2>1, <2>5 DEF Existing
<1>9. CASE Truncate \/ Point \/ Reset \/ WriteBundle \/ OpenSession \/ ShowKey \/ ArchiveBundle
  BY <1>2, <1>3, <1>6, <1>7, <1>9
     DEF Truncate, Point, Reset, WriteBundle, OpenSession, ShowKey, ArchiveBundle
<1>10. CASE Unlock \/ Remember \/ Reopen
  BY <1>1, <1>2, <1>3, <1>4, <1>6, <1>7, <1>10 DEF Unlock, Remember, Reopen
<1>11. CASE Create \/ Adopt \/ Apply \/ SaveSettings
  BY <1>2, <1>6, <1>7, <1>8, <1>11 DEF Create, Adopt, Apply, SaveSettings
<1>12. CASE Mutate \/ Rekey
  BY <1>2, <1>6, <1>7, <1>8, <1>12 DEF Mutate, Rekey
<1>13. CASE NextDefinition
  BY <1>1, <1>2, <1>6, <1>13 DEF NextDefinition, Locals
<1>14. CASE ArchiveVault
  BY <1>1, <1>2, <1>7, <1>14 DEF ArchiveVault, Existing
<1>15. CASE Step
  BY <1>9, <1>10, <1>11, <1>12, <1>13, <1>14, <1>15 DEF Step
<1>16. ASSUME NEW pw \in deployment.typed, Setup(pw) \/ Login(pw) \/ RecoveryReset(pw)
       PROVE  /\ master' \in {p, None} /\ op'.pw \in {p, None} /\ mem'.pw \in {p, None}
              /\ \A n \in Existing' : vault'[n].pw = p
  <2>1. pw = p
    BY <1>2
  <2> QED
    BY <1>1, <1>2, <1>4, <1>5, <1>6, <1>16, <2>1 DEF Setup, Login, RecoveryReset, NoOp
<1>17. CASE LockVault \/ Logout \/ AutoLock \/ UpdateSettings
  BY <1>2, <1>3, <1>6, <1>17 DEF LockVault, Logout, AutoLock, UpdateSettings
<1>18. CASE RotateKey \/ \E on \in BOOLEAN : ToggleAgent(on)
  <2>1. UNCHANGED <<vault, mem, master>>
    BY <1>18 DEF RotateKey, ToggleAgent, AllDefinitions
  <2>2. op'.pw = KnownMaster
    BY <1>18 DEF RotateKey, ToggleAgent, AllDefinitions, NoOp
  <2> QED
    BY <1>2, <1>3, <1>6, <2>1, <2>2
<1>19. ASSUME NEW n \in Names,
              SelectVault(n) \/ EditDefinition(n) \/ ArchiveDefinition(n) \/ Download(n)
       PROVE  /\ master' \in {p, None} /\ op'.pw \in {p, None} /\ mem'.pw \in {p, None}
              /\ \A m \in Existing' : vault'[m].pw = p
  BY <1>2, <1>6, <1>19 DEF SelectVault, EditDefinition, ArchiveDefinition, Download, NoOp
<1>20. ASSUME NEW n \in Names, NEW f \in Forms, CreateDefinition(n, f) \/ UpdateDefinition(n, f)
       PROVE  /\ master' \in {p, None} /\ op'.pw \in {p, None} /\ mem'.pw \in {p, None}
              /\ \A m \in Existing' : vault'[m].pw = p
  BY <1>2, <1>6, <1>20 DEF CreateDefinition, UpdateDefinition, NoOp
<1>21. ASSUME NEW n \in Names, NEW key \in 1..minted, McpCall(n, key)
       PROVE  /\ master' \in {p, None} /\ op'.pw \in {p, None} /\ mem'.pw \in {p, None}
              /\ \A m \in Existing' : vault'[m].pw = p
  BY <1>1, <1>2, <1>3, <1>4, <1>5, <1>6, <1>21 DEF McpCall, NoOp
<1>22. ~Fault /\ ~Crash /\ ~Restart
       /\ ~\E n \in Names, c \in copies, overwrite, activate \in BOOLEAN :
                Import(n, c, overwrite, activate)
  BY DEF Fault, Crash, Restart, Import, Calm, CalmParts
<1> QED
  BY <1>15, <1>16, <1>17, <1>18, <1>19, <1>20, <1>21, <1>22 DEF Next, AdminRequest, AgentRequest


\* The handlers keep the definitions on the key the operator was last shown, a
\* rotation moves them all to the next one.
LEMMA KeysAgreeStep ==
    ASSUME TInv, TInv', CalmParts, OnePassword, KeysAgree, Step, UNCHANGED deployment
    PROVE  KeysAgree'
<1> USE DEF disk, memory, client, Raise
<1> DEFINE Kept == \A n \in Names : vault'[n] # None =>
                        vault[n] # None /\ vault'[n].data.key = vault[n].data.key
           Shared == Setups \cup Rotating \cup Rotated
<1>1. /\ Types /\ Types' /\ Ready /\ Arguments /\ todo # <<>> /\ todo \in Plans
      /\ Active \in Names
      /\ vault \in [Names -> MintedVault \cup {None}] /\ op \in Locals
      /\ MemoryIsFile /\ TargetsExist /\ UNCHANGED Operations
  BY ActiveIsName DEF TInv, CalmParts, Types, Step, At, Truncate, Point, Unlock, Create, Adopt,
     Remember, WriteBundle, OpenSession, ShowKey, Apply, SaveSettings, NextDefinition, Mutate,
     Reopen, Rekey, ArchiveVault, ArchiveBundle, Reset, Operations
<1>2. ASSUME Proceed PROVE todo' = Tail(todo) /\ (todo' # <<>> => op' = op)
  BY <1>1, <1>2, ProceedKeepsLocals
<1>3. UNCHANGED pointer => Active' = Active
  BY DEF Active
<1>4. UNCHANGED vault => Kept
  OBVIOUS
\* A step outside the handlers that work towards a common key.
<1>5. ASSUME Kept, UNCHANGED shown, todo \notin Shared, Head(todo) # "adopt",
             todo' \notin Shared \cup Toggles,
             todo' \in Creates => Head(todo') \notin {"truncate", "point", "create", "adopt"}
      PROVE  KeysAgree'
  BY <1>5 DEF KeysAgree, Ahead, Existing
<1>6. ASSUME Kept, UNCHANGED shown, todo \in Toggles, todo' \in Toggles, Head(todo) # "adopt",
             op'.key = op.key
      PROVE  KeysAgree'
  BY <1>6, PlansApart DEF KeysAgree, Ahead, Existing
<1>7. ASSUME todo \in Setups, todo' \in Setups, UNCHANGED <<pointer, op>>,
             \A n \in Names \ {Active} : vault'[n] = vault[n]
      PROVE  KeysAgree'
  BY <1>3, <1>7, PlansApart DEF KeysAgree, Existing
<1>8. ASSUME Kept, todo \in Rotated, todo' \in Rotated, UNCHANGED op
      PROVE  KeysAgree'
  BY <1>8, PlansApart DEF KeysAgree, Existing
<1>9. ASSUME NEW step \in {"create", "adopt", "apply", "settings", "mutate", "rekey"}, At(step),
             step = "mutate" => Opens(Active, op.pw), Save(step),
             minted' = IF step = "create" THEN minted + 1 ELSE minted
      PROVE  /\ mem' = Edited(step) /\ vault'[Active].data = mem'.data
             /\ \A n \in Names \ {Active} : vault'[n] = vault[n]
             /\ step \in {"apply", "settings", "rekey"} => Kept
             /\ step = "adopt" => vault'[Active].data.key = op.key
             /\ step = "mutate" /\ op.key = 0 => Kept
             /\ step = "mutate" /\ op.key # 0 => vault'[Active].data.key = op.key
  <2>1. /\ mem' = Edited(step) /\ vault'[Active].data = mem'.data
        /\ \A n \in Names \ {Active} : vault'[n] = vault[n]
    BY <1>1, <1>9, WhatASaveLeaves
  <2>2. CASE step \in {"adopt", "apply", "settings", "rekey"}
    <3>1. Unlocked
      BY <1>1, <1>9, <2>2 DEF Ready, At, Ahead
    <3>2. vault[Active] # None /\ vault[Active].data = mem.data
      BY <1>1, <3>1, OpenFileExists
    <3>3. mem'.data.key = IF step = "adopt" THEN op.key ELSE mem.data.key
      BY <1>1, <2>1, <2>2, <3>1, WhatIsEdited
    <3> QED
      BY <2>1, <2>2, <3>2, <3>3
  <2>3. CASE step = "mutate"
    <3>1. vault[Active] # None
      BY <1>9, <2>3 DEF Opens
    <3>2. mem'.data.key = IF op.key = 0 THEN vault[Active].data.key ELSE op.key
      BY <1>1, <1>9, <2>1, <2>3, WhatIsEdited
    <3> QED
      BY <2>1, <2>3, <3>1, <3>2
  <2> QED
    BY <1>9, <2>1, <2>2, <2>3
<1>10. CASE Truncate
  <2>1. todo' # <<>> /\ Head(todo') = "point" /\ op' = op /\ Head(todo) = "truncate"
    BY <1>1, <1>2, <1>10, AfterTruncate DEF Truncate, At
  <2>2. /\ todo' \notin Setups /\ todo \notin Setups
        /\ todo' \in Creates <=> todo \in Creates
        /\ todo' \in Toggles <=> todo \in Toggles
        /\ todo' \in Rotating <=> todo \in Rotating
        /\ todo' \in Rotated <=> todo \in Rotated
    BY <1>1, <1>2, <1>10, AfterTruncate, PlansApart DEF Truncate, At
  <2>3. UNCHANGED <<vault, shown>>
    BY <1>10 DEF Truncate
  <2> QED
    BY <1>1, <2>1, <2>2, <2>3 DEF KeysAgree, Ahead, Existing
<1>11. CASE Point
  <2>1. /\ todo' # <<>> => op' = op
        /\ Head(todo) = "point" /\ UNCHANGED <<vault, shown>>
        /\ op.name \in Names /\ Active' = op.name
    BY <1>1, <1>2, <1>11 DEF Point, At, Arguments, Switching, Ahead, Active
  <2>2. /\ todo' \notin Setups /\ todo \notin Setups
        /\ todo' \in Creates => todo \in Creates
        /\ todo' \in Toggles => todo \in Toggles
        /\ todo' \in Rotating => todo' # <<>> /\ Head(todo') = "mutate"
        /\ todo' \in Rotating <=> todo \in Rotating
        /\ todo' \in Rotated <=> todo \in Rotated
    BY <1>1, <1>2, <1>11, AfterPoint, PlansApart DEF Point, At
  <2>3. todo' \in Creates \cup Toggles \cup Rotating \cup Rotated => op' = op
    BY <2>1, PlansApart
  <2> QED
    BY <1>1, <2>1, <2>2, <2>3 DEF KeysAgree, Ahead, Existing
<1>12. CASE Unlock \/ OpenSession \/ ArchiveBundle \/ Reset
  <2>1. /\ UNCHANGED <<vault, shown>> /\ (Proceed \/ todo' = <<>>)
        /\ Head(todo) \in {"unlock", "session", "archive_bundle", "reset"}
    BY <1>12 DEF Unlock, OpenSession, ArchiveBundle, Reset, At
  <2>2. todo \notin Shared /\ todo' \in {<<>>} \cup Updates
    BY <1>1, <1>2, <2>1, AfterUnlock, AfterSession, AfterArchiveBundle, AfterReset, PlansApart
  <2> QED
    BY <1>4, <1>5, <2>1, <2>2, PlansApart
<1>13. CASE Create
  <2>1. ASSUME todo \in Setups PROVE KeysAgree'
    <3>1. vault[Active] = None
      BY <1>1, <1>13, <2>1 DEF Create, At, TargetsExist, Ahead
    <3>2. Save("create") /\ minted' = minted + 1 /\ UNCHANGED pointer /\ Proceed
      BY <1>13, <3>1 DEF Create
    <3>3. todo' \in Setups /\ op' = op
      BY <1>1, <1>2, <1>13, <2>1, <3>2, AfterCreate, PlansApart DEF Create, At
    <3> QED
      BY <1>7, <1>9, <1>13, <2>1, <3>2, <3>3 DEF Create
  <2>2. ASSUME todo \in Creates PROVE KeysAgree'
    <3>1. vault[Active] = None /\ Active = op.name
      BY <1>1, <1>13, <2>2 DEF Create, At, TargetsExist, Ready, Ahead, Switching
    <3>2. Save("create") /\ minted' = minted + 1 /\ Proceed /\ UNCHANGED shown
      BY <1>13, <3>1 DEF Create
    <3>3. /\ todo' \in Creates /\ todo' # <<>> /\ op' = op /\ Head(todo') = "adopt"
          /\ Head(todo) = "create"
      BY <1>1, <1>2, <1>13, <2>2, <3>2, AfterCreate, PlansApart DEF Create, At
    <3>4. \A n \in Names \ {Active} : vault'[n] = vault[n]
      BY <1>9, <1>13, <3>2 DEF Create
    <3> QED
      BY <1>1, <2>2, <3>1, <3>2, <3>3, <3>4, PlansApart DEF KeysAgree, Ahead, Existing
  <2> QED
    BY <1>1, <1>13, <2>1, <2>2, AfterCreate DEF Create, At
<1>14. CASE Adopt
  <2>1. Save("adopt") /\ UNCHANGED <<shown, minted>> /\ At("adopt") /\ Proceed
    BY <1>14 DEF Adopt
  <2>2. /\ todo \in Creates /\ todo' \in Creates /\ todo' # <<>> /\ Head(todo') = "remember"
        /\ Head(todo) = "adopt"
    BY <1>1, <1>2, <2>1, AfterAdopt DEF At
  <2>3. Active = op.name
    BY <1>1, <2>2 DEF Ready, Ahead, Switching
  <2>4. vault'[Active].data.key = op.key /\ \A n \in Names \ {Active} : vault'[n] = vault[n]
    BY <1>9, <2>1
  <2>5. shown # 0 => op.key = shown
    BY <1>1, <2>2 DEF KeysAgree, Ahead
  <2> QED
    BY <1>1, <2>1, <2>2, <2>3, <2>4, <2>5, PlansApart DEF KeysAgree, Ahead, Existing
<1>15. CASE Remember \/ WriteBundle
  <2>1. /\ UNCHANGED <<vault, shown, pointer>> /\ Proceed
        /\ Head(todo) \in {"remember", "bundle"}
    BY <1>15 DEF Remember, WriteBundle, At
  <2>2. \/ todo \in Setups /\ todo' \in Setups
        \/ /\ todo \in Creates \cup Rekeys /\ todo' \in Creates \cup Endings
           /\ Head(todo') \in {"bundle", "apply", "session"}
    BY <1>1, <1>2, <2>1, AfterRemember, AfterBundle
  <2> QED
    BY <1>2, <1>4, <1>5, <1>7, <2>1, <2>2, PlansApart
<1>16. CASE ShowKey
  <2>1. /\ UNCHANGED vault /\ Proceed /\ Head(todo) = "show_key"
        /\ shown' = IF op.key = 0 THEN Current.data.key ELSE op.key
    BY <1>16 DEF ShowKey, At
  <2>2. todo' \in {<<>>} \cup Endings /\ (todo \in Setups \/ todo \in Rotated)
    BY <1>1, <1>2, <2>1, AfterShowKey
  <2>3. ASSUME todo \in Setups PROVE \A n \in Existing' : vault'[n].data.key = shown'
    <3>1. Unlocked /\ op.key = 0 /\ \A n \in Existing : n = Active
      BY <1>1, <2>1, <2>3 DEF Ready, Ahead, KeysAgree
    <3>2. Current = mem /\ vault[Active].data = mem.data
      BY <1>1, <3>1, OpenFileExists, WhatIsUnlocked
    <3> QED
      BY <2>1, <3>1, <3>2 DEF Existing
  <2>4. ASSUME todo \in Rotated PROVE \A n \in Existing' : vault'[n].data.key = shown'
    BY <1>1, <2>1, <2>4 DEF Arguments, KeysAgree, Existing
  <2>5. todo' \notin Shared \cup Toggles \cup Creates
    BY <2>2, PlansApart
  <2> QED
    BY <2>2, <2>3, <2>4, <2>5 DEF KeysAgree
<1>17. CASE Apply \/ SaveSettings \/ Rekey
  <2>1. PICK step \in {"apply", "settings", "rekey"} :
            At(step) /\ Save(step) /\ UNCHANGED <<shown, minted>> /\ Proceed
    BY <1>17 DEF Apply, SaveSettings, Rekey
  <2>2. Kept
    BY <1>9, <2>1
  <2>3. /\ todo \notin Shared /\ Head(todo) # "adopt" /\ todo' \in {<<>>} \cup Endings \cup Rekeys
    BY <1>1, <1>2, <2>1, AfterApply, AfterSettings, AfterRekey, PlansApart DEF At
  <2> QED
    BY <1>5, <2>1, <2>2, <2>3, PlansApart
<1>18. CASE NextDefinition
  <2>1. /\ UNCHANGED <<vault, shown>> /\ Head(todo) = "next" /\ op'.key = op.key
    BY <1>1, <1>18 DEF NextDefinition, At, Locals
  <2>2. \/ todo \in Toggles /\ todo' \in Toggles
        \/ /\ todo \in Rotating /\ todo' \in Rotating /\ todo' # <<>> /\ Head(todo') = "truncate"
           /\ \E n \in op.left : op'.name = n /\ op'.left = op.left \ {n}
        \/ todo \in Rotating /\ todo' \in Rotated /\ op.left = {}
    BY <1>1, <1>18, LoopSteps DEF NextDefinition, At, Locals
  <2>3. CASE todo \in Toggles /\ todo' \in Toggles
    BY <1>4, <1>6, <2>1, <2>3
  <2>4. CASE /\ todo \in Rotating /\ todo' \in Rotating /\ todo' # <<>>
             /\ Head(todo') = "truncate"
             /\ \E n \in op.left : op'.name = n /\ op'.left = op.left \ {n}
    <3>1. PICK m \in op.left : op'.name = m /\ op'.left = op.left \ {m}
      BY <2>4
    <3>2. \A n \in Existing : n \in op.left \/ vault[n].data.key = op.key
      BY <2>1, <2>4 DEF KeysAgree, Ahead
    <3>3. "rotate" \in Operations'
      BY <1>1, <2>4 DEF KeysAgree
    <3> QED
      BY <2>1, <2>4, <3>1, <3>2, <3>3, PlansApart DEF KeysAgree, Ahead, Existing
  <2>5. CASE todo \in Rotating /\ todo' \in Rotated /\ op.left = {}
    <3>1. \A n \in Existing : vault[n].data.key = op.key
      BY <2>1, <2>5 DEF KeysAgree, Ahead
    <3> QED
      BY <2>1, <2>5, <3>1, PlansApart DEF KeysAgree, Existing
  <2> QED
    BY <2>2, <2>3, <2>4, <2>5
<1>19. CASE Mutate
  <2>1. /\ Head(todo) = "mutate" /\ At("mutate") /\ UNCHANGED <<shown, minted>> /\ Proceed
        /\ IF Opens(Active, op.pw) THEN Save("mutate") ELSE UNCHANGED <<mem, vault>>
    BY <1>19 DEF Mutate, At
  <2>2. /\ todo' # <<>> /\ op' = op /\ Head(todo') = "next"
        /\ \/ todo \in Toggles /\ todo' \in Toggles
           \/ todo \in Rotating /\ todo' \in Rotating
    BY <1>1, <1>2, <2>1, AfterMutate
  <2>3. ASSUME todo \in Toggles, todo' \in Toggles PROVE KeysAgree'
    <3>1. op.key = 0
      BY <2>3 DEF KeysAgree
    <3>2. Kept
      BY <1>4, <1>9, <2>1, <3>1
    <3> QED
      BY <1>6, <2>1, <2>2, <2>3, <3>2
  <2>4. ASSUME todo \in Rotating, todo' \in Rotating PROVE KeysAgree'
    <3>1. op.pw \in Passwords /\ op.key # 0 /\ Active = op.name /\ "rotate" \in Operations
      BY <1>1, <2>1, <2>4 DEF Arguments, KeysAgree, Ahead
    <3>2. \A n \in Existing : vault[n].pw = op.pw
      BY <3>1, VaultManagerAssumption DEF OnePassword
    <3>3. vault[Active] # None => vault'[Active].data.key = op.key
      BY <1>1, <1>9, <2>1, <3>1, <3>2 DEF Opens, Existing
    <3>4. vault[Active] = None => vault'[Active] = None
      BY <2>1 DEF Opens
    <3>5. \A n \in Names \ {Active} : vault'[n] = vault[n]
      BY <1>9, <2>1
    <3>6. \A n \in Existing : n \in op.left \/ n = Active \/ vault[n].data.key = op.key
      BY <2>4, <3>1 DEF KeysAgree
    <3>7. \A n \in Existing' : n \in op'.left \/ vault'[n].data.key = op'.key
      BY <2>2, <3>3, <3>4, <3>5, <3>6 DEF Existing
    <3> QED
      BY <1>1, <2>2, <2>4, <3>1, <3>7, PlansApart DEF KeysAgree, Ahead
  <2> QED
    BY <2>2, <2>3, <2>4
<1>20. CASE Reopen
  <2>1. UNCHANGED <<vault, shown>> /\ Proceed /\ Head(todo) = "reopen"
    BY <1>20 DEF Reopen, At
  <2>2. \/ todo \in Toggles /\ todo' = <<>>
        \/ todo \in Rotated /\ todo' \in Rotated /\ op' = op
    BY <1>1, <1>2, <2>1, AfterReopen, PlansApart
  <2> QED
    BY <1>4, <1>5, <1>8, <2>1, <2>2, PlansApart
<1>21. CASE ArchiveVault
  <2>1. UNCHANGED shown /\ Proceed /\ Head(todo) = "archive_vault" /\ Kept
    BY <1>1, <1>21 DEF ArchiveVault, At
  <2>2. todo \in Archives /\ todo' \in Archives
    BY <1>1, <1>2, <2>1, AfterArchiveVault
  <2> QED
    BY <1>5, <2>1, <2>2, PlansApart
<1> QED
  BY <1>10, <1>11, <1>12, <1>13, <1>14, <1>15, <1>16, <1>17, <1>18, <1>19, <1>20, <1>21 DEF Step

\* A request leaves the keys alone and tells its handler the right one.
LEMMA KeysAgreeRequest ==
    ASSUME TInv, TInv', Calm, CalmParts, KeysAgree, UNCHANGED deployment,
           AdminRequest \/ AgentRequest \/ AutoLock \/ Fault \/ Crash \/ Restart
    PROVE  KeysAgree'
<1> USE DEF disk, memory, client, Start
<1>1. /\ Types /\ Types' /\ Active \in Names /\ up /\ MemoryIsFile /\ UNCHANGED Operations
      /\ op \in Locals /\ op' \in Locals'
  BY ActiveIsName DEF TInv, CalmParts, Types, Operations
<1>2. Idle => (shown # 0 => \A n \in Existing : vault[n].data.key = shown)
  BY PlansApart DEF Idle, KeysAgree, Ahead
\* A request leaves the disk and the key alone, so only its handler matters.
<1>3. ASSUME Idle, UNCHANGED <<vault, shown>>,
             todo' \notin Setups \cup Creates \cup Toggles \cup Rotating \cup Rotated
      PROVE  KeysAgree'
  BY <1>2, <1>3 DEF KeysAgree, Existing
<1>4. ASSUME NEW pw \in deployment.typed, Setup(pw) PROVE KeysAgree'
  <2>1. todo' \in Setups /\ op'.key = 0 /\ UNCHANGED vault /\ \A n \in Names : vault[n] = None
    BY <1>4, FirstSteps DEF Setup, NoOp
  <2> QED
    BY <2>1, PlansApart DEF KeysAgree, Existing
<1>5. CASE \/ \E pw \in deployment.typed : Login(pw) \/ RecoveryReset(pw)
           \/ LockVault \/ Logout \/ AutoLock \/ UpdateSettings
  <2>1. Idle /\ UNCHANGED <<vault, shown>> /\ todo' \in {<<>>} \cup Rekeys \cup Endings
    BY <1>5, FirstSteps
       DEF Login, RecoveryReset, LockVault, Logout, AutoLock, UpdateSettings, Idle
  <2> QED
    BY <1>3, <2>1, PlansApart
<1>6. CASE RotateKey
  <2>1. AllDefinitions([NoOp EXCEPT !.key = minted'], <<"show_key">>) /\ "rotate" \in Operations
    BY <1>6 DEF RotateKey
  <2>2. /\ todo' \in Rotating /\ todo' # <<>> /\ Head(todo') = "next" /\ op'.left = Existing
        /\ UNCHANGED vault
    BY <2>1, FirstSteps DEF AllDefinitions, NoOp, Existing
  <2> QED
    BY <1>1, <2>1, <2>2, PlansApart DEF KeysAgree, Ahead, Existing
<1>7. ASSUME NEW on \in BOOLEAN, ToggleAgent(on) PROVE KeysAgree'
  <2>1. AllDefinitions([NoOp EXCEPT !.on = on], <<>>)
    BY <1>7 DEF ToggleAgent
  <2>2. Idle /\ todo' \in Toggles /\ todo' # <<>> /\ Head(todo') = "next" /\ op'.key = 0
        /\ UNCHANGED <<vault, shown>>
    BY <2>1, FirstSteps DEF AllDefinitions, Admin, NoOp
  <2> QED
    BY <1>2, <2>2, PlansApart DEF KeysAgree, Ahead, Existing
<1>8. ASSUME NEW n \in Names,
             SelectVault(n) \/ EditDefinition(n) \/ ArchiveDefinition(n) \/ Download(n)
      PROVE  KeysAgree'
  <2>1. /\ Idle /\ UNCHANGED <<vault, shown>>
        /\ todo' \in {<<>>} \cup Selects \cup Visits \cup Archives
    BY <1>8, FirstSteps, EnsureFirst
       DEF SelectVault, EditDefinition, ArchiveDefinition, Download, Admin, Idle
  <2> QED
    BY <1>3, <2>1, PlansApart
<1>9. ASSUME NEW n \in Names, NEW f \in Forms, UpdateDefinition(n, f) PROVE KeysAgree'
  <2>1. Idle /\ UNCHANGED <<vault, shown>> /\ todo' \in Updates
    BY <1>9, EnsureFirst DEF UpdateDefinition, Admin
  <2> QED
    BY <1>3, <2>1, PlansApart
<1>10. ASSUME NEW n \in Names, NEW f \in Forms, CreateDefinition(n, f) PROVE KeysAgree'
  <2>1. /\ Idle /\ Unlocked /\ UNCHANGED <<vault, shown>> /\ todo' \in Creates
        /\ op'.key = Current.data.key
    BY <1>10, FirstSteps DEF CreateDefinition, Admin, NoOp
  <2>2. Current = mem /\ vault[Active] # None /\ vault[Active].data = mem.data
    BY <1>1, <2>1, OpenFileExists, WhatIsUnlocked
  <2>3. shown # 0 => op'.key = shown
    BY <1>1, <1>2, <2>1, <2>2 DEF Existing
  <2> QED
    BY <1>2, <2>1, <2>3, PlansApart DEF KeysAgree, Existing
<1>11. ASSUME NEW n \in Names, NEW key \in 1..minted, McpCall(n, key) PROVE KeysAgree'
  <2>1. Idle /\ UNCHANGED <<vault, shown>> /\ todo' \in {<<>>} \cup Visits
    BY <1>11, EnsureFirst DEF McpCall, Idle
  <2> QED
    BY <1>3, <2>1, PlansApart
<1>12. ~Fault /\ ~Crash /\ ~Restart
       /\ ~\E n \in Names, c \in copies, overwrite, activate \in BOOLEAN :
                Import(n, c, overwrite, activate)
  BY <1>1 DEF Fault, Crash, Restart, Import, Calm
<1> QED
  BY <1>4, <1>5, <1>6, <1>7, <1>8, <1>9, <1>10, <1>11, <1>12 DEF AdminRequest, AgentRequest

\* The keys agree after any step.
LEMMA KeyNext == TInv /\ TInv' /\ CalmInv /\ KeyInv /\ [Next]_vars => KeyInv'
<1> SUFFICES ASSUME TInv, TInv', CalmInv, KeyInv, [Next]_vars, Calm', OnePasswordRotates'
             PROVE  OnePassword' /\ KeysAgree'
  BY DEF KeyInv
<1>1. Calm /\ OnePasswordRotates
  BY DEF Calm, OnePasswordRotates, EnvMaster, DiskFaults, Operations, Next, vars
<1>2. CalmParts /\ OnePassword /\ KeysAgree
  BY <1>1 DEF CalmInv, KeyInv
<1>3. CASE UNCHANGED vars
  BY <1>2, <1>3 DEF vars, disk, memory, client, OnePassword, KeysAgree, EnvMaster, Operations,
     Existing, Ahead, Active
<1>4. CASE Next
  BY <1>1, <1>2, <1>4, OnePasswordStep, KeysAgreeStep, KeysAgreeRequest DEF Next
<1> QED
  BY <1>3, <1>4

\* After any sequence of set-ups, new definitions, rotations, switches, edits
\* and resets of a calm instance, the agent key last shown to the operator is
\* the key of every definition.  A rotation skips a definition it cannot open,
\* so wherever keys rotate one password must do for all of them.
THEOREM SpecSharedAgentKey == Spec => [](OnePasswordRotates => SharedAgentKey)
<1>1. Init => KeyInv
  BY PlansApart
     DEF Init, KeyInv, OnePasswordRotates, OnePassword, KeysAgree, NoOp, LockedVault, Existing
<1>2. KeyInv => (OnePasswordRotates => SharedAgentKey)
  BY PlansApart DEF KeyInv, KeysAgree, SharedAgentKey, Quiescent, Ahead
<1> QED
  BY <1>1, <1>2, SpecTInv, SpecCalmInv, KeyNext, PTL DEF Spec
=============================================================================
