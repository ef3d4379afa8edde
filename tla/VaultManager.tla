---------------------------- MODULE VaultManager ----------------------------
(***************************************************************************)
(* app/core/vault_manager.py with the admin and agent handlers that drive  *)
(* it, in multi-vault mode: a directory of definitions, one of which the   *)
(* active pointer names, at most one decrypted vault in memory, the        *)
(* password kept for auto-unlock, the recovery bundles and the agent key   *)
(* that every definition is meant to share.                                *)
(*                                                                         *)
(* Requests are served one at a time here; Requests.tla interleaves them.  *)
(* A handler is the sequence of its steps ("todo"), cut wherever a crash   *)
(* or an OSError leaves something behind: at each write to the disk.  A    *)
(* vault save is one step, as AtomicVault allows.                          *)
(***************************************************************************)
EXTENDS Naturals, FiniteSets, Sequences

CONSTANTS
    Names,        \* profile codes
    DefaultName,  \* DEFAULT_VAULT_CODE, used while nothing is pointed at
    Passwords,
    Forms,        \* definition forms an operator submits, as far as they differ
    None,
    Empty,        \* a pointer file truncated but not yet written
    Deployments   \* the instances to look at: [env, typed, operations, faults, keys, copies]

ASSUME VaultManagerAssumption ==
    /\ DefaultName \in Names
    /\ None \notin Names \cup Passwords \cup Forms
    /\ Empty \notin Names \cup {None}
    /\ \A d \in Deployments :
        /\ d.env \in Passwords \cup {None} /\ d.typed \subseteq Passwords
        /\ d.faults \in BOOLEAN
        /\ d.keys \in Nat /\ d.copies \in Nat

\* None is no content and no file of a vault.
ASSUME RecordAssumption ==
    LET Content == [key : Nat, on : BOOLEAN, form : Forms \cup {None}]
    IN  None \notin Content \cup [pw : Passwords, data : Content]

VARIABLES
    vault,    \* disk: per definition None or [pw, data]
    bundle,   \* disk: per definition the password its .recovery sidecar seals, or None
    pointer,  \* disk: .active_vault, None while missing
    marker,   \* disk: .vault_initialized
    up,       \* whether the server process runs
    mem,      \* the cached Vault object: [name, data, pw], data None while locked
    master,   \* _runtime_master_password
    session,  \* whether an admin session exists
    timer,    \* whether an auto-lock thread runs
    todo,     \* the steps the handler under way still has to take
    op,       \* its arguments and locals
    minted,   \* agent keys minted so far
    shown,    \* the agent key the operator was last shown
    acked,    \* history: per definition the form whose save was last acknowledged
              \* and the later ones whose save failed
    copies,   \* definitions the operator downloaded
    deployment \* the instance, which never changes

disk == <<vault, bundle, pointer, marker>>
memory == <<mem, master, session, timer>>
client == <<minted, shown, acked, copies>>
vars == <<disk, up, memory, todo, op, client, deployment>>

EnvMaster == deployment.env         \* password in the environment or its file, or None
Operations == deployment.operations \* the requests and events there are
DiskFaults == deployment.faults     \* whether a write may raise OSError
MaxKeys == deployment.keys          \* bound: agent keys minted
MaxCopies == deployment.copies      \* bound: exported copies kept by the operator

\* Decrypted content: the agent configuration every definition is meant to
\* share, and the operator's form.
Data == [key : 0..MaxKeys, on : BOOLEAN, form : Forms \cup {None}]

NoOp == [name |-> None, pw |-> None, form |-> None, key |-> 0, on |-> TRUE,
         left |-> {}, home |-> None]

\* _resolve_current_vault_path
Active == IF pointer \in Names THEN pointer ELSE DefaultName

LockedVault(n) == [name |-> n, data |-> None, pw |-> None]

\* get_vault(): a cached object of another path is dropped and built anew.
Current == IF mem.name = Active THEN mem ELSE LockedVault(Active)

Unlocked == Current.data # None

Opens(n, pw) == vault[n] # None /\ vault[n].pw = pw

Opened(n) == [name |-> n, data |-> vault[n].data, pw |-> vault[n].pw]

\* Vault.save(): what is in memory replaces the file of the same name.
Saved(v) == [vault EXCEPT ![v.name] = [pw |-> v.pw, data |-> v.data]]

\* The password for an unlock nobody typed: the runtime one, else the environment's.
KnownMaster == IF master # None THEN master ELSE EnvMaster

Init ==
    /\ vault = [n \in Names |-> None]
    /\ bundle = [n \in Names |-> None]
    /\ pointer = None /\ marker = FALSE /\ up = TRUE
    /\ mem = LockedVault(DefaultName)
    /\ master = None /\ session = FALSE /\ timer = FALSE
    /\ todo = <<>> /\ op = NoOp
    /\ minted = 0 /\ shown = 0
    /\ acked = [n \in Names |-> {}] /\ copies = {}
    /\ deployment \in Deployments

Idle == up /\ todo = <<>>

Start(o, steps) == Idle /\ op' = o /\ todo' = steps

\* _require_unlocked: an admin page needs a session and an unlocked vault.
Admin == Idle /\ session /\ Unlocked

At(step) == up /\ todo # <<>> /\ Head(todo) = step

Return == op' = NoOp

Proceed == todo' = Tail(todo) /\ IF todo' = <<>> THEN Return ELSE UNCHANGED op

Raise == todo' = <<>> /\ Return

----------------------------------------------------------------------------
(* Steps of the handlers                                                   *)

\* _set_active_vault_name: write_text truncates the pointer file ...
Truncate ==
    /\ At("truncate")
    /\ pointer' = Empty
    /\ Proceed
    /\ UNCHANGED <<vault, bundle, marker, up, memory, client>>

\* ... and writes it; _reset_active_vault_only then drops the cached vault.
Point ==
    /\ At("point")
    /\ pointer' = op.name
    /\ mem' = LockedVault(op.name)
    /\ timer' = FALSE
    /\ Proceed
    /\ UNCHANGED <<vault, bundle, marker, up, master, session, client>>

SwitchSteps == <<"truncate", "point">>

\* Seeded fault: the definition named is not made the active one.
EnsureStepsWithoutSwitch(n) == <<"unlock">>

\* ensure_profile_active_and_unlocked: the pointer moves before the unlock is tried.
EnsureSteps(n) == (IF Active = n THEN <<>> ELSE SwitchSteps) \o <<"unlock">>

CanEnsure(n) == Active = n \/ vault[n] # None

Unlock ==
    /\ At("unlock")
    /\ \/ Unlocked /\ Proceed /\ UNCHANGED <<mem, master, timer>>
       \/ /\ ~Unlocked
          /\ KnownMaster # None /\ Opens(Active, KnownMaster)
          /\ mem' = Opened(Active)
          /\ master' = KnownMaster
          /\ timer' = TRUE
          /\ Proceed
       \/ /\ ~Unlocked
          /\ KnownMaster = None \/ ~Opens(Active, KnownMaster)
          /\ Raise
          /\ UNCHANGED <<mem, master, timer>>
    /\ UNCHANGED <<disk, up, session, client>>

\* What a step that saves has changed in the Vault object before it writes:
\* Vault.create with a key of its own, the adoption of the shared key (which
\* always enables the agent), the form, the shared agent settings, a password,
\* the definition's settings (which no property here tells apart).
Edited(step) ==
    CASE step = "create" -> [name |-> Active, pw |-> op.pw,
                             data |-> [key |-> minted + 1, on |-> TRUE, form |-> None]]
      [] step = "adopt" -> [Current EXCEPT !.data.key = op.key, !.data.on = TRUE]
      [] step = "apply" -> [Current EXCEPT !.data.form = op.form]
      [] step = "mutate" -> [Opened(Active) EXCEPT !.data.on = op.on,
                                 !.data.key = IF op.key = 0 THEN @ ELSE op.key]
      [] step = "rekey" -> [Current EXCEPT !.pw = op.pw]
      [] step = "settings" -> Current

Save(step) == mem' = Edited(step) /\ vault' = Saved(mem')

Create ==
    /\ At("create")
    /\ \/ vault[Active] # None /\ Raise /\ UNCHANGED <<vault, mem, minted>>
       \/ vault[Active] = None /\ Save("create") /\ minted' = minted + 1 /\ Proceed
    /\ UNCHANGED <<bundle, pointer, marker, up, master, session, timer, shown, acked, copies>>

\* Seeded fault: a new definition keeps the key create() made for it.
AdoptNothing ==
    /\ At("adopt")
    /\ mem' = [Current EXCEPT !.data.on = TRUE]
    /\ vault' = Saved(mem')
    /\ Proceed
    /\ UNCHANGED <<bundle, pointer, marker, up, master, session, timer, client>>

Adopt ==
    /\ At("adopt")
    /\ Save("adopt")
    /\ Proceed
    /\ UNCHANGED <<bundle, pointer, marker, up, master, session, timer, client>>

\* _write_vault_marker swallows an OSError.
Remember ==
    /\ At("remember")
    /\ marker' = TRUE \/ (DiskFaults /\ UNCHANGED marker)
    /\ master' = op.pw
    /\ Proceed
    /\ UNCHANGED <<vault, bundle, pointer, up, mem, session, timer, client>>

\* _write_recovery_bundle, and the timer that only its success starts.
WriteBundle ==
    /\ At("bundle")
    /\ bundle' = [bundle EXCEPT ![Active] = op.pw]
    /\ timer' = TRUE
    /\ Proceed
    /\ UNCHANGED <<vault, pointer, marker, up, mem, master, session, client>>

OpenSession ==
    /\ At("session")
    /\ session' = TRUE
    /\ Proceed
    /\ UNCHANGED <<disk, up, mem, master, timer, client>>

\* The agent key goes to the operator's session: the one create() made or the rotated one.
ShowKey ==
    /\ At("show_key")
    /\ shown' = IF op.key = 0 THEN Current.data.key ELSE op.key
    /\ Proceed
    /\ UNCHANGED <<disk, up, memory, minted, acked, copies>>

\* get_vault_data, _apply_definition_form, save_vault.
Apply ==
    /\ At("apply")
    /\ Save("apply")
    /\ acked' = [acked EXCEPT ![op.name] = {op.form}]
    /\ Proceed
    /\ UNCHANGED <<bundle, pointer, marker, up, master, session, timer, minted, shown, copies>>

SaveSettings ==
    /\ At("settings")
    /\ Save("settings")
    /\ Proceed
    /\ UNCHANGED <<bundle, pointer, marker, up, master, session, timer, client>>

\* The loop of _apply_to_all_definitions (in any order; the code sorts the
\* names), and the switch back to the definition it started from.
NextDefinition ==
    /\ At("next")
    /\ \/ \E n \in op.left :
             /\ op' = [op EXCEPT !.name = n, !.left = @ \ {n}]
             /\ todo' = SwitchSteps \o <<"mutate">> \o todo
       \/ /\ op.left = {}
          /\ op' = [op EXCEPT !.name = op.home]
          /\ todo' = SwitchSteps \o <<"reopen">> \o Tail(todo)
    /\ UNCHANGED <<disk, up, memory, client>>

\* Seeded fault: the loop forgets to save what it changed.
MutateUnsaved ==
    /\ At("mutate")
    /\ mem' = IF Opens(Active, op.pw) THEN Edited("mutate") ELSE mem
    /\ Proceed
    /\ UNCHANGED <<disk, up, master, session, timer, client>>

\* A definition the password does not open is skipped.
Mutate ==
    /\ At("mutate")
    /\ IF Opens(Active, op.pw) THEN Save("mutate") ELSE UNCHANGED <<mem, vault>>
    /\ Proceed
    /\ UNCHANGED <<bundle, pointer, marker, up, master, session, timer, client>>

\* Seeded fault: no timer is started for the definition unlocked again.
ReopenUntimed ==
    /\ At("reopen")
    /\ mem' = IF Opens(Active, op.pw) THEN Opened(Active) ELSE mem
    /\ master' = op.pw
    /\ Proceed
    /\ UNCHANGED <<disk, up, session, timer, client>>

Reopen ==
    /\ At("reopen")
    /\ mem' = IF Opens(Active, op.pw) THEN Opened(Active) ELSE mem
    /\ master' = op.pw
    /\ timer' = TRUE
    /\ Proceed
    /\ UNCHANGED <<disk, up, session, client>>

Rekey ==
    /\ At("rekey")
    /\ Save("rekey")
    /\ master' = op.pw
    /\ Proceed
    /\ UNCHANGED <<bundle, pointer, marker, up, session, timer, client>>

ArchiveVault ==
    /\ At("archive_vault")
    /\ vault' = [vault EXCEPT ![op.name] = None]
    /\ acked' = [acked EXCEPT ![op.name] = {}]
    /\ Proceed
    /\ UNCHANGED <<bundle, pointer, marker, up, memory, minted, shown, copies>>

ArchiveBundle ==
    /\ At("archive_bundle")
    /\ bundle' = [bundle EXCEPT ![op.name] = None]
    /\ Proceed
    /\ UNCHANGED <<vault, pointer, marker, up, memory, client>>

\* reset_vault after an activated import.
Reset ==
    /\ At("reset")
    /\ mem' = LockedVault(Active)
    /\ master' = None /\ session' = FALSE /\ timer' = FALSE
    /\ Proceed
    /\ UNCHANGED <<disk, up, client>>

Step == \/ Truncate \/ Point \/ Unlock \/ Create \/ Adopt \/ Remember \/ WriteBundle
        \/ OpenSession \/ ShowKey \/ Apply \/ SaveSettings \/ NextDefinition \/ Mutate \/ Reopen \/ Rekey
        \/ ArchiveVault \/ ArchiveBundle \/ Reset

\* An OSError ends the handler: what it changed in the Vault object stays.  An
\* import that fails to activate its definition is a "restore", as in Import.
Fault ==
    /\ DiskFaults
    /\ "restore" \in Operations \/ \A i \in DOMAIN todo : todo[i] # "reset"
    /\ \E step \in {"truncate", "point", "create", "adopt", "bundle", "apply", "settings",
                    "mutate", "rekey", "archive_vault", "archive_bundle"} :
          /\ At(step)
          /\ mem' = IF \/ step \in {"create", "adopt", "apply", "settings", "rekey"}
                       \/ step = "mutate" /\ Opens(Active, op.pw)
                    THEN Edited(step) ELSE mem
          /\ step = "create" => vault[Active] = None
          /\ minted' = IF step = "create" THEN minted + 1 ELSE minted
          /\ acked' = IF step = "apply" /\ acked[op.name] # {}
                      THEN [acked EXCEPT ![op.name] = @ \cup {op.form}]
                      ELSE acked
    /\ Raise
    /\ UNCHANGED <<disk, up, master, session, timer, shown, copies>>

----------------------------------------------------------------------------
(* First run, login, lock                                                  *)

Setup(pw) ==
    /\ "setup" \in Operations
    /\ minted < MaxKeys
    /\ ~marker /\ \A n \in Names : vault[n] = None
    /\ Start([NoOp EXCEPT !.pw = pw],
             <<"create", "remember", "bundle", "show_key", "session">>)
    /\ UNCHANGED <<disk, up, memory, client>>

\* unlock() returns at once on an unlocked vault, whatever password it is given.
Login(pw) ==
    /\ "login" \in Operations
    /\ Idle
    /\ Unlocked \/ Opens(Active, pw)
    /\ mem' = IF Unlocked THEN Current ELSE Opened(Active)
    /\ master' = pw
    /\ timer' = TRUE
    /\ session' = TRUE
    /\ UNCHANGED <<disk, up, todo, op, client>>

SelectVault(n) ==
    /\ "select" \in Operations
    /\ vault[n] # None
    /\ Start([NoOp EXCEPT !.name = n], SwitchSteps)
    /\ UNCHANGED <<disk, up, memory, client>>

\* Seeded fault: locking drops the data and leaves the derived key.
LockVaultKeepsKey ==
    /\ "lock" \in Operations
    /\ Idle
    /\ mem' = [Current EXCEPT !.data = None]
    /\ session' = FALSE /\ timer' = FALSE /\ master' = None
    /\ UNCHANGED <<disk, up, todo, op, client>>

LockVault ==
    /\ "lock" \in Operations
    /\ Idle
    /\ mem' = LockedVault(Active)
    /\ session' = FALSE /\ timer' = FALSE /\ master' = None
    /\ UNCHANGED <<disk, up, todo, op, client>>

Logout ==
    /\ "logout" \in Operations
    /\ Idle
    /\ session' = FALSE
    /\ UNCHANGED <<disk, up, mem, master, timer, todo, op, client>>

\* _auto_lock_loop after the idle time: the runtime password stays.
AutoLock ==
    /\ "timer" \in Operations
    /\ Idle /\ timer /\ Unlocked
    /\ mem' = LockedVault(Active)
    /\ session' = FALSE
    /\ UNCHANGED <<disk, up, master, timer, todo, op, client>>

\* Seeded fault: the recovery bundle is left for the old password.
RecoveryResetKeepsBundle(pw) ==
    /\ "reset" \in Operations
    /\ vault[Active] # None /\ bundle[Active] # None
    /\ Unlocked \/ Opens(Active, bundle[Active])
    /\ mem' = IF Unlocked THEN Current ELSE Opened(Active)
    /\ Start([NoOp EXCEPT !.pw = pw], <<"rekey", "session">>)
    /\ UNCHANGED <<disk, up, master, session, timer, client>>

\* With the recovery key of the active definition; the others are not touched.
RecoveryReset(pw) ==
    /\ "reset" \in Operations
    /\ vault[Active] # None /\ bundle[Active] # None
    /\ Unlocked \/ Opens(Active, bundle[Active])
    /\ mem' = IF Unlocked THEN Current ELSE Opened(Active)
    /\ Start([NoOp EXCEPT !.pw = pw], <<"rekey", "bundle", "session">>)
    /\ UNCHANGED <<disk, up, master, session, timer, client>>

----------------------------------------------------------------------------
(* Definitions and the agent key                                           *)

CreateDefinition(n, f) ==
    /\ "create" \in Operations
    /\ minted < MaxKeys
    /\ Admin
    /\ master # None
    /\ vault[n] = None
    /\ Start([NoOp EXCEPT !.name = n, !.form = f, !.pw = master, !.key = Current.data.key],
             SwitchSteps \o <<"create", "adopt", "remember", "bundle", "apply", "session">>)
    /\ UNCHANGED <<disk, up, memory, client>>

EditDefinition(n) ==
    /\ "edit" \in Operations
    /\ Admin
    /\ CanEnsure(n)
    /\ Start([NoOp EXCEPT !.name = n], EnsureSteps(n))
    /\ UNCHANGED <<disk, up, memory, client>>

UpdateDefinition(n, f) ==
    /\ "update" \in Operations
    /\ Admin
    /\ CanEnsure(n)
    /\ Start([NoOp EXCEPT !.name = n, !.form = f], EnsureSteps(n) \o <<"apply">>)
    /\ UNCHANGED <<disk, up, memory, client>>

UpdateSettings ==
    /\ "settings" \in Operations
    /\ Admin
    /\ Start(NoOp, <<"settings">>)
    /\ UNCHANGED <<disk, up, memory, client>>

\* Seeded fault: the active definition can be archived.
ArchiveAnyDefinition(n) ==
    /\ "archive" \in Operations
    /\ Admin
    /\ vault[n] # None
    /\ Start([NoOp EXCEPT !.name = n], <<"archive_vault", "archive_bundle">>)
    /\ UNCHANGED <<disk, up, memory, client>>

ArchiveDefinition(n) ==
    /\ "archive" \in Operations
    /\ Admin
    /\ n # Active
    /\ vault[n] # None
    /\ Start([NoOp EXCEPT !.name = n], <<"archive_vault", "archive_bundle">>)
    /\ UNCHANGED <<disk, up, memory, client>>

Download(n) ==
    /\ "download" \in Operations
    /\ Admin
    /\ vault[n] # None
    /\ Cardinality(copies) < MaxCopies
    /\ copies' = copies \cup {vault[n]}
    /\ UNCHANGED <<disk, up, memory, todo, op, minted, shown, acked>>

\* Importing over the active definition without activating it is the operation
\* "restore", which an instance may leave out.
\* The uploaded file replaces the vault file, its .recovery stays as it was,
\* and so does a decrypted copy of the file in memory unless it is activated.
Import(n, c, overwrite, activate) ==
    /\ "import" \in Operations
    /\ Admin
    /\ vault[n] = None \/ overwrite
    /\ n # Active \/ activate \/ "restore" \in Operations
    /\ vault' = [vault EXCEPT ![n] = c]
    /\ acked' = [acked EXCEPT ![n] = {c.data.form} \ {None}]
    /\ IF activate
       THEN Start([NoOp EXCEPT !.name = n], SwitchSteps \o <<"reset">>)
       ELSE UNCHANGED <<todo, op>>
    /\ UNCHANGED <<bundle, pointer, marker, up, memory, minted, shown, copies>>

\* The new key reaches the operator only when the whole loop is done.
AllDefinitions(o, last) ==
    /\ Admin
    /\ KnownMaster # None
    /\ Start([o EXCEPT !.pw = KnownMaster, !.home = Active,
                       !.left = {n \in Names : vault[n] # None}],
             <<"next">> \o last)
    /\ UNCHANGED <<disk, up, memory, shown, acked, copies>>

RotateKey ==
    /\ "rotate" \in Operations
    /\ minted < MaxKeys
    /\ minted' = minted + 1
    /\ AllDefinitions([NoOp EXCEPT !.key = minted'], <<"show_key">>)

ToggleAgent(on) ==
    /\ "toggle" \in Operations \/ (on /\ "switch_on" \in Operations)
    /\ AllDefinitions([NoOp EXCEPT !.on = on], <<>>)
    /\ UNCHANGED minted

\* MCPAuthMiddleware.dispatch and _require_profile_code.  The key is checked
\* against the ACTIVE definition, which stays unlocked when the key is refused.
McpCall(n, key) ==
    /\ "mcp" \in Operations
    /\ Idle
    /\ Unlocked \/ (KnownMaster # None /\ Opens(Active, KnownMaster))
    /\ mem' = IF Unlocked THEN Current ELSE Opened(Active)
    /\ master' = IF Unlocked THEN master ELSE KnownMaster
    /\ timer' = (timer \/ ~Unlocked)
    /\ IF mem'.data.on /\ mem'.data.key = key /\ CanEnsure(n)
       THEN Start([NoOp EXCEPT !.name = n], EnsureSteps(n))
       ELSE UNCHANGED <<todo, op>>
    /\ UNCHANGED <<disk, up, session, client>>

----------------------------------------------------------------------------
(* The process                                                             *)

Crash ==
    /\ "crash" \in Operations
    /\ up
    /\ up' = FALSE
    /\ mem' = LockedVault(Active)
    /\ master' = None /\ session' = FALSE /\ timer' = FALSE
    /\ todo' = <<>> /\ op' = NoOp
    /\ UNCHANGED <<disk, client>>

\* docker/app/entrypoint.sh: an initialised instance whose active vault file
\* is missing is not started.  An empty pointer file names no file at all.
Startable == marker => pointer # Empty /\ vault[Active] # None

\* lifespan() unlocks with the environment's password.
Restart ==
    /\ ~up /\ Startable
    /\ up' = TRUE
    /\ IF EnvMaster # None /\ Opens(Active, EnvMaster)
       THEN mem' = Opened(Active) /\ master' = EnvMaster /\ timer' = TRUE
       ELSE UNCHANGED <<mem, master, timer>>
    /\ UNCHANGED <<disk, session, todo, op, client>>

AdminRequest ==
    \/ \E pw \in deployment.typed : Setup(pw) \/ Login(pw) \/ RecoveryReset(pw)
    \/ LockVault \/ Logout \/ UpdateSettings \/ RotateKey
    \/ \E on \in BOOLEAN : ToggleAgent(on)
    \/ \E n \in Names :
          \/ SelectVault(n) \/ EditDefinition(n) \/ ArchiveDefinition(n) \/ Download(n)
          \/ \E f \in Forms : CreateDefinition(n, f) \/ UpdateDefinition(n, f)
          \/ \E c \in copies, overwrite, activate \in BOOLEAN : Import(n, c, overwrite, activate)

AgentRequest == \E n \in Names, key \in 1..minted : McpCall(n, key)

Next ==
    /\ AdminRequest \/ AgentRequest \/ AutoLock \/ Step \/ Fault \/ Crash \/ Restart
    /\ UNCHANGED deployment

Spec == Init /\ [][Next]_vars

----------------------------------------------------------------------------
(* Properties                                                              *)

StepNames == {"truncate", "point", "unlock", "create", "adopt", "remember", "bundle",
              "session", "show_key", "apply", "settings", "next", "mutate", "reopen", "rekey",
              "archive_vault", "archive_bundle", "reset"}

StoredVault == [pw : Passwords, data : Data]

\* Every variable stays in its domain; a handler never switches to a
\* definition it has no name for, never saves without a password, and a
\* cached vault that is unlocked has a password to save with.
TypeOK ==
    /\ vault \in [Names -> StoredVault \cup {None}]
    /\ bundle \in [Names -> Passwords \cup {None}]
    /\ pointer \in Names \cup {None, Empty}
    /\ marker \in BOOLEAN /\ up \in BOOLEAN /\ session \in BOOLEAN /\ timer \in BOOLEAN
    /\ \/ mem \in [name : Names, data : {None}, pw : {None}]
       \/ mem \in [name : Names, data : Data, pw : Passwords]
    /\ master \in Passwords \cup {None}
    /\ todo \in Seq(StepNames)
    /\ op \in [name : Names \cup {None}, pw : Passwords \cup {None}, form : Forms \cup {None},
               key : 0..MaxKeys, on : BOOLEAN, left : SUBSET Names, home : Names \cup {None}]
    /\ minted \in 0..MaxKeys /\ shown \in 0..minted
    /\ acked \in [Names -> SUBSET Forms] /\ deployment \in Deployments
    /\ copies \subseteq StoredVault

Quiescent == todo = <<>>

\* An instance without crashes, failed writes and imported copies.
Calm == ~DiskFaults /\ Operations \cap {"crash", "import"} = {}

Existing == {n \in Names : vault[n] # None}

\* Between requests of a calm instance the key last shown opens every
\* definition, and no definition accepts an older one: rotation and the
\* adoption of the shared key by new definitions leave none behind.
SharedAgentKey == Calm /\ Quiescent /\ shown # 0 => \A n \in Existing : vault[n].data.key = shown

\* Between requests the password kept in memory opens every definition, so
\* that an agent that names a definition gets it unlocked.
MasterOpensAll == Quiescent /\ master # None => \A n \in Existing : Opens(n, master)

\* Between requests a decrypted vault is never left in memory without the
\* thread that clears it after inactivity ...
TimerGuardsVault == Quiescent /\ Unlocked => timer

\* ... as long as no write fails.
UnlockedHasTimer == DiskFaults \/ TimerGuardsVault

\* Whatever crashes, failed writes, switches, rotations and resets come after
\* it, a definition's file keeps the form whose save was last acknowledged for
\* that definition (or a later one whose save failed: it stays in the Vault
\* object, where the next save finds it), and the definition does not disappear.
AcknowledgedEditsSurvive ==
    \A n \in Names : acked[n] # {} => vault[n] # None /\ vault[n].data.form \in acked[n]

\* The decrypted vault in memory is the file of the active definition: the
\* cache never answers with, or saves back, the content of another time, in a
\* calm instance.
CacheIsCurrent ==
    Calm /\ Unlocked => /\ vault[Active] # None
                        /\ vault[Active] = [pw |-> Current.pw, data |-> Current.data]

\* Between requests of a calm instance, the entry point of the container would
\* start it again.
RestartIsAccepted == Calm /\ Quiescent => Startable

\* The recovery bundle of a definition always holds the password that opens it.
BundleOpensVault ==
    Quiescent => \A n \in Existing : bundle[n] # None => Opens(n, bundle[n])

\* So it is in a calm instance, whichever definitions were reset, created,
\* switched and unlocked under different passwords in between.
BundleFollowsReset == Calm => BundleOpensVault
=============================================================================
