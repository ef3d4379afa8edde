---------------------------- MODULE KeyHandover ----------------------------
(***************************************************************************)
(* Requests that create a definition, beside each other and beside         *)
(* requests that switch definitions or lock the vault.                     *)
(*                                                                         *)
(* A creation (setup_submit and definitions_create of app/admin/routes.py) *)
(* is a dozen calls into app/core/vault_manager.py that share the active   *)
(* pointer, the cached vault, the runtime master password and one slot for *)
(* the recovery key, which is shown once and stored nowhere.  A step here  *)
(* is one such call, or a stretch of it up to its next write; get_vault()  *)
(* is part of the step that calls it (Requests.tla and VaultFile.tla have  *)
(* the steps of get_vault() and of Vault.save()).                          *)
(*                                                                         *)
(* The agent and recovery key that a request mints, and the password typed *)
(* into a first run, are named after the request.                          *)
(***************************************************************************)
EXTENDS Naturals, FiniteSets, Sequences, SequencesExt

CONSTANTS
    Tasks,    \* admin and agent requests, each made once
    Kinds,    \* what they may be: "setup", "create", "use", "lock", "auto_lock"
    Names,    \* definitions
    Default,  \* the one that a first run creates
    Old,      \* the keys and the password of an instance that runs already
    None,
    MaxOpen   \* bound: requests under way at one time

Keys == Tasks \cup {Old}

\* What a vault holds, and the keys a session is still to show.
Data == [pw : Keys, agent : Keys, form : Names \cup {None}]
Shows == [agent : Keys \cup {None}, recovery : Keys \cup {None}]

ASSUME KeyHandoverAssumption ==
    /\ Default \in Names
    /\ IsFiniteSet(Tasks) /\ Old \notin Tasks
    /\ Kinds \subseteq {"setup", "create", "use", "lock", "auto_lock"}
    /\ None \notin {"setup", "create", "use", "lock", "auto_lock"}
    /\ None \notin Names \cup Tasks \cup {Old} \cup Nat \cup Data \cup Shows
    /\ MaxOpen \in Nat

\* Identities of Vault objects: the cached one, two per request, and one to spare.
Objects == 1..(2 * Cardinality(Tasks) + 2)

VARIABLES
    file,     \* per definition its vault file [pw, agent, form], or None
    bundle,   \* per definition the recovery key that opens its bundle, or None
    pointer,  \* .active_vault
    vault,    \* the global _vault: an object or None
    object,   \* the Vault objects: [name, data], data None while locked
    master,   \* _runtime_master_password
    pending,  \* _pending_recovery_key
    session,  \* per request the session it opened: [agent, recovery] still to show
    signed,   \* whether the operators have a live session
    todo,     \* per request the steps still to take
    loc,      \* per request its locals
    seen,     \* history: recovery keys shown
    audited,  \* history: definitions whose creation was recorded
    crossed   \* history: two requests met where they can harm each other

disk == <<file, bundle, pointer>>
memory == <<vault, object, master, pending>>
sessions == <<session, signed>>
history == <<seen, audited, crossed>>
vars == <<disk, memory, sessions, todo, loc, history>>

NotBegun == [kind |-> None, name |-> None, pw |-> None, v |-> None, d |-> None,
             shared |-> None, agent |-> None, recovery |-> None]

Running == [pw |-> Old, agent |-> Old, form |-> Default]

\* What an identity stands for that nobody refers to.
Unborn == [name |-> Default, data |-> None]

\* Either nothing is set up yet, or one definition is, and the operator signed in.
Init ==
    /\ \E data \in {Running, None} :
        LET old == IF data = None THEN None ELSE Old IN
        /\ file = [n \in Names |-> IF n = Default THEN data ELSE None]
        /\ bundle = [n \in Names |-> IF n = Default THEN old ELSE None]
        /\ vault = 1
        /\ object = [o \in Objects |-> IF o = 1 THEN [Unborn EXCEPT !.data = data] ELSE Unborn]
        /\ master = old
        /\ signed = (data # None)
        /\ audited = IF data = None THEN {} ELSE {Default}
    /\ pointer = Default
    /\ pending = None
    /\ session = [t \in Tasks |-> None]
    /\ todo = [t \in Tasks |-> <<>>]
    /\ loc = [t \in Tasks |-> NotBegun]
    /\ seen = {Old}
    /\ crossed = FALSE

----------------------------------------------------------------------------
(* Handlers as sequences of steps                                          *)

\* Seeded fault: the recovery bundle is written before the vault.
CreateVaultBundleFirst ==
    <<"get", "mint", "bundle", "pend", "save", "adopt", "unlock", "install">>

CreateVault == <<"get", "mint", "save", "adopt", "unlock", "install", "bundle", "pend">>

Setup == <<"fresh">> \o CreateVault \o <<"open_session", "find", "consume", "show", "audit">>

\* Seeded fault: the shared key is looked up once the new definition is active.
CreateSharedLate ==
    <<"admit", "point", "reset", "shared">> \o CreateVault
    \o <<"consume", "data", "apply", "save_form", "audit", "open_session", "show">>

\* Seeded fault: the form is applied after the save.
CreateSaveFirst ==
    <<"admit", "shared", "point", "reset">> \o CreateVault
    \o <<"consume", "data", "save_form", "apply", "audit", "open_session", "show">>

Create == <<"admit", "shared", "point", "reset">> \o CreateVault
          \o <<"consume", "data", "apply", "save_form", "audit", "open_session", "show">>

Steps(kind) ==
    CASE kind = "setup" -> Setup
      [] kind = "create" -> Create
      [] kind = "use" -> <<"compare", "point", "reset", "reopen", "decrypt", "restore">>
      [] kind = "lock" -> <<"lock", "clear", "forget">>
      [] kind = "auto_lock" -> <<"lock", "clear">>

Local(t, l) == loc' = [loc EXCEPT ![t] = l]

Begin(t, kind, n) ==
    /\ loc[t].kind = None
    /\ Cardinality({u \in Tasks : todo[u] # <<>>}) < MaxOpen
    /\ todo' = [todo EXCEPT ![t] = Steps(kind)]
    /\ Local(t, [NotBegun EXCEPT !.kind = kind, !.name = n, !.pw = t])
    /\ UNCHANGED <<disk, memory, sessions, history>>

Request(t) ==
    \E kind \in Kinds, n \in Names :
        /\ kind \in {"setup", "lock", "auto_lock"} => n = Default
        /\ Begin(t, kind, n)

At(t, step) == todo[t] # <<>> /\ Head(todo[t]) = step

\* A request that is over, or that raised, holds no object any more.
Done(t) ==
    /\ todo' = [todo EXCEPT ![t] = <<>>]
    /\ Local(t, [loc[t] EXCEPT !.v = None, !.d = None])

Proceed(t, l) ==
    IF Len(todo[t]) = 1 THEN Done(t)
    ELSE todo' = [todo EXCEPT ![t] = Tail(@)] /\ Local(t, l)

\* Request u has taken its step "first" and not yet its step "last".
Between(u, first, last) ==
    LET left == ToSet(todo[u])
    IN  last \in left /\ first \in ToSet(Steps(loc[u].kind)) \ left

Cross(t, Harms(_)) == crossed' = (crossed \/ \E u \in Tasks \ {t} : Harms(u))

----------------------------------------------------------------------------
(* get_vault()                                                             *)

InUse == {vault} \cup {loc[t].v : t \in Tasks} \cup {loc[t].d : t \in Tasks}

Cached == vault # None /\ object[vault].name = pointer

Current == IF Cached THEN vault ELSE CHOOSE o \in Objects \ InUse : TRUE

\* An object of another path is replaced by a new, locked one.
Loaded ==
    IF Cached THEN object
    ELSE [o \in Objects |-> IF o = Current THEN [name |-> pointer, data |-> None]
                            ELSE IF o \in InUse THEN object[o] ELSE Unborn]

Unlocked == Loaded[Current].data # None

\* The rest of a step that looks the vault up, and changes it into data.
GetVault(data) == vault' = Current /\ object' = [Loaded EXCEPT ![Current].data = data]

LookUp == GetVault(Loaded[Current].data)

----------------------------------------------------------------------------
(* The checks in front, and create_named_vault()                           *)

Fresh(t) ==
    /\ At(t, "fresh")
    /\ IF \A n \in Names : file[n] = None THEN Proceed(t, loc[t]) ELSE Done(t)
    /\ UNCHANGED <<disk, memory, sessions, history>>

\* Seeded fault: the new definition gets a password of its own.
AdmitAnyPassword(t) ==
    /\ At(t, "admit")
    /\ LookUp
    /\ IF signed /\ Unlocked /\ file[loc[t].name] = None THEN Proceed(t, loc[t]) ELSE Done(t)
    /\ UNCHANGED <<disk, master, pending, sessions, history>>

\* _require_unlocked(), the password in memory, and no file of that name.
Admit(t) ==
    /\ At(t, "admit")
    /\ LookUp
    /\ IF signed /\ Unlocked /\ master # None /\ file[loc[t].name] = None
       THEN Proceed(t, [loc[t] EXCEPT !.pw = master])
       ELSE Done(t)
    /\ UNCHANGED <<disk, master, pending, sessions, history>>

CurrentSharedAgent(t) ==
    /\ At(t, "shared")
    /\ LookUp
    /\ Cross(t, LAMBDA u : Between(u, "mint", "adopt"))
    /\ Proceed(t, IF Unlocked THEN [loc[t] EXCEPT !.shared = Loaded[Current].data.agent] ELSE loc[t])
    /\ UNCHANGED <<disk, master, pending, sessions, seen, audited>>

\* A creation relies on the active definition until it has saved the form, and a
\* first run until it has its vault.
Relies(u) ==
    \/ Between(u, "admit", "shared") \/ Between(u, "point", "save_form")
    \/ Between(u, "fresh", "get")

\* A lock relies on no vault being opened before it has forgotten the password.
Locking(u) == Between(u, "lock", "forget")

\* A request that opens a vault with the password it has read, and writes that back.
Reopening(u) == Between(u, "reopen", "restore")

\* switch_active_vault(), whose check of the path is its first step here.
Compare(t) ==
    /\ At(t, "compare")
    /\ IF pointer = loc[t].name
       THEN todo' = [todo EXCEPT ![t] = <<"reopen", "decrypt", "restore">>] /\ UNCHANGED loc
       ELSE IF file[loc[t].name] = None THEN Done(t) ELSE Proceed(t, loc[t])
    /\ UNCHANGED <<disk, memory, sessions, history>>

Point(t) ==
    /\ At(t, "point")
    /\ pointer' = loc[t].name
    /\ Cross(t, Relies)
    /\ Proceed(t, loc[t])
    /\ UNCHANGED <<file, bundle, memory, sessions, seen, audited>>

Reset(t) ==
    /\ At(t, "reset")
    /\ vault' = None
    /\ Cross(t, Relies)
    /\ Proceed(t, loc[t])
    /\ UNCHANGED <<disk, object, master, pending, sessions, seen, audited>>

\* Then ensure_profile_active_and_unlocked(), of an edit page or an agent's tool,
\* reads the password if the vault is locked, and keeps to what it has read.
Reopen(t) ==
    /\ At(t, "reopen")
    /\ LookUp
    /\ IF Unlocked \/ master = None THEN Done(t)
       ELSE Proceed(t, [loc[t] EXCEPT !.v = Current, !.pw = master])
    /\ UNCHANGED <<disk, master, pending, sessions, history>>

----------------------------------------------------------------------------
(* create_vault(): after its first step it keeps to the object it got.     *)

Mine(t) == object[loc[t].v]

Change(t, data) == object' = [object EXCEPT ![loc[t].v].data = data]

Get(t) ==
    /\ At(t, "get")
    /\ LookUp
    /\ IF file[pointer] = None THEN Proceed(t, [loc[t] EXCEPT !.v = Current]) ELSE Done(t)
    /\ UNCHANGED <<disk, master, pending, sessions, history>>

\* Vault.create() checks for the file once more.
Mint(t) ==
    /\ At(t, "mint")
    /\ IF file[Mine(t).name] = None
       THEN /\ Change(t, [pw |-> loc[t].pw, agent |-> t, form |-> None])
            /\ Cross(t, LAMBDA u : \/ Locking(u)
                                   \/ Between(u, "get", "pend") /\ Mine(u).name = Mine(t).name)
            /\ Proceed(t, [loc[t] EXCEPT !.agent = t])
       ELSE Done(t) /\ UNCHANGED <<object, crossed>>
    /\ UNCHANGED <<disk, vault, master, pending, sessions, seen, audited>>

\* Vault.save(): of whatever the object holds by now, if anything.
Write(t, data) ==
    /\ Change(t, data)
    /\ file' = [file EXCEPT ![Mine(t).name] = data]

\* The key and the file of a creation are under the password it was given.
Save(t) ==
    /\ At(t, "save")
    /\ IF Mine(t).data # None
       THEN Write(t, [Mine(t).data EXCEPT !.pw = loc[t].pw]) /\ Proceed(t, loc[t])
       ELSE Done(t) /\ UNCHANGED <<file, object>>
    /\ UNCHANGED <<bundle, pointer, vault, master, pending, sessions, history>>

\* Seeded fault: the key minted first is returned all the same.
AdoptAndKeep(t) ==
    /\ At(t, "adopt")
    /\ IF loc[t].shared # None /\ Mine(t).data # None
       THEN Write(t, [Mine(t).data EXCEPT !.agent = loc[t].shared])
       ELSE UNCHANGED <<file, object>>
    /\ Proceed(t, loc[t])
    /\ UNCHANGED <<bundle, pointer, vault, master, pending, sessions, history>>

\* The shared key takes the place of the one just minted, which nobody is shown.
Adopt(t) ==
    /\ At(t, "adopt")
    /\ IF loc[t].shared = None
       THEN Proceed(t, loc[t]) /\ UNCHANGED <<file, object>>
       ELSE IF Mine(t).data # None
       THEN /\ Write(t, [Mine(t).data EXCEPT !.agent = loc[t].shared])
            /\ Proceed(t, [loc[t] EXCEPT !.agent = None])
       ELSE Done(t) /\ UNCHANGED <<file, object>>
    /\ UNCHANGED <<bundle, pointer, vault, master, pending, sessions, history>>

Unlock(t) ==
    /\ At(t, "unlock")
    /\ IF Mine(t).data # None THEN Proceed(t, loc[t]) /\ UNCHANGED object
       ELSE IF file[Mine(t).name].pw = loc[t].pw
       THEN Change(t, file[Mine(t).name]) /\ Proceed(t, loc[t])
       ELSE Done(t) /\ UNCHANGED object
    /\ UNCHANGED <<disk, vault, master, pending, sessions, history>>

\* The key derivation of Vault.unlock() is slow: a lock can begin or end meanwhile.
Decrypt(t) ==
    /\ At(t, "decrypt")
    /\ IF Mine(t).data # None THEN Proceed(t, loc[t]) /\ UNCHANGED object
       ELSE IF file[Mine(t).name] # None /\ file[Mine(t).name].pw = loc[t].pw
       THEN Change(t, file[Mine(t).name]) /\ Proceed(t, loc[t])
       ELSE Done(t) /\ UNCHANGED object
    /\ Cross(t, Locking)
    /\ UNCHANGED <<disk, vault, master, pending, sessions, seen, audited>>

Restore(t) ==
    /\ At(t, "restore")
    /\ master' = loc[t].pw
    /\ Proceed(t, loc[t])
    /\ UNCHANGED <<disk, vault, object, pending, sessions, history>>

Install(t) ==
    /\ At(t, "install")
    /\ master' = loc[t].pw
    /\ Proceed(t, loc[t])
    /\ UNCHANGED <<disk, vault, object, pending, sessions, history>>

WriteRecoveryBundle(t) ==
    /\ At(t, "bundle")
    /\ bundle' = [bundle EXCEPT ![Mine(t).name] = t]
    /\ Proceed(t, [loc[t] EXCEPT !.recovery = t])
    /\ UNCHANGED <<file, pointer, memory, sessions, history>>

Awaits(u) == Between(u, "pend", "consume")

Pend(t) ==
    /\ At(t, "pend")
    /\ pending' = loc[t].recovery
    /\ Cross(t, Awaits)
    /\ Proceed(t, [loc[t] EXCEPT !.recovery = None])
    /\ UNCHANGED <<disk, vault, object, master, sessions, seen, audited>>

----------------------------------------------------------------------------
(* What the handlers do with the new definition                            *)

ConsumePendingRecoveryKey(t) ==
    /\ At(t, "consume")
    /\ pending' = None
    /\ Cross(t, Awaits)
    /\ Proceed(t, [loc[t] EXCEPT !.recovery = pending])
    /\ UNCHANGED <<disk, vault, object, master, sessions, seen, audited>>

GetVaultData(t) ==
    /\ At(t, "data")
    /\ LookUp
    /\ IF Unlocked THEN Proceed(t, [loc[t] EXCEPT !.d = Current]) ELSE Done(t)
    /\ UNCHANGED <<disk, master, pending, sessions, history>>

ApplyDefinitionForm(t) ==
    /\ At(t, "apply")
    /\ object' = IF object[loc[t].d].data = None THEN object
                 ELSE [object EXCEPT ![loc[t].d].data.form = loc[t].name]
    /\ Proceed(t, loc[t])
    /\ UNCHANGED <<disk, vault, master, pending, sessions, history>>

SaveVault(t) ==
    /\ At(t, "save_form")
    /\ LookUp
    /\ IF Unlocked
       THEN file' = [file EXCEPT ![pointer] = Loaded[Current].data] /\ Proceed(t, loc[t])
       ELSE Done(t) /\ UNCHANGED file
    /\ UNCHANGED <<bundle, pointer, master, pending, sessions, history>>

AdminAudit(t) ==
    /\ At(t, "audit")
    /\ audited' = audited \cup {loc[t].name}
    /\ Proceed(t, loc[t])
    /\ UNCHANGED <<disk, memory, sessions, seen, crossed>>

CreateSession(t) ==
    /\ At(t, "open_session")
    /\ session' = [session EXCEPT ![t] = [agent |-> None, recovery |-> None]]
    /\ signed' = TRUE
    /\ Proceed(t, loc[t])
    /\ UNCHANGED <<disk, memory, history>>

\* A first run whose session is gone already leaves its recovery key pending.
Find(t) ==
    /\ At(t, "find")
    /\ IF session[t] # None THEN Proceed(t, loc[t])
       ELSE todo' = [todo EXCEPT ![t] = <<"audit">>] /\ UNCHANGED loc
    /\ UNCHANGED <<disk, memory, sessions, history>>

\* Seeded fault: the session is given the agent key only.
ShowAgentKey(t) ==
    /\ At(t, "show")
    /\ session' = IF session[t] = None THEN session ELSE [session EXCEPT ![t].agent = loc[t].agent]
    /\ Proceed(t, loc[t])
    /\ UNCHANGED <<disk, memory, signed, history>>

Show(t) ==
    /\ At(t, "show")
    /\ session' = IF session[t] = None THEN session
                  ELSE [session EXCEPT ![t] = [agent |-> loc[t].agent, recovery |-> loc[t].recovery]]
    /\ Proceed(t, loc[t])
    /\ UNCHANGED <<disk, memory, signed, history>>

\* The page the operator is sent to shows the keys once.
AgentPage(t) ==
    /\ session[t] # None /\ session[t].recovery # None
    /\ LookUp
    /\ Unlocked
    /\ seen' = seen \cup {session[t].recovery}
    /\ session' = [session EXCEPT ![t] = [agent |-> None, recovery |-> None]]
    /\ UNCHANGED <<disk, master, pending, signed, todo, loc, audited, crossed>>

----------------------------------------------------------------------------
(* lock_vault(), and the auto-lock timer, which keeps the password         *)

Lock(t) ==
    /\ At(t, "lock")
    /\ GetVault(None)
    /\ Cross(t, LAMBDA u : \/ Between(u, "admit", "save_form")
                           \/ Between(u, "fresh", "install"))
    /\ Proceed(t, loc[t])
    /\ UNCHANGED <<disk, master, pending, sessions, seen, audited>>

Unshown(u) == session[u] # None /\ session[u].recovery # None

ClearAllSessions(t) ==
    /\ At(t, "clear")
    /\ session' = [u \in Tasks |-> None]
    /\ signed' = FALSE
    /\ Cross(t, LAMBDA u : Unshown(u) \/ Between(u, "open_session", "show"))
    /\ Proceed(t, loc[t])
    /\ UNCHANGED <<disk, memory, seen, audited>>

Forget(t) ==
    /\ At(t, "forget")
    /\ master' = None
    /\ Cross(t, Reopening)
    /\ Proceed(t, loc[t])
    /\ UNCHANGED <<disk, vault, object, pending, sessions, seen, audited>>

Next ==
    \E t \in Tasks :
        \/ Request(t)
        \/ Fresh(t) \/ Admit(t) \/ CurrentSharedAgent(t)
        \/ Compare(t) \/ Point(t) \/ Reset(t) \/ Reopen(t) \/ Decrypt(t) \/ Restore(t)
        \/ Get(t) \/ Mint(t) \/ Save(t) \/ Adopt(t) \/ Unlock(t) \/ Install(t)
        \/ WriteRecoveryBundle(t) \/ Pend(t) \/ ConsumePendingRecoveryKey(t)
        \/ GetVaultData(t) \/ ApplyDefinitionForm(t) \/ SaveVault(t) \/ AdminAudit(t)
        \/ CreateSession(t) \/ Find(t) \/ Show(t) \/ AgentPage(t)
        \/ Lock(t) \/ ClearAllSessions(t) \/ Forget(t)

Spec == Init /\ [][Next]_vars

----------------------------------------------------------------------------
(* Properties                                                              *)

Existing == {n \in Names : file[n] # None}

Creating == {t \in Tasks : loc[t].kind \in {"setup", "create"} /\ todo[t] # <<>>}

\* Some request is still creating that definition.
UnderWay(n) == \E t \in Creating : loc[t].name = n

\* Every variable stays in its domain, and a creation or a reopening goes on
\* only with a vault object and a password.
TypeOK ==
    /\ file \in [Names -> Data \cup {None}] /\ bundle \in [Names -> Keys \cup {None}]
    /\ pointer \in Names /\ vault \in Objects \cup {None}
    /\ object \in [Objects -> [name : Names, data : Data \cup {None}]]
    /\ {master, pending} \subseteq Keys \cup {None}
    /\ session \in [Tasks -> Shows \cup {None}]
    /\ signed \in BOOLEAN /\ crossed \in BOOLEAN
    /\ seen \subseteq Keys /\ audited \subseteq Names
    /\ \A t \in Tasks :
        /\ Between(t, "get", "pend") \/ Reopening(t) => loc[t].v # None /\ loc[t].pw # None
        /\ Between(t, "bundle", "pend") => file[Mine(t).name] # None

\* The recovery key that opens a definition's bundle has been shown, or is on its
\* way: to the bundle's writer, pending, or in a session that can still be shown.
\* So no key gets lost or overwritten while other definitions are created,
\* switched or locked, unless two requests meet where they harm each other.
KeyIsNotLost ==
    crossed \/ \A n \in Names :
        bundle[n] # None =>
            \/ bundle[n] \in seen
            \/ \E t \in Tasks : \/ loc[t].recovery = bundle[n] /\ todo[t] # <<>>
                                \/ session[t] # None /\ session[t].recovery = bundle[n]
            \/ bundle[n] = pending /\ \E t \in Creating : Between(t, "pend", "consume")

\* The keys a session is about to show are those of the definition its request
\* created: the recovery key opens its bundle, the agent key (shown if there was
\* none to share) opens it to agents.
ShownKeysFit ==
    crossed \/ \A t \in Tasks :
        session[t] # None =>
            /\ session[t].recovery # None => session[t].recovery = bundle[loc[t].name]
            /\ session[t].agent # None => session[t].agent = file[loc[t].name].agent

\* All definitions answer to one agent key, except while one is being created.
OneAgentKey ==
    crossed \/ \A m, n \in Existing :
        UnderWay(m) \/ UnderWay(n) \/ file[m].agent = file[n].agent

\* The password in memory opens every definition, and without it no vault
\* is left decrypted in the cache, except while a definition is being created.
PasswordFits ==
    \/ Creating # {}
    \/ /\ master # None => \A n \in Existing : file[n].pw = master
       /\ master = None => vault = None \/ object[vault].data = None

\* That fails only once a lock has met a request that opens a vault or creates
\* one: a reopening that read the password before it was forgotten undoes the lock.
MemoryFits == crossed \/ PasswordFits

\* Every definition has the event of its creation in the audit log, and every such
\* event a definition, which holds the form that was submitted with it.
CreationIsAudited ==
    \A n \in Names :
        \/ UnderWay(n)
        \/ /\ n \in audited <=> file[n] # None
           /\ n \in audited \ {Default} => file[n].form = n

AuditFailsOnlySo == crossed \/ CreationIsAudited
=============================================================================
