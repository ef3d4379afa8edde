------------------------------ MODULE Requests ------------------------------
(***************************************************************************)
(* The requests of VaultManager.tla once more, now interleaved.            *)
(*                                                                         *)
(* Every helper of app/core/vault_manager.py starts over from two globals: *)
(* the active pointer on disk and the cached Vault object of get_vault().  *)
(* A handler that calls several helpers in a row sees whatever the others  *)
(* have made of them in between.  The admin handlers run in worker         *)
(* threads; the agent middleware and the agent tools run on the thread of  *)
(* the event loop, one stretch between two awaits at a time.               *)
(*                                                                         *)
(* The runtime master password is known throughout and opens every         *)
(* definition; a Vault object is identified while somebody refers to it,   *)
(* and its file is replaced in one step (VaultFile.tla has the steps).     *)
(***************************************************************************)
EXTENDS Naturals, FiniteSets, Sequences

CONSTANTS
    Agents,    \* concurrent agent tool calls
    Admins,    \* concurrent admin requests
    Names,     \* definitions
    Targets,   \* the definitions that requests name
    Start,     \* the definition that is active first
    Forms,     \* definition forms, as far as they differ
    FirstForm, \* what every definition holds at first
    None,
    Kinds,     \* admin requests enabled: "update", "select", "archive"
    MaxCalls,  \* bound: requests started in one behaviour
    MaxOpen    \* bound: requests under way at one time

ASSUME RequestsAssumption ==
    /\ Agents \cap Admins = {}
    /\ IsFiniteSet(Agents \cup Admins) /\ None \notin Agents
    /\ Targets \subseteq Names /\ Start \in Names
    /\ FirstForm \in Forms
    /\ None \notin Names \cup Forms \cup Nat
    /\ Kinds \subseteq {"update", "select", "archive"}
    /\ MaxCalls \in Nat /\ MaxOpen \in Nat

Threads == Agents \cup Admins

\* Identities of Vault objects: the cached one, two per request and a new one suffice.
Objects == 1..(2 * Cardinality(Threads) + 2)

VARIABLES
    file,     \* per definition the form in its vault file, None if archived
    pointer,  \* .active_vault
    vault,    \* the global _vault: an object or None
    object,   \* the Vault objects: [name, form], form None while locked
    todo,     \* per thread the steps of its request still to take
    loc,      \* per thread the locals of its request
    loop,     \* the agent call the event loop is running, or None
    latest,   \* history: per definition the form last submitted by an edit of it
    crossed,  \* history: whether the active definition was switched, or one
              \* archived, beside a request that an admin handler is part of
    raced,    \* history: definitions made active or archived while another request
              \* had done half of the other, or held the archived one open
    calls     \* requests started

shared == <<file, pointer, vault, object>>
vars == <<shared, todo, loc, loop, latest, crossed, raced, calls>>

NoCall == [asked |-> None, form |-> None, path |-> None, v |-> None, d |-> None,
           target |-> None, policy |-> None]

\* What an identity stands for that nobody refers to.
Unborn == [name |-> Start, form |-> None]

Init ==
    /\ file = [n \in Names |-> FirstForm]
    /\ pointer = Start
    /\ vault = None
    /\ object = [v \in Objects |-> Unborn]
    /\ todo = [t \in Threads |-> <<>>]
    /\ loc = [t \in Threads |-> NoCall]
    /\ loop = None
    /\ latest = [n \in Names |-> FirstForm]
    /\ crossed = FALSE
    /\ raced = {}
    /\ calls = 0

----------------------------------------------------------------------------
(* Handlers as sequences of steps                                          *)

Get == <<"path", "settle", "take">>
TryAutoUnlock == Get \o <<"unlock">>
GetVaultData == Get \o <<"data">>
Ensure == <<"compare">> \o TryAutoUnlock

\* _sql_policy_from_target looks the vault up again, and again for its data.
LookUpPolicy == Get \o <<"is_unlocked">> \o Get \o <<"policy">>

\* dispatch() up to its await, then query_readonly_sql.
AgentCall == <<"enter">> \o TryAutoUnlock \o GetVaultData \o <<"leave">>
             \o <<"enter">> \o Ensure \o GetVaultData \o <<"target">>
             \o LookUpPolicy \o <<"act", "leave">>

Update == Ensure \o GetVaultData \o <<"edit">> \o Get \o <<"save">>
Select == <<"exists", "point", "reset">>
Archive == <<"check_active", "archive">>

At(t, step) == todo[t] # <<>> /\ Head(todo[t]) = step

Local(t, l) == loc' = [loc EXCEPT ![t] = l]

\* A request that is over, or that raised, holds no object any more.
Done(t) == todo' = [todo EXCEPT ![t] = <<>>] /\ Local(t, NoCall)

Proceed(t, l) ==
    IF Len(todo[t]) = 1 THEN Done(t)
    ELSE todo' = [todo EXCEPT ![t] = Tail(@)] /\ Local(t, l)

Begin(t, n, f, steps) ==
    /\ todo[t] = <<>>
    /\ calls < MaxCalls
    /\ Cardinality({u \in Threads : todo[u] # <<>>}) < MaxOpen
    /\ calls' = calls + 1
    /\ todo' = [todo EXCEPT ![t] = steps]
    /\ Local(t, [NoCall EXCEPT !.asked = n, !.form = f])
    /\ UNCHANGED <<shared, loop, latest, crossed, raced>>

Request(t) ==
    \E n \in Targets :
        \/ t \in Agents /\ Begin(t, n, None, AgentCall)
        \/ /\ t \in Admins
           /\ \/ "update" \in Kinds /\ \E f \in Forms : Begin(t, n, f, Update)
              \/ "select" \in Kinds /\ Begin(t, n, None, Select)
              \/ "archive" \in Kinds /\ Begin(t, n, None, Archive)

----------------------------------------------------------------------------
(* The event loop                                                          *)

\* Seeded fault: the tools run in worker threads, as the admin handlers do.
EnterFreely(t) ==
    /\ At(t, "enter")
    /\ Proceed(t, loc[t])
    /\ UNCHANGED <<shared, loop, latest, crossed, raced, calls>>

Enter(t) ==
    /\ At(t, "enter")
    /\ loop = None
    /\ loop' = t
    /\ Proceed(t, loc[t])
    /\ UNCHANGED <<shared, latest, crossed, raced, calls>>

Leave(t) ==
    /\ At(t, "leave")
    /\ loop' = None
    /\ Proceed(t, loc[t])
    /\ UNCHANGED <<shared, latest, crossed, raced, calls>>

\* An error response ends the request, and with it its turn on the loop.
Raise(t) ==
    /\ Done(t)
    /\ loop' = IF loop = t THEN None ELSE loop

----------------------------------------------------------------------------
(* get_vault(): the path is read from the pointer file first.              *)

GetPath(t) ==
    /\ At(t, "path")
    /\ Proceed(t, [loc[t] EXCEPT !.path = pointer])
    /\ UNCHANGED <<shared, loop, latest, crossed, raced, calls>>

InUse == {vault} \cup {loc[t].v : t \in Threads} \cup {loc[t].d : t \in Threads}

\* An object of another path is dropped and a new, locked one built; objects
\* that nobody refers to are collected.
Settle(t) ==
    /\ At(t, "settle")
    /\ IF vault # None /\ object[vault].name = loc[t].path
       THEN UNCHANGED <<vault, object>>
       ELSE LET v == CHOOSE o \in Objects \ InUse : TRUE
            IN  /\ vault' = v
                /\ object' = [o \in Objects |->
                                  IF o = v THEN [name |-> loc[t].path, form |-> None]
                                  ELSE IF o \in InUse THEN object[o] ELSE Unborn]
    /\ Proceed(t, loc[t])
    /\ UNCHANGED <<file, pointer, loop, latest, crossed, raced, calls>>

\* Seeded fault: the None of a vault dropped meanwhile is not noticed.
TakeUnchecked(t) ==
    /\ At(t, "take")
    /\ Proceed(t, [loc[t] EXCEPT !.v = vault])
    /\ UNCHANGED <<shared, loop, latest, crossed, raced, calls>>

\* Whatever goes wrong in the look-up of the policy leaves the read-only default.
DefaultPolicy(t) ==
    /\ loc[t].target # None
    /\ todo' = [todo EXCEPT ![t] = <<"act", "leave">>]
    /\ UNCHANGED <<loc, loop>>

\* "return _vault" reads the global again.
Take(t) ==
    /\ At(t, "take")
    /\ \/ vault # None /\ Proceed(t, [loc[t] EXCEPT !.v = vault]) /\ UNCHANGED loop
       \/ vault = None /\ (DefaultPolicy(t) \/ (loc[t].target = None /\ Raise(t)))
    /\ UNCHANGED <<shared, latest, crossed, raced, calls>>

Locked(t) == object[loc[t].v].form = None

\* Seeded fault: an unlocked vault is read from its file again.
UnlockAgain(t) ==
    /\ At(t, "unlock")
    /\ object' = [object EXCEPT ![loc[t].v].form = file[object[loc[t].v].name]]
    /\ Proceed(t, loc[t])
    /\ UNCHANGED <<file, pointer, vault, loop, latest, crossed, raced, calls>>

Unlock(t) ==
    /\ At(t, "unlock")
    /\ \/ /\ ~Locked(t)
          /\ Proceed(t, loc[t])
          /\ UNCHANGED <<object, loop>>
       \/ /\ Locked(t) /\ file[object[loc[t].v].name] # None
          /\ object' = [object EXCEPT ![loc[t].v].form = file[object[loc[t].v].name]]
          /\ Proceed(t, loc[t])
          /\ UNCHANGED loop
       \/ /\ Locked(t) /\ file[object[loc[t].v].name] = None
          /\ Raise(t)
          /\ UNCHANGED object
    /\ UNCHANGED <<file, pointer, vault, latest, crossed, raced, calls>>

GetData(t) ==
    /\ At(t, "data")
    /\ \/ ~Locked(t) /\ Proceed(t, [loc[t] EXCEPT !.d = loc[t].v]) /\ UNCHANGED loop
       \/ Locked(t) /\ Raise(t)
    /\ UNCHANGED <<shared, latest, crossed, raced, calls>>

----------------------------------------------------------------------------
(* switch_active_vault() and ensure_profile_active_and_unlocked()          *)

Compare(t) ==
    /\ At(t, "compare")
    /\ todo' = [todo EXCEPT ![t] = IF pointer = loc[t].asked
                                    THEN Tail(@) ELSE Select \o Tail(@)]
    /\ UNCHANGED <<shared, loc, loop, latest, crossed, raced, calls>>

\* Seeded fault: any definition can be made the active one.
ExistsUnchecked(t) ==
    /\ At(t, "exists")
    /\ Proceed(t, loc[t])
    /\ UNCHANGED <<shared, loop, latest, crossed, raced, calls>>

Exists(t) ==
    /\ At(t, "exists")
    /\ \/ file[loc[t].asked] # None /\ Proceed(t, loc[t]) /\ UNCHANGED loop
       \/ file[loc[t].asked] = None /\ Raise(t)
    /\ UNCHANGED <<shared, latest, crossed, raced, calls>>

\* Another request is under way, and not on the same event loop.
Beside(t) == \E u \in Threads \ {t} : todo[u] # <<>> /\ ~({t, u} \subseteq Agents)

Cross(t) == crossed' = (crossed \/ Beside(t))

\* Some other thread is about to take that step with definition n.
About(t, step, n) == \E u \in Threads \ {t} : At(u, step) /\ loc[u].asked = n

Race(n, Harms) == raced' = IF Harms THEN raced \cup {n} ELSE raced

Point(t) ==
    /\ At(t, "point")
    /\ pointer' = loc[t].asked
    /\ Cross(t)
    /\ Race(loc[t].asked, About(t, "archive", loc[t].asked))
    /\ Proceed(t, loc[t])
    /\ UNCHANGED <<file, vault, object, loop, latest, calls>>

Reset(t) ==
    /\ At(t, "reset")
    /\ vault' = None
    /\ Cross(t)
    /\ Proceed(t, loc[t])
    /\ UNCHANGED <<file, pointer, object, loop, latest, raced, calls>>

----------------------------------------------------------------------------
(* What the requests are for                                               *)

Target(t) ==
    /\ At(t, "target")
    /\ Proceed(t, [loc[t] EXCEPT !.target = object[loc[t].d].name])
    /\ UNCHANGED <<shared, loop, latest, crossed, raced, calls>>

IsUnlocked(t) ==
    /\ At(t, "is_unlocked")
    /\ \/ ~Locked(t) /\ Proceed(t, loc[t]) /\ UNCHANGED loop
       \/ Locked(t) /\ DefaultPolicy(t)
    /\ UNCHANGED <<shared, latest, crossed, raced, calls>>

Policy(t) ==
    /\ At(t, "policy")
    /\ \/ /\ ~Locked(t)
          /\ Proceed(t, [loc[t] EXCEPT !.policy = object[loc[t].v].name])
          /\ UNCHANGED loop
       \/ Locked(t) /\ DefaultPolicy(t)
    /\ UNCHANGED <<shared, latest, crossed, raced, calls>>

Act(t) ==
    /\ At(t, "act")
    /\ Proceed(t, loc[t])
    /\ UNCHANGED <<shared, loop, latest, crossed, raced, calls>>

Edit(t) ==
    /\ At(t, "edit")
    /\ object' = [object EXCEPT ![loc[t].d].form = loc[t].form]
    /\ latest' = [latest EXCEPT ![loc[t].asked] = loc[t].form]
    /\ Proceed(t, loc[t])
    /\ UNCHANGED <<file, pointer, vault, loop, crossed, raced, calls>>

Save(t) ==
    /\ At(t, "save")
    /\ \/ /\ ~Locked(t)
          /\ file' = [file EXCEPT ![object[loc[t].v].name] = object[loc[t].v].form]
          /\ Proceed(t, loc[t])
       \/ Locked(t) /\ Done(t) /\ UNCHANGED file
    /\ UNCHANGED <<pointer, vault, object, loop, latest, crossed, raced, calls>>

CheckActive(t) ==
    /\ At(t, "check_active")
    /\ IF pointer = loc[t].asked \/ file[loc[t].asked] = None
       THEN Done(t) ELSE Proceed(t, loc[t])
    /\ UNCHANGED <<shared, loop, latest, crossed, raced, calls>>

\* A decrypted object of definition n is cached, or in an admin handler's hands.
Open(n) ==
    \E v \in ({vault} \cup {loc[t].v : t \in Admins}) \ {None} :
        object[v].name = n /\ object[v].form # None

\* A file renamed meanwhile by another request is skipped.
ArchiveFile(t) ==
    /\ At(t, "archive")
    /\ file' = [file EXCEPT ![loc[t].asked] = None]
    /\ Cross(t)
    /\ Race(loc[t].asked, About(t, "point", loc[t].asked) \/ Open(loc[t].asked))
    /\ Proceed(t, loc[t])
    /\ UNCHANGED <<pointer, vault, object, loop, latest, calls>>

Next ==
    \E t \in Threads :
        \/ Request(t) \/ Enter(t) \/ Leave(t)
        \/ GetPath(t) \/ Settle(t) \/ Take(t) \/ Unlock(t) \/ GetData(t)
        \/ Compare(t) \/ Exists(t) \/ Point(t) \/ Reset(t)
        \/ Target(t) \/ IsUnlocked(t) \/ Policy(t) \/ Act(t) \/ Edit(t) \/ Save(t)
        \/ CheckActive(t) \/ ArchiveFile(t)

Spec == Init /\ [][Next]_vars

----------------------------------------------------------------------------
(* Properties                                                              *)

StepNames == {"enter", "leave", "path", "settle", "take", "unlock", "data", "compare",
              "exists", "point", "reset", "target", "is_unlocked", "policy", "act", "edit", "save",
              "check_active", "archive"}

\* Every variable stays in its domain, and a thread only goes on with an
\* object it was given: never with the None that get_vault() can return.
TypeOK ==
    /\ file \in [Names -> Forms \cup {None}]
    /\ pointer \in Names
    /\ vault \in Objects \cup {None}
    /\ object \in [Objects -> [name : Names, form : Forms \cup {None}]]
    /\ todo \in [Threads -> Seq(StepNames)]
    /\ loc \in [Threads -> [asked : Names \cup {None}, form : Forms \cup {None},
                            path : Names \cup {None}, v : Objects \cup {None},
                            d : Objects \cup {None}, target : Names \cup {None},
                            policy : Names \cup {None}]]
    /\ \A t \in Threads : At(t, "unlock") \/ At(t, "data") \/ At(t, "save") => loc[t].v # None
    /\ loop \in Agents \cup {None}
    /\ latest \in [Names -> Forms]
    /\ crossed \in BOOLEAN /\ raced \subseteq Names /\ calls \in 0..MaxCalls

\* A tool acts on the definition that its call named, under the policy of
\* that same definition or the read-only default.
ToolActsOnProfile ==
    \A t \in Agents : At(t, "act") => loc[t].target = loc[t].asked
                                      /\ loc[t].policy \in {loc[t].asked, None}

\* So it is among any number of agents that switch between definitions, and
\* beside admin requests, as long as no admin request switches or is switched
\* under.
ToolIsOnlyDivertedSo == crossed \/ ToolActsOnProfile

\* The save of an edit writes the form last submitted for the definition that
\* was edited, to that definition's file and to no other, beside any requests
\* that leave the active definition alone.
UpdateReachesItsFile ==
    [][\A t \in Admins : ~crossed /\ At(t, "save") /\ ~Locked(t) /\ todo'[t] = <<>>
          => file' = [file EXCEPT ![loc[t].asked] = latest[loc[t].asked]]]_vars

\* A definition that has been archived is not made active again, and no save
\* brings its file back, whatever the requests under way had looked up before;
\* the container would not start again with a pointer to it.  Only a switch that
\* had found its file, or an object of it that is decrypted already, does that.
ArchivedStaysArchived ==
    [][\A n \in Names \ raced' : /\ file[n] = None => file'[n] = None
                                 /\ file'[n] = None => pointer' # n]_vars
=============================================================================
