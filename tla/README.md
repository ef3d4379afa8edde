# pgsentinel_mcp in TLA+

Formal models of pgsentinel_mcp: the encrypted vaults ("definitions") it keeps its
credentials in, the manager that holds one of them decrypted in memory, the admin panel and
the agent (MCP) calls that share it, the way new keys reach the operator, the auto-lock timer,
the SSH trust store, remote commands, the tunnelled PostgreSQL client, and the policy that
decides which SQL an agent may run. TLC checks
small instances; TLAPS proves the theorems of the eight `*Proofs` modules for all values of
the constants.

- [1 The system](#1-the-system)
- [2 Modules](#2-modules)
- [3 Runs](#3-runs)
- [4 Proofs](#4-proofs)
- [5 Where the code and its documents disagree](#5-where-the-code-and-its-documents-disagree)
- [6 Not modelled](#6-not-modelled)
- [7 Plan](#7-plan)

To repeat a check: `tlc -config <Run>.cfg <MCModule>`, `tlapm <Module>Proofs.tla`.

## 1 The system

One Python process (FastAPI and an MCP server in one ASGI application) serves an operator
over an admin panel and agents over MCP. Paths below are relative to `src/`.

| Component | State | Operations |
|---|---|---|
| Vault, `app/core/vault.py` | one `Vault` object: decrypted data, salt, nonce, ciphertext, derived key; on disk `vault.enc`, `.tmp`, `.bak` | create, unlock, lock, save (with or without a new password) |
| Vault manager, `app/core/vault_manager.py` | globals `_vault`, `_runtime_master_password`, sessions, `_auto_lock_stop`; on disk a directory of definitions, `.active_vault`, `.vault_initialized`, one `.recovery` bundle per definition | get, create, unlock, lock, switch, archive, import/export, rotate and toggle the agent key over all definitions, recovery reset, auto-lock thread |
| Admin panel, `app/admin/routes.py` | sessions | one handler per form; synchronous handlers run in worker threads |
| Agents, `app/mcp/auth.py`, `app/mcp/tools.py` | none of their own | key check with automatic unlock, then a tool that switches to its `profile_code` |
| SQL guard and policy, `app/core/security.py`, `app/tools/postgres.py` | the policy stored in the definition | classify, enforce, clamp, run |
| Process start, `app/main.py`, `docker/app/entrypoint.sh` | `.vault_initialized` | refuse to start without the vault, unlock from the environment |
| SSH, `app/remote/hostkeys.py`, `connection.py`, `ssh_client.py` | `known_hosts`; a key file, a connection, a channel | trust on first use; connect, run a command, drain its output, close |
| PostgreSQL client and tunnel, `app/remote/direct_postgres.py` | secret files, an SSH client, a listening socket, an accept thread, one bridge thread per connection | open, forward, query, close |
| Audit, masking, agent keys, YAML configuration, other tools | an append-only file, or none | stateless |

**How they interact.** Every helper of the vault manager starts over from two globals: the
pointer file and the cached object (`get_vault()`). Handlers call several helpers in a row.
Admin handlers are plain functions and run in a thread pool; the agent middleware, FastMCP's
synchronous tools and the asynchronous `vaults_import` run on the thread of the event loop,
one stretch between two awaits at a time. The auto-lock timer is a daemon thread. The manager
has a lock, `_lock` (`vault_manager.py:21`), which it holds while it builds the cached object
(38) or drops it (49, 62) and for single operations on the session table (357-376). It does not
cover what the steps of the models are cut at: the reading and writing of the pointer file, of
the runtime password and of the timer's globals, the `return _vault` of `get_vault()`, and
whatever is done to a `Vault` object, which takes no lock itself; Argon2 and file I/O release
the interpreter lock. `hostkeys.py` has a lock of its own around its saves.

**What is hard here**, and which properties make each component correct:

| Hard behaviour | Correctness |
|---|---|
| a crash or `OSError` between the writes of one save; `lock()` beside a save | the file always opens (`FileAlwaysOpens`), a save is atomic (`ImplementsAtomicVault`) |
| two saves sharing one temporary file and one salt | a whole file stays openable, under the same password (`SealedUnderItsSalt`, `PasswordChangesOnRequest`) |
| handlers of several writes, interrupted anywhere | no acknowledged edit is lost (`AcknowledgedEditsSurvive`) |
| one key and one password spread over many files | they do not drift apart (`SharedAgentKey`, `BundleFollowsReset`, `OneAgentKey`) |
| keys that exist in readable form only once, passed on through a global slot and a session | they reach the operator and fit the definition they were made for (`KeyIsNotLost`, `ShownKeysFit`) |
| a creation of a dozen look-ups beside a lock, a switch or another creation | the memory fits the disk, the audit log the definitions (`MemoryFits`, `AuditFailsOnlySo`) |
| a decrypted copy beside the file it came from | the copy is current, and cleared after inactivity (`CacheIsCurrent`, `UnlockedHasTimer`) |
| a switch of the active definition between two look-ups | tools and edits reach the definition they named (`ToolIsOnlyDivertedSo`, `UpdateReachesItsFile`), and archived ones stay archived (`ArchivedStaysArchived`) |
| a stop event and a thread in unprotected globals | idle vaults get locked, old threads end (`IdleVaultIsLocked`, `StoppedTimersEnd`) |
| a shared file rewritten in place from stale copies | trust is lost in no other way (`TrustIsLostOnlySo`, `FirstKeyStays`) |
| two streams in one flow-control window, against a deadline | output complete, every call returns and closes (`OutputIsComplete`, `CallReturns` of SshExec) |
| blocking sends between four buffers, threads joined with a timeout, a link that stalls | calls succeed undisturbed, return always, leave no thread and no secret file (`CallSucceeds`, `CallReturns`, `SecretsAreRemoved` of Tunnel) |
| two forms writing one policy, three clamps of one limit | what the form shows is what runs (`ShownLevelIsObeyed`, `WritesWereAskedFor`, `LimitWithinCaps`) |

## 2 Modules

`Seeded fault` marks an operator that no specification uses: it is the form a plausible bug
would give the operator below it, kept to confirm that the properties notice.

### AtomicVault, VaultFile (`app/core/vault.py`)

`AtomicVault` is the abstract promise: one durable record `[pw, content]` replaced in a
single step, a decrypted `view`, and the `draft` a save under way will store.

`VaultFile` is the code. Each method is a chain of program-counter steps, cut where another
thread can run or the process can die: `save()` is `SaveCheck` (data present? new salt for a
new password), `SaveDerive`, `SaveKey`, `SaveCapture` (the key check), `SaveEncrypt`,
`SaveOpen` (truncates `.tmp`), `SaveWrite`, `SaveBackup`, `SaveCopy`, `SaveReplace`,
`SaveCommit`; `lock()` clears its fields in three steps. A derived key is the pair of the
password and the salt it is computed from, so an envelope opens only if the salt stored
beside the ciphertext is the one inside its key: the cryptography is ideal, bookkeeping of
salts is not. Threads hold file handles (`fd`): after `os.replace` a handle another thread
still has open on `.tmp` leads to `vault.enc`. `SaveFault` is an `OSError` anywhere, `Crash`
clears memory.

### VaultManager (`vault_manager.py` with the handlers that drive it)

Multi-vault mode, one request at a time. A handler is the sequence `todo` of steps, one per
write to the disk, so that `Crash` and `Fault` (an `OSError`, which leaves what the step had
already changed in memory) can strike between any two of them. A save is one step:
`AtomicVault` and its refinement allow that. `Edited` is what each saving step has changed in
memory before it writes. Guards of the handlers are the guards of the actions (`Admin` is
`_require_unlocked`; `CanEnsure`, the existence check of `switch_active_vault`). The order in
which `_apply_to_all_definitions` visits definitions is left open; the code sorts them.
`Startable` is the entry point's decision, `Restart` the automatic unlock of `lifespan()`.
History variables: `acked` (forms whose save was acknowledged, per definition), `shown` (the
agent key last shown). `Deployments` is a set of instances, each with the operations it
exercises, its environment and its bounds; one of them is chosen initially.

### Requests (the same handlers, interleaved)

The granularity VaultManager leaves out: every read of the pointer, every read of the global
`_vault`, every look at the object is a step, so a handler is `Get \o <<"unlock">> \o ...`.
Vault objects have identities because handlers keep references to objects that a switch has
dropped. Agent calls hold the event loop between `Enter` and `Leave`, admin handlers do not.
`Raise` is any error response. `crossed` is a history variable: the active definition was
switched, or one archived, while another request ran beside it and one of the two was an
admin request. `raced`, which `ArchivedStaysArchived` goes by, is much narrower. It holds single
definitions, and one enters it in two ways only: it is archived while another request is past
the check that its file exists and about to make it active, or while a decrypted object of it
is cached or in an admin handler's hands; or it is made active while another request is about
to rename its files. Archiving beside requests that have merely looked the pointer up, hold a
locked object, or are still to switch, is none of these.

### KeyHandover (creations, from the form to the page that shows the keys)

A third view of the same handlers: first run (`Setup`), creation of a definition (`Create`),
edit pages and agent calls that switch and reopen (`use`), the lock form and the auto-lock timer, each a
sequence of steps cut at every access to shared state. `create_vault()` keeps to the object it
got from its first `get_vault()`; the handler around it looks the active one up again for each
of its calls, and both are kept apart here. The recovery key travels from `WriteRecoveryBundle` through the
global `_pending_recovery_key` (`Pend`, `ConsumePendingRecoveryKey`) into a session (`Show`) and
onto a page that shows it once (`AgentPage`). The reopening of `ensure_profile_active_and_unlocked`
is three steps, because `lock_vault()` can run in between: `Reopen` gets the object and reads the
runtime password, `Decrypt` is the slow `Vault.unlock()` with what was read, `Restore` writes that
password back. No password comes from the environment here (VaultManager has that). Keys and
passwords are named after the request that minted or brought them. History variables: `seen` (recovery keys shown), `audited`
(creations in the audit log) and `crossed`, which is set where two requests meet harmfully;
each such place is one `Cross` in the step that does the harm:

| Step | meets |
|---|---|
| `CurrentSharedAgent` | a creation that still holds the agent key it will throw away |
| `Point`, `Reset` | a creation before its form is saved, a first run before it has its vault |
| `Mint` | a lock under way, or another creation with the same file |
| `Decrypt` | a lock under way |
| `Forget` | a reopening that has read the password and not yet written it back |
| `Pend`, `ConsumePendingRecoveryKey` | another key waiting in the slot |
| `Lock` | a creation before its form is saved |
| `ClearAllSessions` | a session whose keys have not been shown |

### AutoLock (the timer)

The stop event and thread of `_start_auto_lock_timer`, `_stop_auto_lock_timer` and
`_auto_lock_loop`, one action per access to the global. Time is reduced to "active recently
or not" (`fresh`). `overtaken`: an unlock has begun while a lock was under way.

### HostKeys (`app/remote/hostkeys.py`)

Clients that load, add and save; saving truncates and then writes. `raced` and `cut` record
the two ways in which keys can get lost.

### SshExec (`connection.py`, `ssh_client.py`)

One call of `_run_ssh`: key file, `connect`, removal of the key, `exec_command`, the drain loop
(with the same lines in `RemoteSSHClient.run`), the result, `client.close()` and the test of
`check`. The command writes to two streams sharing one window, may hang, and may exit before
its last output arrives; the connection may be refused or lost, and a closed channel counts as
one with a status (-1). The command and the channel are external to the code and modelled as
the loop can meet them. `exec_command` waits for the server's answer without a limit, and the
deadline is set after it.

### Tunnel (`app/remote/direct_postgres.py`)

One call of `run_json_sql`, direct or through the tunnel, as the threads it consists of: the
call itself with its nested context managers (`at`), the accept loop (`acceptor`), one bridge
per connection (`worker`; `ready` is the set of streams `select` has found and the bridge has
not yet read, psycopg's being read first), and outside the code the SSH transport, the server and psycopg, which may give up a first connection attempt and make a
second one (`Redial`). Data is counted in chunks on their way through four windows, so that
blocking sends can wait for each other. Faults are OSErrors at every file operation, a refused
or timed-out connect, and a link that stalls or breaks; `trouble` names the kinds that have
occurred. `noted` are the secret files whose path the code has kept, `stray` those an OSError
has put out of its reach.

### SqlPolicy (forms and gates)

`SubmitDefinition` and `SubmitSettings` are the two forms that write one policy; `Query` is
every gate from the tool to the limit the statement runs with. A statement is the record of
what the guard's regular expressions find in it. A call may be `overtaken`: the vault is
locked between the look-up of the target and that of the policy, and the read-only default
policy applies. `asked` and `raised` are history variables.

### MC modules

`MCVaultFile`, `MCVaultManager`, `MCRequests`, `MCKeyHandover`, `MCAutoLock`, `MCHostKeys` and
`MCSqlPolicy` declare the model values and the sets the configurations use; `SshExec` and
`Tunnel` need none.

## 3 Runs

| Run | Expect | Distinct states | Shows |
|---|---|---|---|
| `VaultFile_serial` | pass | 1.7 million | one thread, racing `lock()`, crashes and faults: `TypeOK`, `FileAlwaysOpens`, refinement of `AtomicVault` |
| `VaultFile_edits` | pass | 42 thousand | two threads unlocking (with right and wrong passwords) and saving: `SealedUnderItsSalt`, `PasswordChangesOnRequest` |
| `VaultManager_instances` | pass | 1.9 million | three deployments: all operations but resets with one password; resets with two; crashes, restarts, faults and imports with the password in the environment: `TypeOK`, `SharedAgentKey`, `UnlockedHasTimer`, `CacheIsCurrent`, `RestartIsAccepted`, `BundleFollowsReset`, `AcknowledgedEditsSurvive` |
| `Requests_beside` | pass | 2.3 million | any two requests interleaved, three in all: `TypeOK`, `ToolIsOnlyDivertedSo`, `UpdateReachesItsFile`, `ArchivedStaysArchived` |
| `KeyHandover_requests` | pass | 1.0 million | first runs, creations, switches, reopenings and locks interleaved: `TypeOK`, `KeyIsNotLost`, `ShownKeysFit`, `OneAgentKey`, `MemoryFits`, `AuditFailsOnlySo` |
| `AutoLock_timers` | pass | 50 thousand | two requests at once, three calls: `TypeOK`, `IdleVaultIsLocked`, `StoppedTimersEnd` |
| `HostKeys_trust` | pass | 98 thousand | two clients, changed host keys, restarts: `TypeOK`, `TrustIsLostOnlySo`, `FirstKeyStays` |
| `SshExec_command` | pass | 0.3 million | any command and any failure: `ExecTypeOK`, `OutputIsComplete`, `CallReturns` |
| `Tunnel_call` | pass | 0.3 million | one query with up to two faults: `TypeOK`, `SecretsAreRemoved`, `CallSucceeds`, `CallReturns` |
| `SqlPolicy_forms` | pass | 59 thousand | both forms and queries in any order: `TypeOK`, `ShownLevelIsObeyed`, `LimitWithinCaps`, `WritesWereAskedFor` |
| `VaultManager_rotate_after_reset` | violation | | `SharedAgentKey`, section 5 |
| `Requests_tool_switch` | violation | | `ToolActsOnProfile`, section 5 |

**Bounds, and why they are enough.**

- VaultFile: two passwords and two contents tell right from wrong; `MaxSalts` 4 is the first
  vault and three changes of password, one more than a failed and a repeated change need.
  `VaultFile_edits` has no operator thread (nobody creates a vault or changes its password)
  and no `lock()`: with either, the promises it checks do not hold (section 5). Disk faults,
  which it leaves out as well, are covered by the theorems about it (section 4).
- VaultManager: two definitions, the active one and another; a third one repeats the second
  one's role in every loop. `MaxKeys` 4 allows a key per definition and two rotations. The two
  undisturbed deployments (`Calm`) have no crashes, disk faults or imports, and `SharedAgentKey`,
  `RestartIsAccepted`, `BundleFollowsReset` and the currency of the cache are stated for them: the
  first has all operations and one password, the second resets, after which definitions are
  under different passwords, and no rotation (section 5). The third has disk faults, crashes, one downloaded copy (`MaxCopies`), and no rotation
  but the switching on of the agent (`switch_on`), which is the same loop over all definitions
  and mints no key. Forms are symmetric. Importing over the active definition without
  activating it, and an import whose activation fails, are the operation `restore`, which the
  passing run leaves out because it does lose an edit (section 5). `CHECK_DEADLOCK FALSE`: a
  container whose entry point refuses to start stays down.
- Requests: two definitions, two agents and two admin handlers, `MaxOpen` 2 at a time and
  `MaxCalls` 3 in all. Handlers meet only in the pointer and the cached object, and a third
  request that comes before or after a pair covers every state these can be left in. Agents,
  and admin handlers, differ in their names only (`Alike`). Requests end.
- KeyHandover: three requests, two at a time, over three definitions: one to exist and two to be
  created side by side, with a third request to find what a pair has left. Requests, and the
  two definitions that are not the default, are symmetric (`Alike`). Requests end.
- AutoLock: three calls give one timer replaced by a second while a third call takes it away
  or uses the vault. HostKeys: the loss of a key needs one host already recorded and one
  new one, and two clients. SshExec: three chunks to each stream exceed the window of two.
- Tunnel: windows of one chunk with requests and replies of two make every sender block;
  `MaxConns` 2 is libpq's first attempt and the second one; one certificate file beside the SSH
  key; `MaxFaults` 2 lets a fault meet the clean-up after another. The call ends.
- SqlPolicy: one statement per category, per way of naming tables and per reason to refuse;
  limits and maxima below, at, between and above each boundary of the clamps.

**Fairness.** Safety runs assume none. AutoLock: a call that has begun and a thread that has
started go on (they are threads that wait for nothing but a bounded sleep), and the inactivity
time passes; nobody has to make a call. SshExec: the client's thread goes on, and so does a
command as long as it does not hang; the clock need not pass the deadline, so that a call of a
command that goes on must end without its help, and only a hanging one may wait for it. Tunnel:
every thread of the process goes on (their waits are bounded: `accept` and `select` by half a
second, `join` by one), psycopg's connect timeout expires, an `open_channel` that gets no answer
fails, and an undisturbed link carries what it holds; no fault has to occur and a stalled
link need not recover.

## 4 Proofs

`VaultFileProofs`, for any threads, passwords, contents and bounds:

- `SpecTypeOK`. The inductive invariant adds `LocalsReady`: a thread between two steps holds
  the password, key or text that its next steps use.
- `SpecFileAlwaysOpens`, under `SerialUse` (one request at a time; `lock()` may run beside
  it). `FileAlwaysOpens` is not inductive: that a replaced file opens depends on what was
  written to `.tmp`, that on what `save()` captured, and that on key and salt in memory.
  `IInv` adds, from the disk back to memory, `WritesToTmp` (what `.tmp` holds at each step,
  and that no handle leads elsewhere), `KeyFitsSalt` (a captured key belongs to the captured
  salt; a key in memory to the salt in memory whenever decrypted data is there to save) and
  `UnlockingIsLocked` (an unlock in progress has nothing to save). `SerialUse` is needed: two
  saves may leave a mixture in their common temporary file.
- `SpecImplementsAtomicVault`, under `SerialUse`. The mapping takes the record from the file,
  the view from `_data` and the draft from the locals of the thread between `SaveOpen` and
  `SaveReplace`; `RInv` adds that an unlock in progress decrypts the file as it is. Every step
  maps to a step of AtomicVault or a stutter; it is `SaveReplace` that persists.
- `SpecSealedUnderItsSalt` and `SpecPasswordChangesOnRequest`, for any number of threads that
  edit and unlock at a time, with crashes and faults, as long as none creates the vault,
  changes its password or locks it (`Operators = {}`, `~Locking`: the setting of
  `VaultFile_edits`). Every place that holds a key holds the one the file began with, and a
  salt is drawn only where there is none: so two saves may still mix in `.tmp`, but never
  under two keys.

`VaultManagerProofs`, for any definitions, passwords, forms and deployments. A handler under
way is the sequence of steps it has left, always one of the suffixes of a plan; these are
listed once, and each invariant is stated over them.

- `SpecTypeOK`, along `TInv`: the types, `Arguments` (what a handler was given stays until the
  step that uses it) and `Ready` (a step that saves finds the vault open, and the form's
  definition active).
- `SpecUnlockedHasTimer` (`TimerInv`), where writes do not fail: each plan that opens a vault
  still has ahead of it the step that starts the timer.
- `SpecAcknowledgedEditsSurvive` (`AckInv`): with any interruption, the file holds the last
  acknowledged form or a later one, and so does memory (`MemoryHoldsAcked`). The second is
  what makes it inductive, since every save writes all that is in memory. It is stated for
  deployments without `restore` (`NothingIsRestored`): importing a copy over the active
  definition without activating it leaves the old content in memory, and the next save brings
  it back.
- `SpecCacheIsCurrent`, `SpecRestartIsAccepted` and `SpecBundleFollowsReset` (`CalmInv`), for
  the deployments those properties speak of, uninterrupted ones: what is decrypted is the file
  of the active definition (`MemoryIsFile`), under a password that was saved
  (`PasswordIsSaved`); the pointer is whole but between its truncation and its rewriting
  (`PointerIsWhole`); where a handler is about to switch, there is something to switch to
  (`TargetsExist`); and a bundle opens its file except where the handler has yet to write one
  of the two (`BundlesOpen`).
- `SpecSharedAgentKey` (`KeyInv`): where the plan of a rotation stands, the definitions still
  to visit may have the old key, all others have the new one. It is stated where keys rotate
  under one password (`OnePasswordRotates`); `VaultManager_rotate_after_reset` (section 5)
  shows that with two a rotation skips a definition.

`RequestsProofs`, for any definitions and any finite sets of agents and admin handlers. The
plan of an agent call grows at its front where `ensure_profile_active` switches, so plans are
characterised by which step may follow which (`Follows`) and three facts about their order
(`Ordered`).

- `SpecTypeOK`: `TInv` is the types, `Ready` (what `get_vault()` or a look-up last gave a
  thread, up to the step that uses it) and `OnLoop` (an agent call that has entered the event
  loop is the one that runs there). That there is always an identity for a new object is a
  matter of cardinality (`FreeObject`).
- `SpecToolIsOnlyDivertedSo` and the action property `SpecUpdateReachesItsFile`, along `CInv`,
  which speaks of behaviours where nothing has crossed: a request past its switch (`Late`) has
  its definition active, and the object it was given is the cached one (`Straight`). Steps that
  move neither pointer, cache nor files keep all of it for the other requests at once; the few
  that do are taken one by one.
- The action property `SpecArchivedStaysArchived`, whatever has crossed, along `AInv`: of a
  definition without a file that has not raced (`Gone`), no object that is cached or that an
  admin handler holds is decrypted, and no request is about to make it active. The first part
  is needed because a save writes whatever its object holds, and it stays true because an
  unlock reads the file, which is not there (`Keeping`); the second because a switch does not
  look again.

`KeyHandoverProofs`, for any finite set of requests, any definitions and kinds. What a request
has left is the end of its plan, so the number of its next step says what it has done; the
places of a first run are numbered from 4, which gives the steps of `create_vault()` the same
places in both kinds of creation, and turns `Between` into ranges of places (`Spans`,
`BetweenIs`).

- `SpecTypeOK`: `TInv` is the types, the plans and what the steps of a request rely on of its
  own (`Ready`).
- `SpecKeyIsNotLost`, `SpecShownKeysFit`, `SpecOneAgentKey`, `SpecMemoryFits` and
  `SpecAuditFailsOnlySo`, along `Safe`, which holds until two requests cross. Of each request
  it says how far it has got with its definition (`Standing`), that the object it works on is
  still the one it got (`Holding`), where its two keys are (`Carrying`) and what its session
  may show (`Showing`); of any two, which stretches exclude each other (`Alone`, `Shut`); and
  of the whole, that there is one password and one agent key but in definitions still to adopt
  it (`OneKey`), that what is decrypted is on the disk or about to be (`Kept`), which
  definitions lack their event (`Recorded`), where every recovery key can be found (`Reaches`),
  and that what a reopening has read is still the password in memory (`Reopened`), so that
  writing it back changes nothing. The five properties need each other's parts: a definition gets the shared agent
  key because its object stayed open in the cache, which it did because nobody switched or
  locked, and its recovery key stays in reach because the request that holds it went on. For
  every step the proof has what it does for its own request, and frame lemmas
  (`StandingOthers`, `RecordedStays`, ...) for the others.

`SqlPolicyProofs`, for any statements, tables and submitted integers: `SpecTypeOK`,
`SpecShownLevelIsObeyed`, `SpecLimitWithinCaps` and
`SpecWritesWereAskedFor`. What ran is withdrawn when a form changes what may run, so the first
two of these need only the gates; the last one needs `AskedIsAllowed`: until the level "write" is
chosen, the toggles in force are those submitted last.

`AutoLockProofs`, for any set of requests, finite or not, and any number of calls:

- `SpecTypeOK`. That there is always a thread to start and an event to make is a matter of
  counting: `Counted` relates the threads that exist, the calls about to start one, the events
  and the calls, and `CallsFit` says that only an unlock makes either. The two sets of calls
  it counts are finite because calls are, whatever the requests.
- `SpecUnlockedIsWatched`. `UnlockedIsWatched` is no property of a run but the invariant
  behind `IdleVaultIsLocked`: unless an unlock overtook a lock, a decrypted vault has an
  unlock under way or a timer thread whose event is not set. `WInv` adds that no lock is then
  left (`NoLockIsLeft`), that the event is dropped only by an unlock that goes on to make
  another (`DroppedForAnother`), and that an event that is set is about to be dropped
  (`SetIsDropped`); the last keeps a new thread, which looks the event up itself, from being
  told to end.

`SshProofs`, about HostKeys, for any clients, hosts, keys and number of reinstalled hosts:

- `SpecTypeOK`. The inductive invariant adds `HostIsKnown`: a client that has begun to connect
  knows to which host. It is needed because a step adds a key under that name.
- `SpecTrustIsLostOnlySo` and `SpecFirstKeyStays`, along one invariant. What the file holds
  depends on what the client that writes it had loaded, so `KeysFit` says that the keys of
  every client no save has overtaken hold all that is recorded, `FileFits` that the file does
  while nobody rewrites it, and `OthersAreOld` that whoever is connecting during a rewriting
  counts as overtaken; without the last a completed save would leave others behind unnoticed.

and about SshExec, for any window and amount of output:

- `ExecSpecTypeOK`: conservation of chunks is inductive as it stands.
- `SpecOutputIsComplete`. `IInv` follows the order of the loop's tests: a status that is
  trusted (seen, and not sent ahead of output) means that all is written; a stream found empty
  after that is drained for good; the loop is only left with a status, or over a link that
  will bring none; and a result stays what it was while the call closes.

`TunnelProofs`, for any certificates, connections, sizes and faults:

- `SpecSecretsAreRemoved`. `IInv` has every file noted or struck, a direct call without a key
  file, a tunnelled one without certificates until it is connected, and none but struck ones
  once the inner finally clause is over. The number of the next certificate is that of the
  files noted, which are finitely many.
- `SpecTypeOK`, along `FlowInv`: every step of a connection keeps it balanced, with the
  windows and the chunk a bridge holds between `recv` and `sendall`.
- `SpecUndisturbedCallHolds`. `UndisturbedCallHolds` is what `CallSucceeds` promises of every
  single state: without a fault or timeout the call has not failed, and while it logs in or
  queries through the tunnel neither the accept loop nor the bridge of its connection has
  ended. A bridge ends where it finds the end of a stream, so `ReadyFits` says that a stream
  found readable still has its data when its turn comes, although other threads run in between
  and although the bridge may have read the other stream first; `ForwarderFits`, `ConnsFit`
  and `LinkFits` say when accept loop, bridges and link are there at all. That the call then
  ends is left to TLC.

The assumptions are those of the modules: `None` and a partial file are values of their own
(no name, content, record or number), bounds and sizes are numbers (windows and requests
positive), submitted numbers are integers, `max_rows` is positive (the schema of the vault
does not let a form store another), requests under way at one time are finitely many. Wherever
a theorem has further hypotheses they are named above.

Every invariant and every action property of a passing run is proved. Only model-checked are
the liveness properties (`IdleVaultIsLocked`, `StoppedTimersEnd`, `CallSucceeds`, and
`CallReturns` of SshExec and Tunnel): liveness under fairness, and what depends on ENABLED, is
beyond the prover. Two of them have their safety half proved, `UnlockedIsWatched` and
`UndisturbedCallHolds`; these are stated in the proof modules, and no run lists them. No
module declares a RECURSIVE operator: induction over data is beyond the prover as well.

## 5 Where the code and its documents disagree

Shown by a run:

- **A rotation does not reach every definition.** A recovery reset changes the password of the
  active definition only; `_apply_to_all_definitions` then skips the others, and the page
  reports that the key was rotated. (`VaultManager_rotate_after_reset`)
- **A tool can act on another definition** than its `profile_code` when an admin request
  switches during the call. (`Requests_tool_switch`)

The passing runs show that each of the following is the only way in which their property
fails; the configurations named reproduce a counterexample and are not among the runs.

- A lock request overtaken by an unlock stops the unlock's timer: the vault stays decrypted
  (`AutoLock_overtaken.cfg`, `AutoLockLocks`).
- A restart while `known_hosts` is rewritten, and a client that loaded the file before
  another one saved it, lose recorded keys (`HostKeys_restart.cfg`, `TrustIsPersistent`).
- A switch beside an edit loses the form or hands another definition's object to it (`crossed`
  in Requests).
- An archived definition comes back (`raced` in Requests): a switch that had found its file
  makes it the active one, and the container would not start again; a switch between the check
  and the renaming has it archived while it is active; a save of an object that was open all
  along writes its file anew.
- Creations, locks and switches that meet (`crossed` in KeyHandover, section 2). An edit page
  or an agent's call that switches definitions during a creation ends it with an error after
  the definition exists: no audit event, and its recovery key is gone
  (`KeyHandover_unrecorded.cfg`, `CreationIsAudited`). Two creations at a time swap or lose the
  pending recovery key. A creation that copies the agent key of a definition still being
  created copies a key nobody is shown. A late first-run submission can take over the
  definition another creation has just made active. An unlock inside `lock_vault()` leaves a
  vault decrypted after the password was forgotten. A lock beside a reopening, or wholly inside
  it, is undone: the reopening decrypts the vault with the password it had read and writes that
  back (`KeyHandover_lock_undone.cfg`, `PasswordFits`).
- A query over a link that stalls holds its call for ever: psycopg is given a connect timeout
  only, and the statement timeout is the server's (`CallReturns` in Tunnel). Likewise a server
  that does not answer `exec_command` (`CallReturns` in SshExec).
- A temporary secret file stays behind if an OSError strikes between its creation and the
  keeping of its path (`SecretsAreRemoved` in Tunnel, `ExecTypeOK` in SshExec).
- Choosing the level "write" brings back categories ticked in the settings page at a time they
  had no effect (`raised` in SqlPolicy).

Statements of the documents that the code does not keep, noticed in reading and shown by no run:

- `docs/technical_reference.md:14` and `:17` limit PostgreSQL access to the allowed tables. The
  guard knows a table by an unquoted name right after FROM or JOIN (`security.py:15`): the target
  of an INSERT or UPDATE, the second table of a comma list and a quoted name pass any allowlist.
- A WITH is data-modifying for the guard only where INSERT, UPDATE, DELETE or MERGE follows a
  closing parenthesis (`security.py:18`, `:164`), and EXPLAIN ANALYZE of any statement is a read
  (`security.py:161`). What
  `ShownLevelIsObeyed` says of writes, it says of what the guard takes for one.
- `docs/deployment.md:101` has the default `known_hosts` in `/tmp` and lost with every restart.
  In multi-vault mode the code (`hostkeys.py`) and `docs/deployment.md:73` keep it in the vault
  directory; HostKeys models the latter.

Others met while modelling, each with its configuration:

- `save(new password)` puts the new salt and key into memory before it writes. If the write
  fails, the change is reported as failed, and the next save of anything makes it after all
  (`VaultFile_failed_change.cfg`, `PasswordChangesOnRequest`).
- Two unlocks and a `lock()` between them: the second unlock finds the salt cleared and
  `_derive_key` draws a new one, while data and key are those of the first. A save then writes
  a vault that no password opens (`VaultFile_lock_beside.cfg`, `SealedUnderItsSalt`).
- The two saves of overlapping edits make a backup that is not the content replaced
  (`VaultFile_concurrent.cfg`, `BackupHoldsPrevious`).
- After a recovery reset the password kept for automatic unlocks does not open the other
  definitions (`VaultManager_select_after_reset.cfg`, `MasterOpensAll`).
- A crash in a recovery reset between saving the vault and writing the new bundle leaves a
  recovery key that opens a bundle with the old password (`VaultManager_reset_crash.cfg`,
  `BundleOpensVault`).
- A disk fault during first run leaves the vault decrypted without a timer
  (`VaultManager_setup_fault.cfg`, `UnlockedHasTimer`).
- A restore over the active definition without activating it is undone by the next save
  (`VaultManager_restore_active.cfg`, `AcknowledgedEditsSurvive`).
- A statement with a LIMIT of its own is not held to the row cap
  (`SqlPolicy_own_limit.cfg`, `RowCap`).

## 6 Not modelled

Single-vault mode and the discovery of legacy directories: the same `Vault` code on one path.
Local subprocesses of `run()`. Audit log, masking, key generation, YAML
configuration, and the Docker, log, health and diagnostic tools: they keep no state that
another part reads. Of the admin panel, pages, cookies and fields that no property tells
apart; of the agents, key expiry; of the guard, what a regular expression matches in a text.
Strict mode and file ownership in the entry point. Templates and scripts.

## 7 Plan

Done: VaultFile and AtomicVault (the credentials themselves come first), VaultManager, Requests,
KeyHandover, AutoLock, HostKeys, SshExec, Tunnel and SqlPolicy, each with its proofs.

Next:

- Process start: strict mode, single-vault mode and the migration between the two.
