------------------------------ MODULE HostKeys ------------------------------
(***************************************************************************)
(* app/remote/hostkeys.py: every SSH client loads the known_hosts file     *)
(* into keys of its own, and a host met for the first time is added to     *)
(* them and the file rewritten from them.  A lock spans the addition and   *)
(* the writing, not the loading.                                           *)
(*                                                                         *)
(* The clients of agent tools take turns on the event loop; connection     *)
(* tests of the admin panel run beside them in worker threads.             *)
(***************************************************************************)
EXTENDS Naturals

CONSTANTS
    Clients,   \* SSH clients that may be connecting at one time
    Hosts,
    HostKeySet,\* keys a host may present
    None,
    MaxRekeys  \* bound: hosts reinstalled with another key

ASSUME HostKeysAssumption ==
    None \notin Clients \cup HostKeySet /\ MaxRekeys \in Nat

VARIABLES
    file,      \* known_hosts: per host the key recorded, or None
    presents,  \* the key each host presents now
    client,    \* per client: its step, the host it connects to, the keys it loaded,
               \* and (history) whether the file was being rewritten then, or since
    holder,    \* the client that holds _LOCK, or None
    trusted,   \* history: per host the key whose recording has been completed
    raced,     \* history: whether a client has saved keys loaded before or during another save
    cut,       \* history: whether the process has died while the file was empty
    rekeys

vars == <<file, presents, client, holder, trusted, raced, cut, rekeys>>

NoKeys == [h \in Hosts |-> None]
Idle == [at |-> "idle", host |-> None, keys |-> NoKeys, old |-> FALSE]

Init ==
    /\ file = NoKeys
    /\ presents \in [Hosts -> HostKeySet]
    /\ client = [c \in Clients |-> Idle]
    /\ holder = None
    /\ trusted = NoKeys
    /\ raced = FALSE /\ cut = FALSE
    /\ rekeys = 0

\* Seeded fault: the keys recorded before are not loaded.
LoadNothing(c, h) ==
    /\ client[c].at = "idle"
    /\ client' = [client EXCEPT ![c] = [at |-> "connect", host |-> h, keys |-> NoKeys,
                                         old |-> holder # None]]
    /\ UNCHANGED <<file, presents, holder, trusted, raced, cut, rekeys>>

\* load_host_keys: the file is read as it is, locked or not.
Load(c, h) ==
    /\ client[c].at = "idle"
    /\ client' = [client EXCEPT ![c] = [at |-> "connect", host |-> h, keys |-> file,
                                         old |-> holder # None]]
    /\ UNCHANGED <<file, presents, holder, trusted, raced, cut, rekeys>>

Known(c) == client[c].keys[client[c].host]

\* A known host is accepted or refused by its key; missing_host_key is for the others.
ConnectKnown(c) ==
    /\ client[c].at = "connect"
    /\ Known(c) # None
    /\ client' = [client EXCEPT ![c] = Idle]
    /\ UNCHANGED <<file, presents, holder, trusted, raced, cut, rekeys>>

\* Seeded fault: the lock is not waited for.
AddKeyUnlocked(c) ==
    /\ client[c].at = "connect"
    /\ Known(c) = None
    /\ holder' = c
    /\ LET h == client[c].host
       IN  client' = [client EXCEPT ![c].at = "open", ![c].keys[h] = presents[h]]
    /\ UNCHANGED <<file, presents, trusted, raced, cut, rekeys>>

AddKey(c) ==
    /\ client[c].at = "connect"
    /\ Known(c) = None
    /\ holder = None
    /\ holder' = c
    /\ LET h == client[c].host
       IN  client' = [client EXCEPT ![c].at = "open", ![c].keys[h] = presents[h]]
    /\ UNCHANGED <<file, presents, trusted, raced, cut, rekeys>>

\* HostKeys.save opens the file for writing, which empties it ...
SaveOpen(c) ==
    /\ client[c].at = "open"
    /\ file' = NoKeys
    /\ client' = [d \in Clients |->
                     IF d = c THEN [client[d] EXCEPT !.at = "write"]
                     ELSE [client[d] EXCEPT !.old = client[d].at # "idle"]]
    /\ raced' = (raced \/ client[c].old)
    /\ UNCHANGED <<presents, holder, trusted, cut, rekeys>>

\* Seeded fault: only the key of the host just met is written.
SaveWriteNewKey(c) ==
    /\ client[c].at = "write"
    /\ LET h == client[c].host
       IN  /\ file' = [NoKeys EXCEPT ![h] = client[c].keys[h]]
           /\ trusted' = [trusted EXCEPT ![h] = client[c].keys[h]]
    /\ holder' = None
    /\ client' = [client EXCEPT ![c] = Idle]
    /\ UNCHANGED <<presents, raced, cut, rekeys>>

\* ... and writes the keys of this client.
SaveWrite(c) ==
    /\ client[c].at = "write"
    /\ file' = client[c].keys
    /\ trusted' = [trusted EXCEPT ![client[c].host] = client[c].keys[client[c].host]]
    /\ holder' = None
    /\ client' = [client EXCEPT ![c] = Idle]
    /\ UNCHANGED <<presents, raced, cut, rekeys>>

Rekey(h) ==
    /\ rekeys < MaxRekeys
    /\ rekeys' = rekeys + 1
    /\ \E k \in HostKeySet \ {presents[h]} : presents' = [presents EXCEPT ![h] = k]
    /\ UNCHANGED <<file, client, holder, trusted, raced, cut>>

Restart ==
    /\ client' = [c \in Clients |-> Idle]
    /\ holder' = None
    /\ cut' = (cut \/ \E c \in Clients : client[c].at = "write")
    /\ UNCHANGED <<file, presents, trusted, raced, rekeys>>

Next ==
    \/ \E c \in Clients :
          \/ \E h \in Hosts : Load(c, h)
          \/ ConnectKnown(c) \/ AddKey(c) \/ SaveOpen(c) \/ SaveWrite(c)
    \/ \E h \in Hosts : Rekey(h)
    \/ Restart

Spec == Init /\ [][Next]_vars

----------------------------------------------------------------------------
(* Properties                                                              *)

ClientRecord == [at : {"idle", "connect", "open", "write"}, host : Hosts \cup {None},
                 keys : [Hosts -> HostKeySet \cup {None}], old : BOOLEAN]

\* Every variable stays in its domain; only the client that holds the lock is
\* rewriting the file.
TypeOK ==
    /\ file \in [Hosts -> HostKeySet \cup {None}]
    /\ presents \in [Hosts -> HostKeySet]
    /\ client \in [Clients -> ClientRecord]
    /\ holder \in Clients \cup {None}
    /\ \A c \in Clients : client[c].at \in {"open", "write"} <=> holder = c
    /\ trusted \in [Hosts -> HostKeySet \cup {None}]
    /\ {raced, cut} \subseteq BOOLEAN
    /\ rekeys \in 0..MaxRekeys

\* A host's key, once it has been recorded, is not replaced by another: a
\* reinstalled host is refused until the operator edits known_hosts, through
\* any connections and restarts that do not cut or race a save.
FirstKeyStays ==
    [][~raced' /\ ~cut' =>
         \A h \in Hosts : trusted[h] # None => trusted'[h] = trusted[h]]_vars

\* Whenever no client is rewriting it, the file holds every key recorded so
\* far: trust survives a restart of the container.
TrustIsPersistent ==
    holder = None => \A h \in Hosts : trusted[h] # None => file[h] = trusted[h]

\* Only two things lose a recorded key: a save of keys that were loaded before
\* another save was over, and a process that dies between emptying the file
\* and writing it.
TrustIsLostOnlySo == raced \/ cut \/ TrustIsPersistent
=============================================================================
