------------------------------ MODULE SshProofs ------------------------------
(***************************************************************************)
(* Proofs about the SSH client: its trust store (HostKeys), for any        *)
(* clients, hosts and keys, and any number of reinstalled hosts and        *)
(* restarts; and the command it runs (SshExec), for any window and any     *)
(* amount of output.                                                       *)
(***************************************************************************)
EXTENDS HostKeys, SshExec, TLAPS


\* A client that has begun to connect knows to which host.
HostIsKnown == \A c \in Clients : client[c].at # "idle" => client[c].host \in Hosts

TInv == TypeOK /\ HostIsKnown

LEMMA IdleIsRecord == Idle \in ClientRecord /\ NoKeys \in [Hosts -> HostKeySet \cup {None}]
<1>1. NoKeys \in [Hosts -> HostKeySet \cup {None}]
  BY DEF NoKeys
<1> QED
  BY <1>1 DEF Idle, ClientRecord

LEMMA TInit == Init => TInv
<1> SUFFICES ASSUME Init PROVE TInv
  OBVIOUS
<1>1. \A c \in Clients : client[c].at = "idle" /\ holder # c
  BY HostKeysAssumption DEF Init, Idle
<1>2. client \in [Clients -> ClientRecord]
  BY IdleIsRecord DEF Init
<1>3. /\ file \in [Hosts -> HostKeySet \cup {None}]
      /\ presents \in [Hosts -> HostKeySet]
      /\ trusted \in [Hosts -> HostKeySet \cup {None}]
  BY IdleIsRecord DEF Init
<1>4. holder = None /\ raced = FALSE /\ cut = FALSE /\ rekeys \in 0..MaxRekeys
  BY HostKeysAssumption DEF Init
<1> QED
  BY <1>1, <1>2, <1>3, <1>4 DEF TInv, TypeOK, HostIsKnown

\* What a step of a client makes of its own record and of the others'.
LEMMA LoadEffect ==
    ASSUME TInv, NEW c \in Clients, NEW h \in Hosts, Load(c, h)
    PROVE  /\ client' \in [Clients -> ClientRecord]
           /\ client'[c].at = "connect" /\ client'[c].host = h
           /\ client'[c].keys = file /\ client'[c].old = (holder # None)
           /\ \A d \in Clients \ {c} : client'[d] = client[d]
<1> DEFINE r == [at |-> "connect", host |-> h, keys |-> file, old |-> holder # None]
<1>1. r \in ClientRecord
  BY DEF TInv, TypeOK, ClientRecord
<1>2. client' = [client EXCEPT ![c] = r]
  BY DEF Load
<1>3. /\ r.at = "connect" /\ r.host = h
      /\ r.keys = file /\ r.old = (holder # None)
  OBVIOUS
<1> HIDE DEF r
<1> QED
  BY <1>1, <1>2, <1>3 DEF TInv, TypeOK

LEMMA AddKeyEffect ==
    ASSUME TInv, NEW c \in Clients, AddKey(c)
    PROVE  /\ client' \in [Clients -> ClientRecord]
           /\ client'[c].at = "open" /\ client'[c].host = client[c].host
           /\ client'[c].old = client[c].old
           /\ client'[c].keys = [client[c].keys EXCEPT ![client[c].host] =
                                     presents[client[c].host]]
           /\ \A d \in Clients \ {c} : client'[d] = client[d]
<1> DEFINE h == client[c].host
           ks == [client[c].keys EXCEPT ![h] = presents[h]]
           r == [client[c] EXCEPT !.at = "open", !.keys = ks]
<1>1. h \in Hosts /\ presents[h] \in HostKeySet /\ client[c] \in ClientRecord
  BY DEF AddKey, TInv, TypeOK, HostIsKnown
<1>2. ks \in [Hosts -> HostKeySet \cup {None}]
  BY <1>1 DEF ClientRecord
<1>3. client' = [client EXCEPT ![c] = r]
  BY <1>1 DEF AddKey, ClientRecord
<1> HIDE DEF ks
<1>4. /\ r \in ClientRecord
      /\ r.at = "open" /\ r.host = h /\ r.old = client[c].old /\ r.keys = ks
  BY <1>1, <1>2 DEF ClientRecord
<1> HIDE DEF r
<1>5. /\ client' \in [Clients -> ClientRecord] /\ client'[c] = r
      /\ \A d \in Clients \ {c} : client'[d] = client[d]
  BY <1>1, <1>3, <1>4 DEF TInv, TypeOK
<1> QED
  BY <1>4, <1>5 DEF ks

LEMMA SaveOpenEffect ==
    ASSUME TInv, NEW c \in Clients, SaveOpen(c)
    PROVE  /\ client' \in [Clients -> ClientRecord]
           /\ client'[c].at = "write" /\ client'[c].old = client[c].old
           /\ \A d \in Clients : /\ client'[d].host = client[d].host
                                 /\ client'[d].keys = client[d].keys
           /\ \A d \in Clients \ {c} : /\ client'[d].at = client[d].at
                                       /\ client'[d].old = (client[d].at # "idle")
<1>1. /\ client[c].at = "open"
      /\ client' = [d \in Clients |-> IF d = c THEN [client[d] EXCEPT !.at = "write"]
                                     ELSE [client[d] EXCEPT !.old = client[d].at # "idle"]]
  BY DEF SaveOpen
<1>2. \A d \in Clients : client[d] \in ClientRecord
  BY DEF TInv, TypeOK
<1>3. client' \in [Clients -> ClientRecord]
  BY <1>1, <1>2 DEF ClientRecord
<1>4. client'[c].at = "write" /\ client'[c].old = client[c].old
  BY <1>1, <1>2 DEF ClientRecord
<1>5. \A d \in Clients : client'[d].host = client[d].host /\ client'[d].keys = client[d].keys
  BY <1>1, <1>2 DEF ClientRecord
<1>6. \A d \in Clients \ {c} : /\ client'[d].at = client[d].at
                                /\ client'[d].old = (client[d].at # "idle")
  <2> SUFFICES ASSUME NEW d \in Clients \ {c}
               PROVE  /\ client'[d].at = client[d].at
                      /\ client'[d].old = (client[d].at # "idle")
    OBVIOUS
  <2>1. client'[d] = [client[d] EXCEPT !.old = client[d].at # "idle"]
    BY <1>1
  <2> QED
    BY <1>2, <2>1 DEF ClientRecord
<1> QED
  BY <1>3, <1>4, <1>5, <1>6

\* Saving or refusing leaves the client idle.
LEMMA IdleEffect ==
    ASSUME TInv, NEW c \in Clients, client' = [client EXCEPT ![c] = Idle]
    PROVE  /\ client' \in [Clients -> ClientRecord]
           /\ client'[c].at = "idle"
           /\ \A d \in Clients \ {c} : client'[d] = client[d]
<1>1. Idle.at = "idle"
  BY DEF Idle
<1> QED
  BY <1>1, IdleIsRecord DEF TInv, TypeOK

LEMMA TStep == TInv /\ [Next]_vars => TInv'
<1> SUFFICES ASSUME TInv, [Next]_vars PROVE TInv'
  OBVIOUS
<1> USE HostKeysAssumption DEF TInv, TypeOK, HostIsKnown
<1>1. ASSUME NEW c \in Clients, NEW h \in Hosts, Load(c, h) PROVE TInv'
  <2>1. client[c].at = "idle"
    BY <1>1 DEF Load
  <2>2. UNCHANGED <<file, presents, holder, trusted, raced, cut, rekeys>>
    BY <1>1 DEF Load
  <2> QED
    BY <1>1, <2>1, <2>2, LoadEffect
<1>2. ASSUME NEW c \in Clients, ConnectKnown(c) PROVE TInv'
  <2>1. /\ client[c].at = "connect"
        /\ client' = [client EXCEPT ![c] = Idle]
        /\ UNCHANGED <<file, presents, holder, trusted, raced, cut, rekeys>>
    BY <1>2 DEF ConnectKnown
  <2> QED
    BY <2>1, IdleEffect
<1>3. ASSUME NEW c \in Clients, AddKey(c) PROVE TInv'
  <2>1. /\ client[c].at = "connect" /\ holder = None /\ holder' = c
        /\ UNCHANGED <<file, presents, trusted, raced, cut, rekeys>>
    BY <1>3 DEF AddKey
  <2> QED
    BY <1>3, <2>1, AddKeyEffect
<1>4. ASSUME NEW c \in Clients, SaveOpen(c) PROVE TInv'
  <2>1. /\ client[c].at = "open" /\ file' = NoKeys
        /\ raced' = (raced \/ client[c].old)
        /\ UNCHANGED <<presents, holder, trusted, cut, rekeys>>
    BY <1>4 DEF SaveOpen
  <2>2. client[c] \in ClientRecord
    OBVIOUS
  <2>3. raced' \in BOOLEAN
    BY <2>1, <2>2 DEF ClientRecord
  <2> QED
    BY <1>4, <2>1, <2>3, SaveOpenEffect, IdleIsRecord
<1>5. ASSUME NEW c \in Clients, SaveWrite(c) PROVE TInv'
  <2>1. /\ client[c].at = "write" /\ file' = client[c].keys
        /\ trusted' = [trusted EXCEPT ![client[c].host] = client[c].keys[client[c].host]]
        /\ holder' = None
        /\ client' = [client EXCEPT ![c] = Idle]
        /\ UNCHANGED <<presents, raced, cut, rekeys>>
    BY <1>5 DEF SaveWrite
  <2>2. client[c].keys \in [Hosts -> HostKeySet \cup {None}]
    BY DEF ClientRecord
  <2>3. trusted' \in [Hosts -> HostKeySet \cup {None}]
    BY <2>1, <2>2
  <2> QED
    BY <2>1, <2>2, <2>3, IdleEffect
<1>6. ASSUME NEW h \in Hosts, Rekey(h) PROVE TInv'
  BY <1>6 DEF Rekey
<1>7. CASE Restart
  <2>1. \A c \in Clients : client'[c] \in ClientRecord /\ client'[c].at = "idle"
    BY <1>7, IdleIsRecord DEF Restart, Idle
  <2>2. /\ holder' = None /\ cut' \in BOOLEAN
        /\ UNCHANGED <<file, presents, trusted, raced, rekeys>>
    BY <1>7 DEF Restart
  <2>3. client' \in [Clients -> ClientRecord]
    BY <1>7, IdleIsRecord DEF Restart
  <2> QED
    BY <2>1, <2>2, <2>3
<1>8. CASE UNCHANGED vars
  BY <1>8 DEF vars
<1> QED
  BY <1>1, <1>2, <1>3, <1>4, <1>5, <1>6, <1>7, <1>8 DEF Next

\* The variables keep their domains, and only the client that holds the lock
\* rewrites known_hosts (missing_host_key).
THEOREM SpecTypeOK == Spec => []TypeOK
<1>1. TInv => TypeOK
  BY DEF TInv
<1> QED
  BY TInit, TStep, <1>1, PTL DEF Spec

----------------------------------------------------------------------------
(* Recorded keys                                                           *)

Fits(ks) == \A h \in Hosts : trusted[h] # None => ks[h] = trusted[h]

\* While the file is being rewritten, every other client has loaded keys that
\* the rewriting makes old.
OthersAreOld ==
    \A c, d \in Clients :
        client[c].at = "write" /\ d # c /\ client[d].at # "idle" => client[d].old

\* The file, unless it is being rewritten, and the keys of every client that a
\* save has not overtaken, hold all that has been recorded.
FileFits == (\A c \in Clients : client[c].at # "write") => Fits(file)
KeysFit ==
    \A c \in Clients :
        (client[c].at \in {"connect", "open"} /\ ~client[c].old) \/ client[c].at = "write"
            => Fits(client[c].keys)

IInv == TInv /\ OthersAreOld /\ (raced \/ cut \/ (FileFits /\ KeysFit))

LEMMA IInit == Init => IInv
<1> SUFFICES ASSUME Init PROVE IInv
  OBVIOUS
<1>1. \A c \in Clients : client[c].at = "idle"
  BY DEF Init, Idle
<1>2. \A h \in Hosts : trusted[h] = None
  BY DEF Init, NoKeys
<1> QED
  BY <1>1, <1>2, TInit DEF IInv, OthersAreOld, FileFits, KeysFit, Fits

\* No save of overtaken keys and no cut save are forgotten.
LEMMA FaultsAreKept == TInv /\ [Next]_vars => (raced => raced') /\ (cut => cut')
<1> SUFFICES ASSUME [Next]_vars PROVE (raced => raced') /\ (cut => cut')
  OBVIOUS
<1>1. ASSUME NEW c \in Clients, SaveOpen(c) PROVE (raced => raced') /\ (cut => cut')
  BY <1>1 DEF SaveOpen
<1>2. CASE Restart
  BY <1>2 DEF Restart
<1>3. (\E c \in Clients : SaveOpen(c)) \/ Restart \/ UNCHANGED <<raced, cut>>
  BY DEF Next, vars, Load, ConnectKnown, AddKey, SaveWrite, Rekey
<1> QED
  BY <1>1, <1>2, <1>3

\* A client adds the key of a host that nothing has been recorded of.
LEMMA AddedKeysFit ==
    ASSUME TInv, NEW c \in Clients, AddKey(c), Fits(client[c].keys)
    PROVE  Fits(client'[c].keys)
<1>1. /\ client[c].host \in Hosts
      /\ client[c].keys[client[c].host] = None
      /\ client[c].keys \in [Hosts -> HostKeySet \cup {None}]
  BY DEF AddKey, Known, TInv, TypeOK, HostIsKnown, ClientRecord
<1>2. trusted[client[c].host] = None
  BY <1>1 DEF Fits
<1> QED
  BY <1>1, <1>2, AddKeyEffect DEF Fits

LEMMA IStep == IInv /\ [Next]_vars => IInv'
<1> SUFFICES ASSUME IInv, [Next]_vars PROVE IInv'
  OBVIOUS
<1>1. TInv'
  BY TStep DEF IInv
<1> USE DEF IInv, OthersAreOld
<1>2. ASSUME NEW c \in Clients, NEW h \in Hosts, Load(c, h) PROVE IInv'
  <2>1. /\ client[c].at = "idle"
        /\ UNCHANGED <<file, presents, holder, trusted, raced, cut, rekeys>>
    BY <1>2 DEF Load
  <2>2. \A d \in Clients : client[d].at = "write" => holder # None
    BY HostKeysAssumption DEF TInv, TypeOK
  <2>3. OthersAreOld'
    <3>1. holder # None => client'[c].old
      BY <1>2, LoadEffect
    <3>2. client'[c].at # "write" /\ \A d \in Clients \ {c} : client'[d] = client[d]
      BY <1>2, LoadEffect
    <3> QED
      BY <2>2, <3>1, <3>2
  <2>4. ASSUME FileFits, KeysFit PROVE FileFits' /\ KeysFit'
    <3>1. FileFits'
      BY <1>2, <2>1, <2>4, LoadEffect DEF FileFits, Fits
    <3>2. ~client'[c].old => Fits(client'[c].keys)
      <4>1. holder = None => \A d \in Clients : client[d].at # "write"
        BY <2>2
      <4> QED
        BY <1>2, <2>4, <4>1, LoadEffect DEF FileFits
    <3> QED
      BY <1>2, <2>1, <2>4, <3>1, <3>2, LoadEffect DEF KeysFit, Fits
  <2> QED
    BY <1>1, <2>1, <2>3, <2>4
<1>3. ASSUME NEW c \in Clients, ConnectKnown(c) PROVE IInv'
  <2>1. /\ client[c].at = "connect"
        /\ client' = [client EXCEPT ![c] = Idle]
        /\ UNCHANGED <<file, presents, holder, trusted, raced, cut, rekeys>>
    BY <1>3 DEF ConnectKnown
  <2>2. OthersAreOld'
    BY <2>1, IdleEffect
  <2>3. ASSUME FileFits, KeysFit PROVE FileFits' /\ KeysFit'
    <3>1. (\A d \in Clients : client'[d].at # "write")
             => \A d \in Clients : client[d].at # "write"
      BY <2>1, IdleEffect
    <3> QED
      BY <2>1, <2>3, <3>1, IdleEffect DEF FileFits, KeysFit, Fits
  <2> QED
    BY <1>1, <2>1, <2>2, <2>3
<1>4. ASSUME NEW c \in Clients, AddKey(c) PROVE IInv'
  <2>1. /\ client[c].at = "connect" /\ holder = None
        /\ UNCHANGED <<file, presents, trusted, raced, cut, rekeys>>
    BY <1>4 DEF AddKey
  <2>2. \A d \in Clients : client[d].at # "write" /\ client'[d].at # "write"
    <3>1. \A d \in Clients : client[d].at # "write"
      BY <2>1, HostKeysAssumption DEF TInv, TypeOK
    <3>2. client'[c].at = "open" /\ \A d \in Clients \ {c} : client'[d] = client[d]
      BY <1>4, AddKeyEffect
    <3> QED
      BY <3>1, <3>2
  <2>3. ASSUME FileFits, KeysFit PROVE FileFits' /\ KeysFit'
    <3>1. FileFits'
      BY <2>1, <2>2, <2>3 DEF FileFits, Fits
    <3>2. ~client'[c].old => Fits(client'[c].keys)
      BY <1>4, <2>1, <2>3, AddKeyEffect, AddedKeysFit DEF KeysFit
    <3>3. \A d \in Clients \ {c} : client'[d] = client[d]
      BY <1>4, AddKeyEffect
    <3>4. UNCHANGED trusted
      BY <2>1
    <3> QED
      BY <2>2, <2>3, <3>1, <3>2, <3>3, <3>4 DEF KeysFit, Fits
  <2> QED
    BY <1>1, <2>1, <2>2, <2>3
<1>5. ASSUME NEW c \in Clients, SaveOpen(c) PROVE IInv'
  <2>1. /\ client[c].at = "open" /\ raced' = (raced \/ client[c].old)
        /\ UNCHANGED <<presents, holder, trusted, cut, rekeys>>
    BY <1>5 DEF SaveOpen
  <2>2. \A d \in Clients \ {c} : client'[d].at # "write"
    <3>1. \A d \in Clients \ {c} : client[d].at # "write"
      BY <2>1, HostKeysAssumption DEF TInv, TypeOK
    <3> QED
      BY <1>5, <3>1, SaveOpenEffect
  <2>3. OthersAreOld'
    <3>1. \A d \in Clients \ {c} : client'[d].at # "idle" => client'[d].old
      BY <1>5, SaveOpenEffect
    <3> QED
      BY <2>2, <3>1
  <2>4. ASSUME FileFits, KeysFit, ~client[c].old PROVE FileFits' /\ KeysFit'
    <3>1. Fits(client'[c].keys)
      BY <1>5, <2>1, <2>4, SaveOpenEffect DEF KeysFit
    <3>2. \A d \in Clients \ {c} : client'[d].at # "idle" => client'[d].old
      BY <1>5, SaveOpenEffect
    <3>3. client'[c].at = "write"
      BY <1>5, SaveOpenEffect
    <3>4. FileFits'
      BY <3>3 DEF FileFits
    <3>5. KeysFit'
      <4>1. Fits(client[c].keys)'
        BY <2>1, <3>1 DEF Fits
      <4>2. \A d \in Clients \ {c} : client'[d].at \notin {"connect", "open"} \/ client'[d].old
        BY <3>2
      <4> QED
        BY <2>2, <4>1, <4>2 DEF KeysFit
    <3> QED
      BY <3>4, <3>5
  <2> QED
    BY <1>1, <2>1, <2>3, <2>4
<1>6. ASSUME NEW c \in Clients, SaveWrite(c) PROVE IInv'
  <2>1. /\ client[c].at = "write" /\ file' = client[c].keys
        /\ trusted' = [trusted EXCEPT ![client[c].host] = client[c].keys[client[c].host]]
        /\ client' = [client EXCEPT ![c] = Idle]
        /\ UNCHANGED <<presents, raced, cut, rekeys>>
    BY <1>6 DEF SaveWrite
  <2>2. \A d \in Clients : client'[d].at # "write" /\ (client'[d].at # "idle" => client'[d].old)
    BY <2>1, IdleEffect DEF TInv, TypeOK
  <2>3. ASSUME FileFits, KeysFit PROVE FileFits' /\ KeysFit'
    <3>1. Fits(client[c].keys)
      BY <2>1, <2>3 DEF KeysFit
    <3>2. \A h \in Hosts : trusted'[h] \in {trusted[h], client[c].keys[h]}
      BY <2>1 DEF TInv, TypeOK
    <3> QED
      BY <2>1, <2>2, <3>1, <3>2 DEF FileFits, KeysFit, Fits
  <2> QED
    BY <1>1, <2>1, <2>2, <2>3
<1>7. ASSUME NEW h \in Hosts, Rekey(h) PROVE IInv'
  BY <1>1, <1>7 DEF Rekey, FileFits, KeysFit, Fits
<1>8. CASE Restart
  <2>1. \A c \in Clients : client'[c].at = "idle"
    BY <1>8 DEF Restart, Idle
  <2>2. UNCHANGED <<file, trusted, raced>>
        /\ cut' = (cut \/ \E c \in Clients : client[c].at = "write")
    BY <1>8 DEF Restart
  <2> QED
    BY <1>1, <2>1, <2>2 DEF FileFits, KeysFit, Fits
<1>9. CASE UNCHANGED vars
  BY <1>1, <1>9 DEF vars, FileFits, KeysFit, Fits
<1> QED
  BY <1>2, <1>3, <1>4, <1>5, <1>6, <1>7, <1>8, <1>9 DEF Next

\* Only a save of keys loaded before another save was over, or a process that
\* dies between emptying known_hosts and writing it, loses a recorded key
\* (TrustOnFirstUse.missing_host_key).
THEOREM SpecTrustIsLostOnlySo == Spec => []TrustIsLostOnlySo
<1>1. IInv => TrustIsLostOnlySo
  <2> SUFFICES ASSUME IInv, FileFits, holder = None PROVE Fits(file)
    BY DEF IInv, TrustIsLostOnlySo, TrustIsPersistent, Fits
  <2> QED
    BY HostKeysAssumption DEF IInv, TInv, TypeOK, FileFits
<1> QED
  BY IInit, IStep, <1>1, PTL DEF Spec

\* Unless a save is cut or raced, a recorded key is never replaced by another:
\* a reinstalled host stays refused (TrustOnFirstUse.missing_host_key).
THEOREM SpecFirstKeyStays == Spec => FirstKeyStays
<1> DEFINE Stays == ~raced' /\ ~cut' =>
                        \A h \in Hosts : trusted[h] # None => trusted'[h] = trusted[h]
<1>1. IInv /\ [Next]_vars => [Stays]_vars
  <2> SUFFICES ASSUME IInv, Next, ~raced', ~cut',
                      NEW h \in Hosts, trusted[h] # None
               PROVE  trusted'[h] = trusted[h]
    OBVIOUS
  <2>1. ~raced /\ ~cut
    BY FaultsAreKept DEF IInv
  <2>2. ASSUME NEW c \in Clients, SaveWrite(c) PROVE trusted'[h] = trusted[h]
    <3>1. Fits(client[c].keys)
      BY <2>1, <2>2 DEF SaveWrite, IInv, KeysFit
    <3>2. trusted' = [trusted EXCEPT ![client[c].host] = client[c].keys[client[c].host]]
      BY <2>2 DEF SaveWrite
    <3> QED
      BY <3>1, <3>2 DEF Fits, IInv, TInv, TypeOK
  <2>3. (\E c \in Clients : SaveWrite(c)) \/ UNCHANGED trusted
    BY DEF Next, Load, ConnectKnown, AddKey, SaveOpen, Rekey, Restart
  <2> QED
    BY <2>2, <2>3
<1> QED
  BY IInit, IStep, <1>1, PTL DEF Spec, FirstKeyStays

----------------------------------------------------------------------------
(* One command: no chunk is lost, no key file is left beside it            *)

LEMMA ExecTypeInit == ExecInit => ExecTypeOK
<1> SUFFICES ASSUME ExecInit PROVE ExecTypeOK
  OBVIOUS
<1> USE SshExecAssumption DEF ExecInit, Streams
<1>1. {wrote, toWrite, unread, got} \subseteq [Streams -> 0..MaxChunks]
  OBVIOUS
<1>2. \A s \in Streams : toWrite[s] + unread[s] + got[s] = wrote[s]
  OBVIOUS
<1>3. unread["out"] + unread["err"] <= Window
  OBVIOUS
<1> QED
  BY <1>1, <1>2, <1>3 DEF ExecTypeOK, Loop

LEMMA ExecTypeStep == ExecTypeOK /\ [ExecNext]_execVars => ExecTypeOK'
<1> SUFFICES ASSUME ExecTypeOK, [ExecNext]_execVars PROVE ExecTypeOK'
  OBVIOUS
<1> USE SshExecAssumption DEF ExecTypeOK, Loop, Streams, command, call
<1>1. ASSUME NEW s \in Streams, Write(s) PROVE ExecTypeOK'
  BY <1>1 DEF Write, Running
<1>2. CASE Exit
  BY <1>2 DEF Exit, Running
<1>3. CASE ExitEarly
  BY <1>3 DEF ExitEarly, Running
<1>4. CASE Hang \/ Lose \/ Expire
  BY <1>4 DEF Hang, Lose, Expire
<1>5. CASE WriteKey \/ KeyFault
  BY <1>5 DEF WriteKey, KeyFault, Quiet
<1>6. CASE Connect
  BY <1>6 DEF Connect, Quiet
<1>7. CASE Unlink \/ Exec
  BY <1>7 DEF Unlink, Exec, Quiet
<1>8. CASE ReadOut
  BY <1>8 DEF ReadOut, Read
<1>9. CASE ReadErr
  BY <1>9 DEF ReadErr, Read
<1>10. CASE TestExit \/ TestOut \/ TestErr
  BY <1>10 DEF TestExit, TestOut, TestErr, Test
<1>11. CASE TestDeadline \/ Result \/ Close \/ Check
  BY <1>11 DEF TestDeadline, Result, Close, Check, Quiet
<1>12. CASE UNCHANGED execVars
  BY <1>12 DEF execVars
<1> QED
  BY <1>1, <1>2, <1>3, <1>4, <1>5, <1>6, <1>7, <1>8, <1>9, <1>10, <1>11, <1>12
  DEF ExecNext, Command, Client

\* No chunk is lost or read twice, the window is kept to, and no command runs
\* while its key file is on the disk (_run_ssh).
THEOREM ExecSpecTypeOK == ExecSpec => []ExecTypeOK
<1> QED
  BY ExecTypeInit, ExecTypeStep, PTL DEF ExecSpec

----------------------------------------------------------------------------
(* Completeness of a result                                                *)

Written(s) == toWrite[s] = 0

Drained(s) == Written(s) /\ unread[s] = 0

\* The call goes by a status that was sent with, not before, the last output.
Trusted == status # "none" /\ ~early

\* A trusted status means that all is written; by the time a stream has been
\* found empty it is drained; the loop is only left with a status, or with a
\* connection that will bring none any more; and a result stays what it was.
ExecInv ==
    /\ ExecTypeOK
    /\ Trusted => \A s \in Streams : Written(s)
    /\ at \in {"out_empty", "err_empty", "status"} => status # "none" \/ lost
    /\ at \in {"err_empty", "status"} /\ Trusted => Drained("out")
    /\ at = "status" /\ Trusted => Drained("err")
    /\ at = "close" => outcome # "none"
    /\ at = "check" => outcome = "result"
    /\ outcome = "result" => at \in {"close", "check", "end"}
    /\ outcome = "result" /\ Trusted => \A s \in Streams : Drained(s)

LEMMA ExecInvInit == ExecInit => ExecInv
<1> SUFFICES ASSUME ExecInit PROVE ExecInv
  OBVIOUS
<1> QED
  BY ExecTypeInit DEF ExecInit, ExecInv, Trusted

LEMMA ExecInvStep == ExecInv /\ [ExecNext]_execVars => ExecInv'
<1> SUFFICES ASSUME ExecInv, [ExecNext]_execVars PROVE ExecInv'
  OBVIOUS
<1>0. ExecTypeOK'
  BY ExecTypeStep DEF ExecInv
<1> USE <1>0, SshExecAssumption
<1> USE DEF ExecInv, ExecTypeOK, Trusted, Written, Drained, Loop, Streams, command, call
<1>1. ASSUME NEW s \in Streams, Write(s) PROVE ExecInv'
  BY <1>1 DEF Write, Running
<1>2. CASE Exit
  BY <1>2 DEF Exit, Running
<1>3. CASE ExitEarly
  BY <1>3 DEF ExitEarly, Running
<1>4. CASE Hang \/ Lose \/ Expire
  BY <1>4 DEF Hang, Lose, Expire
<1>5. CASE WriteKey \/ KeyFault \/ Connect
  BY <1>5 DEF WriteKey, KeyFault, Connect, Quiet
<1>6. CASE Unlink \/ Exec
  BY <1>6 DEF Unlink, Exec, Quiet
<1>7. CASE ReadOut
  BY <1>7 DEF ReadOut, Read
<1>8. CASE ReadErr
  BY <1>8 DEF ReadErr, Read
<1>9. CASE TestExit \/ TestOut \/ TestErr
  BY <1>9 DEF TestExit, TestOut, TestErr, Test, Exited
<1>10. CASE TestDeadline \/ Result \/ Close \/ Check
  BY <1>10 DEF TestDeadline, Result, Close, Check, Quiet
<1>11. CASE UNCHANGED execVars
  BY <1>11 DEF execVars
<1> QED
  BY <1>1, <1>2, <1>3, <1>4, <1>5, <1>6, <1>7, <1>8, <1>9, <1>10, <1>11
  DEF ExecNext, Command, Client

\* What is drained has been read.
LEMMA DrainedIsRead ==
    ASSUME ExecTypeOK, \A s \in Streams : Drained(s)
    PROVE  got = wrote
<1>1. \A s \in Streams : got[s] = wrote[s]
  BY DEF ExecTypeOK, Drained, Written
<1> QED
  BY <1>1 DEF ExecTypeOK

\* A result with an exit status that did not overtake the output holds all of
\* it, however the command, the loop and the transport interleave (_run_ssh).
THEOREM SpecOutputIsComplete == ExecSpec => []OutputIsComplete
<1>1. ExecInv => OutputIsComplete
  BY DrainedIsRead DEF ExecInv, Trusted, OutputIsComplete
<1> QED
  BY ExecInvInit, ExecInvStep, <1>1, PTL DEF ExecSpec
=============================================================================
