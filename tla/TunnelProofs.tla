---------------------------- MODULE TunnelProofs ----------------------------
(***************************************************************************)
(* Proofs about Tunnel for any windows, sizes of requests and answers,     *)
(* numbers of certificates and connections, and any faults.                *)
(***************************************************************************)
EXTENDS Tunnel, FiniteSetTheorems, WellFoundedInduction, TLAPS

\* Every file is noted or stray; a direct call has no key file; a tunnelled one
\* writes no certificate before it is connected, and none is left, unless stray,
\* once the inner finally clause is over.
IInv ==
    /\ via \in {"tunnel", "direct"}
    /\ noted \subseteq Files
    /\ files \subseteq noted \cup stray
    /\ via = "direct" =>
        /\ at \in {"certs", "connecting", "query", "unlink_certs", "end"}
        /\ SshKey \notin files
    /\ at \in {"key_file", "connect"} => files \subseteq {SshKey}
    /\ at \in {"stop", "join", "close_ssh", "unlink_key", "end"} =>
        files \subseteq {SshKey} \cup stray
    /\ SecretsAreRemoved

LEMMA FilesAreKeyAndCerts == Files = {SshKey} \cup 1..Certs /\ SshKey \notin 1..Certs
BY TunnelAssumption DEF Files, SshKey

LEMMA NextCertIsNotTheKey == noted \subseteq Files => NextCert \in Nat \ {SshKey}
<1> SUFFICES ASSUME noted \subseteq Files PROVE NextCert \in Nat \ {SshKey}
  OBVIOUS
<1>1. IsFiniteSet(Files)
  BY FS_Interval, TunnelAssumption DEF Files, SshKey
<1>2. IsFiniteSet(noted \ {SshKey})
  BY <1>1, FS_Subset
<1> QED
  BY <1>2, FS_CardinalityType DEF NextCert, SshKey

LEMMA InvInit == Init => IInv
BY DEF Init, IInv, SecretsAreRemoved

LEMMA InvStep == IInv /\ [Next]_vars => IInv'
<1> SUFFICES ASSUME IInv, [Next]_vars PROVE IInv'
  OBVIOUS
<1> USE TunnelAssumption DEF IInv, SecretsAreRemoved, Goto, disk
<1>1. CASE WriteKeyFile
  BY <1>1 DEF WriteKeyFile, WriteFile, Files, SshKey
<1>2. CASE WriteCert
  <2>1. NextCert \in Files \ {SshKey}
    BY <1>2, NextCertIsNotTheKey DEF WriteCert, Files, SshKey
  <2> HIDE DEF SshKey
  <2> QED
    BY <1>2, <2>1 DEF WriteCert, WriteFile
<1>3. CASE FileFault(SshKey, "key_file", "close_ssh")
  <2>1. /\ at = "key_file" /\ at' = "close_ssh" /\ via' = via
        /\ noted' \subseteq noted \cup {SshKey}
        /\ files' \subseteq files \cup {SshKey}
        /\ files' \subseteq noted' \cup stray'
    BY <1>3 DEF FileFault
  <2> QED
    BY <2>1, FilesAreKeyAndCerts
<1>4. CASE NextCert <= Certs /\ FileFault(NextCert, "certs", "unlink_certs")
  <2>1. NextCert \in Files \ {SshKey}
    BY <1>4, NextCertIsNotTheKey DEF Files, SshKey
  <2> QED
    BY <1>4, <2>1 DEF FileFault
<1>5. CASE Connect \/ SshFault
  BY <1>5 DEF Connect, SshFault
<1>6. CASE Dial \/ Redial \/ LoggedIn \/ Fetched \/ ConnectionLost \/ ConnectTimeout
  BY <1>6 DEF Dial, Redial, LoggedIn, Proceed, Fetched, ConnectionLost, ConnectTimeout
<1>7. CASE UnlinkCerts
  <2>1. /\ at = "unlink_certs" /\ at' = AfterCerts
        /\ files' = files \ (noted \cap 1..Certs)
        /\ UNCHANGED <<via, noted, stray>>
    BY <1>7 DEF UnlinkCerts, Unlink
  <2> HIDE TunnelAssumption
  <2> QED
    BY <2>1, FilesAreKeyAndCerts DEF AfterCerts
<1>8. CASE UnlinkFault(1..Certs, "unlink_certs", AfterCerts)
  <2>1. PICK kept \in SUBSET (files \cap noted \cap 1..Certs) :
          files' = files \ ((noted \cap 1..Certs) \ kept) /\ stray' = stray \cup kept
    BY <1>8 DEF UnlinkFault
  <2>2. /\ at = "unlink_certs" /\ at' = AfterCerts
        /\ UNCHANGED <<via, noted>>
    BY <1>8 DEF UnlinkFault
  <2> HIDE TunnelAssumption
  <2> QED
    BY <2>1, <2>2, FilesAreKeyAndCerts DEF AfterCerts
<1>9. CASE UnlinkKey
  BY <1>9 DEF UnlinkKey, Unlink
<1>10. CASE UnlinkFault({SshKey}, "unlink_key", "end")
  <2>1. PICK kept \in SUBSET (files \cap noted \cap {SshKey}) :
          files' = files \ ((noted \cap {SshKey}) \ kept) /\ stray' = stray \cup kept
    BY <1>10 DEF UnlinkFault
  <2>2. at = "unlink_key" /\ at' = "end" /\ UNCHANGED <<via, noted>>
    BY <1>10 DEF UnlinkFault
  <2> QED
    BY <2>1, <2>2
<1>11. CASE Stop \/ Join \/ CloseSsh
  BY <1>11 DEF Stop, Join, Proceed, CloseSsh
<1>12. CASE UNCHANGED <<via, at, disk>>
  BY <1>12
<1>13. ASSUME NEW c \in Conns, Client(c) \/ Worker(c) \/ OpenFails(c) \/ Remote(c)
       PROVE  UNCHANGED <<via, at, disk>>
  BY <1>13 DEF Client, ClientSend, ClientRecv, Worker, OpenChannel, Select, Recv, Send,
               OpenFails, Remote, Carry, ServerRead, ServerWrite, others
<1>14. ASSUME Acceptor \/ LinkFault PROVE UNCHANGED <<via, at, disk>>
  BY <1>14 DEF Acceptor, AcceptTest, AcceptStep, Accept, AcceptTimeout, LinkFault
<1>15. UNCHANGED vars => UNCHANGED <<via, at, disk>>
  BY DEF vars
<1> QED
  BY <1>1, <1>2, <1>3, <1>4, <1>5, <1>6, <1>7, <1>8, <1>9, <1>10, <1>11, <1>12, <1>13,
     <1>14, <1>15 DEF Next, Call, Faults, WriteFault

\* Wherever a call fails, it ends without a secret on the disk but those an OSError
\* struck (DirectPostgresClient.query, its finally clauses).
THEOREM SpecSecretsAreRemoved == Spec => []SecretsAreRemoved
<1>1. IInv => SecretsAreRemoved
  BY DEF IInv
<1> QED
  BY InvInit, InvStep, <1>1, PTL DEF Spec

----------------------------------------------------------------------------
(* The chunks of a connection                                              *)

WorkerStates == {"none", "opening", "loop", "relay", "to_channel", "to_client", "ended"}

Chunks == [sent : Nat, up : 0..Window, out : 0..Window, heard : Nat,
           said : Nat, in : 0..Window, down : 0..Window, rcvd : Nat]

HeldIn(state, w) == IF w = state THEN 1 ELSE 0

\* What was sent is somewhere on its way, in both directions.
Balanced(f, w) ==
    w # "ended" =>
        /\ f.sent = f.up + HeldIn("to_channel", w) + f.out + f.heard
        /\ f.said = f.in + HeldIn("to_client", w) + f.down + f.rcvd

FlowInv ==
    /\ conn \in 0..MaxConns
    /\ worker \in [Conns -> WorkerStates]
    /\ flow \in [Conns -> Chunks]
    /\ \A c \in Conns : Balanced(flow[c], worker[c])

\* The remaining domains.
DomainInv ==
    /\ link \in {"up", "stalled", "down"}
    /\ outcome \in {"none", "rows", "error"}
    /\ listening \in BOOLEAN /\ stop \in BOOLEAN
    /\ stray \subseteq Files

\* One connection goes on to a balanced state.
LEMMA ConnectionStep ==
    ASSUME FlowInv, NEW c \in Conns, NEW f \in Chunks, NEW w \in WorkerStates, Balanced(f, w),
           flow' = [flow EXCEPT ![c] = f], worker' = [worker EXCEPT ![c] = w],
           conn' \in 0..MaxConns
    PROVE  FlowInv'
<1>1. worker' \in [Conns -> WorkerStates] /\ flow' \in [Conns -> Chunks]
  BY DEF FlowInv
<1>2. ASSUME NEW d \in Conns PROVE Balanced(flow'[d], worker'[d])
  BY <1>2 DEF FlowInv
<1>3. (\A d \in Conns : Balanced(flow[d], worker[d]))'
  BY <1>2
<1> QED
  BY <1>1, <1>3 DEF FlowInv, WorkerStates, Chunks, Conns

\* A set of numbers has a least one, which is what accept() takes.
LEMMA LeastElement ==
    ASSUME NEW S \in SUBSET Nat, S # {}
    PROVE  \E n \in S : \A m \in S : n <= m
<1> DEFINE R == OpToRel(<, Nat)
<1>1. IsWellFoundedOn(R, Nat)
  BY NatLessThanWellFounded
<1>2. \A p : p \in R <=> p \in Nat \X Nat /\ p[1] < p[2]
  BY DEF OpToRel
<1> HIDE DEF R
<1>3. PICK n \in S : \A m \in S : <<m, n>> \notin R
  BY <1>1, WFMin
<1>4. ASSUME NEW m \in S PROVE n <= m
  <2>1. <<m, n>> \in Nat \X Nat /\ <<m, n>>[1] = m /\ <<m, n>>[2] = n
    OBVIOUS
  <2>2. ~(m < n)
    BY <1>2, <1>3, <1>4, <2>1
  <2> QED
    BY <2>2
<1> QED
  BY <1>4

\* Nothing has been sent.
LEMMA FlowInit == Init => FlowInv
<1> SUFFICES ASSUME Init PROVE FlowInv
  OBVIOUS
<1>1. Quiet \in Chunks /\ conn = 0
  BY TunnelAssumption DEF Init, Quiet, Chunks
<1>2. Balanced(Quiet, "none")
  BY DEF Balanced, Quiet, HeldIn
<1> QED
  BY <1>1, <1>2, TunnelAssumption DEF Init, FlowInv, WorkerStates

\* Every step of psycopg, a bridge or PostgreSQL moves one chunk of one connection, or
\* takes a bridge to another state; accept() starts the bridge of the first that waits.
LEMMA FlowStep == FlowInv /\ [Next]_vars => FlowInv'
<1> SUFFICES ASSUME FlowInv, [Next]_vars PROVE FlowInv'
  OBVIOUS
<1>1. /\ conn \in 0..MaxConns /\ Window \in Nat /\ MaxConns \in Nat \ {0}
      /\ flow \in [Conns -> Chunks] /\ worker \in [Conns -> WorkerStates]
      /\ \A c \in Conns : flow[c] \in Chunks /\ worker[c] \in WorkerStates
                          /\ Balanced(flow[c], worker[c])
  BY TunnelAssumption DEF FlowInv
<1>2. ASSUME UNCHANGED <<flow, worker>>, conn' \in 0..MaxConns PROVE FlowInv'
  BY <1>1, <1>2 DEF FlowInv, WorkerStates, Chunks, Conns
\* A bridge changes its state, and holds as much as before.
<1>3. ASSUME NEW c \in Conns, NEW w \in WorkerStates, UNCHANGED <<flow, conn>>, Become(c, w),
             \/ w = "ended"
             \/ /\ worker[c] \notin {"ended", "to_channel", "to_client"}
                /\ w \notin {"to_channel", "to_client"}
      PROVE  FlowInv'
  <2>1. Balanced(flow[c], w)
    BY <1>1, <1>3 DEF Balanced, HeldIn
  <2>2. flow' = [flow EXCEPT ![c] = flow[c]]
    BY <1>1, <1>3
  <2> QED
    BY <1>1, <1>3, <2>1, <2>2, ConnectionStep DEF Become
\* A chunk moves on without a bridge.
<1>4. ASSUME NEW c \in Conns, NEW f \in Chunks, flow' = [flow EXCEPT ![c] = f],
             UNCHANGED <<worker, conn>>, Balanced(f, worker[c])
      PROVE  FlowInv'
  <2>1. worker' = [worker EXCEPT ![c] = worker[c]]
    BY <1>1, <1>4
  <2> QED
    BY <1>1, <1>4, <2>1, ConnectionStep
<1>5. ASSUME NEW c \in Conns, Client(c) PROVE FlowInv'
  <2>1. CASE ClientSend(c)
    <3> DEFINE f == [flow[c] EXCEPT !.sent = @ + 1, !.up = @ + 1]
    <3>1. f \in Chunks /\ flow' = [flow EXCEPT ![c] = f]
      BY <1>1, <2>1 DEF ClientSend, Chunks
    <3>2. Balanced(f, worker[c])
      BY <1>1, <2>1 DEF ClientSend, Chunks, Balanced, HeldIn
    <3> QED
      BY <1>4, <2>1, <3>1, <3>2 DEF ClientSend
  <2>2. CASE ClientRecv(c)
    <3> DEFINE f == [flow[c] EXCEPT !.down = @ - 1, !.rcvd = @ + 1]
    <3>1. f \in Chunks /\ flow' = [flow EXCEPT ![c] = f]
      BY <1>1, <2>2 DEF ClientRecv, Move, Chunks
    <3>2. Balanced(f, worker[c])
      <4>1. /\ f.down = flow[c].down - 1 /\ f.rcvd = flow[c].rcvd + 1
            /\ f.sent = flow[c].sent /\ f.up = flow[c].up /\ f.out = flow[c].out
            /\ f.heard = flow[c].heard /\ f.said = flow[c].said /\ f.in = flow[c].in
        BY <1>1 DEF Chunks
      <4>2. {flow[c].down, flow[c].rcvd, flow[c].in, flow[c].said} \subseteq Nat
        BY <1>1 DEF Chunks
      <4>3. Balanced(flow[c], worker[c]) /\ HeldIn("to_client", worker[c]) \in Nat
        BY <1>1 DEF HeldIn
      <4> HIDE DEF f
      <4> QED
        BY <4>1, <4>2, <4>3 DEF Balanced
    <3> QED
      BY <1>4, <2>2, <3>1, <3>2 DEF ClientRecv
  <2> QED
    BY <1>5, <2>1, <2>2 DEF Client
<1>6. ASSUME NEW c \in Conns, Remote(c) PROVE FlowInv'
  <2> USE DEF others, forwarder
  <2>1. CASE Carry(c) /\ flow[c].up > 0 /\ flow[c].out < Window /\ Move(c, "up", "out")
    <3> DEFINE f == [flow[c] EXCEPT !.up = @ - 1, !.out = @ + 1]
    <3>1. f \in Chunks /\ flow' = [flow EXCEPT ![c] = f]
      BY <1>1, <2>1 DEF Move, Chunks
    <3>2. Balanced(f, worker[c])
      BY <1>1, <2>1 DEF Chunks, Balanced, HeldIn
    <3> QED
      BY <1>4, <2>1, <3>1, <3>2 DEF Carry
  <2>2. CASE Carry(c) /\ flow[c].in > 0 /\ flow[c].down < Window /\ Move(c, "in", "down")
    <3> DEFINE f == [flow[c] EXCEPT !.in = @ - 1, !.down = @ + 1]
    <3>1. f \in Chunks /\ flow' = [flow EXCEPT ![c] = f]
      BY <1>1, <2>2 DEF Move, Chunks
    <3>2. Balanced(f, worker[c])
      <4>1. /\ f.in = flow[c].in - 1 /\ f.down = flow[c].down + 1
            /\ f.sent = flow[c].sent /\ f.up = flow[c].up /\ f.out = flow[c].out
            /\ f.heard = flow[c].heard /\ f.said = flow[c].said /\ f.rcvd = flow[c].rcvd
        BY <1>1 DEF Chunks
      <4>2. {flow[c].down, flow[c].rcvd, flow[c].in, flow[c].said} \subseteq Nat
        BY <1>1 DEF Chunks
      <4>3. Balanced(flow[c], worker[c]) /\ HeldIn("to_client", worker[c]) \in Nat
        BY <1>1 DEF HeldIn
      <4> HIDE DEF f
      <4> QED
        BY <4>1, <4>2, <4>3 DEF Balanced
    <3> QED
      BY <1>4, <2>2, <3>1, <3>2 DEF Carry
  <2>3. CASE ServerRead(c)
    <3> DEFINE f == [flow[c] EXCEPT !.out = @ - 1, !.heard = @ + 1]
    <3>1. f \in Chunks /\ flow' = [flow EXCEPT ![c] = f]
      BY <1>1, <2>3 DEF ServerRead, Move, Chunks
    <3>2. Balanced(f, worker[c])
      BY <1>1, <2>3 DEF ServerRead, Chunks, Balanced, HeldIn
    <3> QED
      BY <1>4, <2>3, <3>1, <3>2 DEF ServerRead
  <2>4. CASE ServerWrite(c)
    <3> DEFINE f == [flow[c] EXCEPT !.said = @ + 1, !.in = @ + 1]
    <3>1. f \in Chunks /\ flow' = [flow EXCEPT ![c] = f]
      BY <1>1, <2>4 DEF ServerWrite, Chunks
    <3>2. Balanced(f, worker[c])
      BY <1>1, <2>4 DEF ServerWrite, Chunks, Balanced, HeldIn
    <3> QED
      BY <1>4, <2>4, <3>1, <3>2 DEF ServerWrite
  <2> QED
    BY <1>6, <2>1, <2>2, <2>3, <2>4 DEF Remote, Carry
<1>7. ASSUME NEW c \in Conns, Worker(c) \/ OpenFails(c) PROVE FlowInv'
  <2> USE DEF others, forwarder
  <2>1. CASE OpenChannel(c) \/ OpenFails(c) \/ Select(c)
    <3>1. PICK w \in {"loop", "relay", "ended"} : Become(c, w)
      BY <2>1 DEF OpenChannel, OpenFails, Select
    <3>2. worker[c] \in {"opening", "loop"} /\ UNCHANGED <<flow, conn>>
      BY <2>1 DEF OpenChannel, OpenFails, Select
    <3> QED
      BY <1>3, <3>1, <3>2 DEF WorkerStates
  <2>2. CASE Recv(c)
    <3> DEFINE stream == IF "client" \in ready[c] THEN "client" ELSE "channel"
               from == IF stream = "client" THEN "up" ELSE "in"
               next == IF stream = "client" THEN "to_channel" ELSE "to_client"
    <3>1. CASE flow[c][from] > 0
      <4> DEFINE f == [flow[c] EXCEPT ![from] = @ - 1]
      <4>1. flow' = [flow EXCEPT ![c] = f] /\ Become(c, next) /\ worker[c] = "relay"
            /\ UNCHANGED conn
        BY <1>1, <2>2, <3>1 DEF Recv, Chunks
      <4>2. f \in Chunks /\ Balanced(f, next)
        <5> HIDE DEF stream
        <5>1. CASE stream = "client"
          BY <1>1, <3>1, <4>1, <5>1 DEF Chunks, Balanced, HeldIn
        <5>2. CASE stream # "client"
          BY <1>1, <3>1, <4>1, <5>2 DEF Chunks, Balanced, HeldIn
        <5> QED
          BY <5>1, <5>2
      <4> QED
        BY <1>1, <4>1, <4>2, ConnectionStep DEF Become, WorkerStates
    <3>2. CASE ~(flow[c][from] > 0)
      BY <1>3, <2>2, <3>2 DEF Recv, WorkerStates
    <3> QED
      BY <3>1, <3>2
  <2>3. CASE Send(c)
    <3> DEFINE to == IF worker[c] = "to_channel" THEN "out" ELSE "down"
               f == [flow[c] EXCEPT ![to] = @ + 1]
               next == IF ready[c] = {} THEN "loop" ELSE "relay"
    <3>1. worker[c] \in {"to_channel", "to_client"} /\ UNCHANGED conn
      BY <2>3 DEF Send
    <3>2. CASE flow[c][to] < Window /\ flow' = [flow EXCEPT ![c][to] = @ + 1] /\ Become(c, next)
      <4>1. flow' = [flow EXCEPT ![c] = f]
        BY <1>1, <3>2 DEF Chunks
      <4>2. next \notin {"ended", "to_channel", "to_client"} /\ Balanced(flow[c], worker[c])
        BY <1>1
      <4>3. f \in Chunks /\ Balanced(f, next)
        <5>1. CASE worker[c] = "to_channel"
          <6>1. /\ f.out = flow[c].out + 1 /\ flow[c].out < Window
                /\ f.sent = flow[c].sent /\ f.up = flow[c].up /\ f.heard = flow[c].heard
                /\ f.said = flow[c].said /\ f.in = flow[c].in /\ f.down = flow[c].down
                /\ f.rcvd = flow[c].rcvd
            BY <1>1, <3>2, <5>1 DEF Chunks
          <6>2. {flow[c].sent, flow[c].up, flow[c].out, flow[c].heard} \subseteq Nat
            BY <1>1 DEF Chunks
          <6>3. f \in Chunks
            <7>1. f = [flow[c] EXCEPT !.out = @ + 1] /\ flow[c].out \in 0..Window
              BY <1>1, <5>1 DEF Chunks
            <7>2. flow[c].out + 1 \in 0..Window
              BY <1>1, <6>1, <7>1
            <7> HIDE DEF f
            <7> QED
              BY <1>1, <7>1, <7>2 DEF Chunks
          <6> HIDE DEF f, next
          <6> QED
            <7>1. /\ HeldIn("to_channel", worker[c]) = 1 /\ HeldIn("to_client", worker[c]) = 0
                  /\ HeldIn("to_channel", next) = 0 /\ HeldIn("to_client", next) = 0
              BY <4>2, <5>1 DEF HeldIn
            <7>2. /\ flow[c].sent = flow[c].up + 1 + flow[c].out + flow[c].heard
                  /\ flow[c].said = flow[c].in + 0 + flow[c].down + flow[c].rcvd
              BY <4>2, <5>1, <7>1 DEF Balanced
            <7>3. f.sent = f.up + 0 + f.out + f.heard /\ f.said = f.in + 0 + f.down + f.rcvd
              BY <1>1, <6>1, <6>2, <7>2 DEF Chunks
            <7> QED
              BY <6>3, <7>1, <7>3 DEF Balanced
        <5>2. CASE worker[c] = "to_client"
          <6>1. /\ f.down = flow[c].down + 1 /\ flow[c].down < Window
                /\ f.sent = flow[c].sent /\ f.up = flow[c].up /\ f.out = flow[c].out
                /\ f.heard = flow[c].heard /\ f.said = flow[c].said /\ f.in = flow[c].in
                /\ f.rcvd = flow[c].rcvd
            BY <1>1, <3>2, <5>2 DEF Chunks
          <6>2. {flow[c].said, flow[c].in, flow[c].down, flow[c].rcvd} \subseteq Nat
            BY <1>1 DEF Chunks
          <6>3. f \in Chunks
            <7>1. f = [flow[c] EXCEPT !.down = @ + 1] /\ flow[c].down \in 0..Window
              BY <1>1, <5>2 DEF Chunks
            <7>2. flow[c].down + 1 \in 0..Window
              BY <1>1, <6>1, <7>1
            <7> HIDE DEF f
            <7> QED
              BY <1>1, <7>1, <7>2 DEF Chunks
          <6> HIDE DEF f, next
          <6> QED
            <7>1. /\ HeldIn("to_channel", worker[c]) = 0 /\ HeldIn("to_client", worker[c]) = 1
                  /\ HeldIn("to_channel", next) = 0 /\ HeldIn("to_client", next) = 0
              BY <4>2, <5>2 DEF HeldIn
            <7>2. /\ flow[c].sent = flow[c].up + 0 + flow[c].out + flow[c].heard
                  /\ flow[c].said = flow[c].in + 1 + flow[c].down + flow[c].rcvd
              BY <4>2, <5>2, <7>1 DEF Balanced
            <7>3. f.sent = f.up + 0 + f.out + f.heard /\ f.said = f.in + 0 + f.down + f.rcvd
              BY <1>1, <6>1, <6>2, <7>2 DEF Chunks
            <7> QED
              BY <6>3, <7>1, <7>3 DEF Balanced
        <5> QED
          BY <3>1, <5>1, <5>2
      <4> QED
        BY <1>1, <3>1, <3>2, <4>1, <4>3, ConnectionStep DEF Become, WorkerStates
    <3>3. CASE Become(c, "ended") /\ UNCHANGED flow
      BY <1>3, <3>1, <3>3 DEF WorkerStates
    <3> QED
      BY <2>3, <3>2, <3>3 DEF Send
  <2> QED
    BY <1>7, <2>1, <2>2, <2>3 DEF Worker
<1>8. CASE Accept
  <2> DEFINE c == CHOOSE c \in Waiting : \A d \in Waiting : c <= d
  <2>1. c \in Waiting
    <3>1. Waiting \subseteq Nat /\ Waiting # {}
      BY <1>1, <1>8 DEF Accept, Waiting
    <3> QED
      BY <3>1, LeastElement
  <2>2. c \in Conns /\ worker[c] = "none"
    BY <1>1, <2>1 DEF Waiting, Conns
  <2>3. UNCHANGED <<flow, conn>> /\ (worker' = worker \/ Become(c, "opening"))
    BY <1>8 DEF Accept, Become
  <2> HIDE DEF c
  <2> QED
    BY <1>1, <1>2, <1>3, <2>2, <2>3 DEF WorkerStates
<1>9. CASE Dial \/ Redial
  BY <1>1, <1>2, <1>9 DEF Dial, Redial, bridges
<1>10. CASE \/ WriteKeyFile \/ WriteCert \/ Connect \/ LoggedIn \/ Fetched \/ ConnectionLost
            \/ ConnectTimeout \/ UnlinkCerts \/ UnlinkKey \/ Stop \/ Join \/ CloseSsh
  BY <1>1, <1>2, <1>10 DEF WriteKeyFile, WriteCert, WriteFile, Connect, LoggedIn, Proceed, Fetched,
     ConnectionLost, ConnectTimeout, UnlinkCerts, UnlinkKey, Unlink, Stop, Join, CloseSsh, bridges
<1>11. CASE Faults \/ AcceptTest \/ AcceptTimeout
  BY <1>1, <1>2, <1>11 DEF Faults, WriteFault, FileFault, SshFault, LinkFault, UnlinkFault,
     AcceptTest, AcceptTimeout, AcceptStep, bridges
<1>12. CASE UNCHANGED vars
  BY <1>1, <1>2, <1>12 DEF vars, bridges
<1> QED
  BY <1>5, <1>6, <1>7, <1>8, <1>9, <1>10, <1>11, <1>12 DEF Next, Call, Acceptor

\* No step leaves the domains; the files an OSError strikes are the call's own.
LEMMA DomainStep == IInv /\ DomainInv /\ [Next]_vars => DomainInv'
<1> SUFFICES ASSUME IInv, DomainInv, [Next]_vars PROVE DomainInv'
  OBVIOUS
<1> USE DEF DomainInv, disk, forwarder
<1>1. noted \subseteq Files /\ Files' = Files
  BY DEF IInv, Files
<1>2. ASSUME NEW c \in Conns, Client(c) \/ Worker(c) \/ OpenFails(c) \/ Remote(c)
      PROVE  DomainInv'
  BY <1>1, <1>2 DEF Client, ClientSend, ClientRecv, Worker, OpenChannel, Select, Recv, Send,
     OpenFails, Remote, Carry, ServerRead, ServerWrite, others
<1>3. CASE WriteFault
  <2>1. NextCert <= Certs => NextCert \in Files
    BY <1>1, NextCertIsNotTheKey, TunnelAssumption DEF Files, SshKey
  <2>2. SshKey \in Files
    BY FilesAreKeyAndCerts
  <2> QED
    BY <1>1, <1>3, <2>1, <2>2 DEF WriteFault, FileFault
<1>4. CASE \/ UnlinkFault(1..Certs, "unlink_certs", AfterCerts)
           \/ UnlinkFault({SshKey}, "unlink_key", "end")
  BY <1>1, <1>4 DEF UnlinkFault
<1>5. CASE SshFault \/ LinkFault
  BY <1>1, <1>5 DEF SshFault, LinkFault
<1>6. CASE Acceptor
  BY <1>1, <1>6 DEF Acceptor, AcceptTest, AcceptStep, Accept, AcceptTimeout
<1>7. CASE \/ WriteKeyFile \/ WriteCert \/ Connect \/ Dial \/ LoggedIn \/ Fetched \/ ConnectionLost
           \/ UnlinkCerts \/ UnlinkKey \/ Stop \/ Join \/ CloseSsh \/ Redial \/ ConnectTimeout
  BY <1>1, <1>7 DEF WriteKeyFile, WriteCert, WriteFile, Connect, Dial, LoggedIn, Proceed, Fetched,
     ConnectionLost, UnlinkCerts, UnlinkKey, Unlink, Stop, Join, CloseSsh, Redial, ConnectTimeout
<1>8. CASE UNCHANGED vars
  BY <1>1, <1>8 DEF vars
<1> QED
  BY <1>2, <1>3, <1>4, <1>5, <1>6, <1>7, <1>8 DEF Next, Call, Faults

\* Between psycopg and PostgreSQL no chunk is lost, doubled or turned round while a
\* bridge lives, and no buffer exceeds its window (_accept_loop, _handle_client, _bridge),
\* whatever is sent, refused, timed out and torn down, over any number of connections.
THEOREM SpecTypeOK == Spec => []TypeOK
<1>1. Init => DomainInv
  BY DEF Init, DomainInv
<1>2. IInv /\ FlowInv /\ DomainInv => TypeOK
  <2> SUFFICES ASSUME IInv, FlowInv, DomainInv PROVE TypeOK
    OBVIOUS
  <2>1. ASSUME NEW c \in Conns
        PROVE  LET f == flow[c] IN
                 /\ {f.up, f.out, f.in, f.down} \subseteq 0..Window
                 /\ worker[c] # "ended" =>
                     /\ f.sent = f.up + Held(c, "to_channel") + f.out + f.heard
                     /\ f.said = f.in + Held(c, "to_client") + f.down + f.rcvd
    BY <2>1 DEF FlowInv, Chunks, Balanced, HeldIn, Held
  <2> QED
    BY <2>1 DEF TypeOK, IInv, DomainInv
<1> QED
  BY InvInit, InvStep, FlowInit, FlowStep, DomainStep, <1>1, <1>2, PTL DEF Spec

----------------------------------------------------------------------------
(* A call that nothing happens to                                          *)

Connected == at \in {"connecting", "query"}

\* A call that meets no fault and no timeout has not failed; and while it logs in or
\* queries through the tunnel, the accept loop and the bridge of its connection are
\* there.  This is what CallSucceeds promises of every single state.
UndisturbedCallHolds ==
    trouble = {} =>
        /\ outcome # "error"
        /\ via = "tunnel" /\ Connected => acceptor # "ended" /\ worker[conn] # "ended"

\* The forwarder runs from Connect to Stop, and never for a direct call.
ForwarderFits ==
    /\ at \in {"key_file", "connect"} => acceptor = "off" /\ ~stop
    /\ via = "direct" => acceptor = "off" /\ \A c \in Conns : worker[c] = "none"
    /\ via = "tunnel" /\ at \in {"certs", "connecting", "query"} =>
        listening /\ ~stop /\ acceptor \in {"test", "call", "accept"}

\* Only connections that psycopg has opened get a bridge.
ConnsFit ==
    /\ Connected => conn \in Conns
    /\ at \in {"key_file", "connect", "certs"} => conn = 0
    /\ \A c \in Conns : c > conn => worker[c] = "none"

LinkFits ==
    trouble = {} /\ at \in {"key_file", "connect", "certs", "connecting", "query"} => link = "up"

Holds(f, stream) == IF stream = "client" THEN f.up > 0 ELSE f.in > 0

Undisturbed(c) == via = "tunnel" /\ trouble = {} /\ ClientOpen(c)

ReadyFit(streams, w, f, undisturbed) ==
    /\ w = "relay" => streams # {}
    /\ undisturbed /\ w \in {"relay", "to_channel", "to_client"} =>
        \A stream \in streams : Holds(f, stream)

\* What select() has found readable can be read when its turn comes.
ReadyFits ==
    /\ ready \in [Conns -> SUBSET {"client", "channel"}]
    /\ \A c \in Conns : ReadyFit(ready[c], worker[c], flow[c], Undisturbed(c))

UInv == IInv /\ FlowInv /\ ForwarderFits /\ ConnsFit /\ LinkFits /\ ReadyFits /\ UndisturbedCallHolds

\* What went wrong stays on record, and a call stays what it is.
LEMMA TroubleIsKept == [Next]_vars => trouble \subseteq trouble' /\ via' = via
<1> SUFFICES ASSUME [Next]_vars PROVE trouble \subseteq trouble' /\ via' = via
  OBVIOUS
<1>1. ASSUME NEW c \in Conns, Client(c) \/ Worker(c) \/ OpenFails(c) \/ Remote(c)
      PROVE  trouble \subseteq trouble' /\ via' = via
  BY <1>1 DEF Client, ClientSend, ClientRecv, Worker, OpenChannel, Select, Recv, Send,
     OpenFails, Remote, Carry, ServerRead, ServerWrite, others, Trouble
<1>2. CASE Faults \/ Acceptor
  BY <1>2 DEF Faults, WriteFault, FileFault, SshFault, LinkFault, UnlinkFault, Trouble,
     Acceptor, AcceptTest, AcceptStep, Accept, AcceptTimeout
<1>3. CASE \/ WriteKeyFile \/ WriteCert \/ Connect \/ Dial \/ LoggedIn \/ Fetched \/ ConnectionLost
           \/ UnlinkCerts \/ UnlinkKey \/ Stop \/ Join \/ CloseSsh \/ Redial \/ ConnectTimeout
  BY <1>3 DEF WriteKeyFile, WriteCert, WriteFile, Connect, Dial, LoggedIn, Proceed, Fetched,
     ConnectionLost, UnlinkCerts, UnlinkKey, Unlink, Stop, Join, CloseSsh, Redial, ConnectTimeout
<1>4. CASE UNCHANGED vars
  BY <1>4 DEF vars
<1> QED
  BY <1>1, <1>2, <1>3, <1>4 DEF Next, Call

\* What the steps of psycopg's sockets, bridges and server leave alone.
LEMMA ConnectionFrame ==
    ASSUME NEW c \in Conns, Client(c) \/ Worker(c) \/ OpenFails(c) \/ Remote(c)
    PROVE  UNCHANGED <<via, at, outcome, listening, stop, acceptor, conn, link>>
BY DEF Client, ClientSend, ClientRecv, Worker, OpenChannel, Select, Recv, Send,
   OpenFails, Remote, Carry, ServerRead, ServerWrite, others, forwarder

\* Bridges change state only once accept() has started them, and each on its own.
LEMMA WorkerEffect ==
    ASSUME FlowInv, NEW c \in Conns, Worker(c) \/ OpenFails(c)
    PROVE  /\ worker[c] \in {"opening", "loop", "relay", "to_channel", "to_client"}
           /\ worker'[c] # "none"
           /\ \A d \in Conns \ {c} : worker'[d] = worker[d]
<1>1. PICK w \in WorkerStates \ {"none"} : Become(c, w)
  BY DEF Worker, OpenChannel, Select, Recv, Send, OpenFails, WorkerStates
<1>2. worker[c] \in {"opening", "loop", "relay", "to_channel", "to_client"}
  BY DEF Worker, OpenChannel, Select, Recv, Send, OpenFails
<1> QED
  BY <1>1, <1>2 DEF Become, FlowInv

\* accept() takes the first connection that waits.
LEMMA AcceptEffect ==
    ASSUME FlowInv, Accept
    PROVE  \/ worker' = worker
           \/ listening /\ \E c \in Conns : /\ c <= conn /\ worker[c] = "none"
                                            /\ worker' = [worker EXCEPT ![c] = "opening"]
<1> DEFINE c == CHOOSE c \in Waiting : \A d \in Waiting : c <= d
<1>1. c \in Waiting
  <2>1. Waiting \subseteq Nat /\ Waiting # {}
    BY DEF Accept, Waiting, FlowInv
  <2> QED
    BY <2>1, LeastElement
<1>2. c \in Conns /\ c <= conn /\ worker[c] = "none"
  BY <1>1, TunnelAssumption DEF Waiting, Conns, FlowInv
<1>3. worker' = worker \/ (listening /\ worker' = [worker EXCEPT ![c] = "opening"])
  BY DEF Accept
<1> HIDE DEF c
<1> QED
  BY <1>2, <1>3

\* Accept loop and bridges run when, and only when, the call needs them.
LEMMA ForwarderStep ==
    IInv /\ FlowInv /\ ForwarderFits /\ ConnsFit /\ [Next]_vars => ForwarderFits' /\ ConnsFit'
<1> SUFFICES ASSUME IInv, FlowInv, ForwarderFits, ConnsFit, [Next]_vars
             PROVE  ForwarderFits' /\ ConnsFit'
  OBVIOUS
<1>1. ASSUME NEW c \in Conns, Client(c) \/ Remote(c) PROVE ForwarderFits' /\ ConnsFit'
  <2>1. UNCHANGED worker
    BY <1>1 DEF Client, ClientSend, ClientRecv, Remote, Carry, ServerRead, ServerWrite
  <2> QED
    BY <1>1, <2>1, ConnectionFrame DEF ForwarderFits, ConnsFit, Connected, Conns
<1>2. ASSUME NEW c \in Conns, Worker(c) \/ OpenFails(c) PROVE ForwarderFits' /\ ConnsFit'
  <2>1. UNCHANGED <<via, at, outcome, listening, stop, acceptor, conn, link>>
    BY <1>2, ConnectionFrame
  <2>2. worker[c] # "none" /\ \A d \in Conns \ {c} : worker'[d] = worker[d]
    BY <1>2, WorkerEffect
  <2>3. ForwarderFits'
    BY <2>1, <2>2 DEF ForwarderFits, Conns
  <2>4. ConnsFit'
    BY <2>1, <2>2 DEF ConnsFit, Connected, Conns
  <2> QED
    BY <2>3, <2>4
<1>3. CASE Acceptor
  <2>1. UNCHANGED <<via, at, listening, stop, conn>>
    BY <1>3 DEF Acceptor, AcceptTest, AcceptStep, Accept, AcceptTimeout
  <2>2. acceptor # "off" /\ acceptor' # "off"
    BY <1>3 DEF Acceptor, AcceptTest, AcceptStep, Accept, AcceptTimeout
  <2>3. listening /\ ~stop => acceptor' \in {"test", "call", "accept"}
    BY <1>3 DEF Acceptor, AcceptTest, AcceptStep, Accept, AcceptTimeout
  <2>4. ForwarderFits'
    BY <2>1, <2>2, <2>3 DEF ForwarderFits
  <2>5. \A c \in Conns : c > conn => worker'[c] = worker[c]
    <3>1. CASE Accept
      <4>1. CASE worker' = worker
        BY <4>1
      <4>2. ASSUME NEW d \in Conns, d <= conn, worker' = [worker EXCEPT ![d] = "opening"],
                   NEW c \in Conns, c > conn
            PROVE  worker'[c] = worker[c]
        <5>1. c # d
          BY <4>2 DEF Conns, FlowInv
        <5> QED
          BY <4>2, <5>1 DEF FlowInv
      <4> QED
        BY <3>1, <4>1, <4>2, AcceptEffect
    <3>2. CASE AcceptTest \/ AcceptTimeout
      BY <3>2 DEF AcceptTest, AcceptStep, AcceptTimeout, bridges
    <3> QED
      BY <1>3, <3>1, <3>2 DEF Acceptor
  <2>6. ConnsFit'
    BY <2>1, <2>5 DEF ConnsFit, Connected, Conns
  <2> QED
    BY <2>4, <2>6
<1>4. CASE Dial \/ Redial
  <2>1. /\ at \in {"certs", "connecting"} /\ at' = "connecting"
        /\ conn' = conn + 1 /\ conn' \in Conns
        /\ UNCHANGED <<via, listening, stop, acceptor, worker>>
    BY <1>4, TunnelAssumption
    DEF Dial, Redial, Goto, forwarder, bridges, ConnsFit, Connected, Conns, FlowInv
  <2>2. ForwarderFits'
    BY <2>1 DEF ForwarderFits, Conns
  <2>3. ConnsFit'
    BY <2>1 DEF ConnsFit, Connected, Conns, FlowInv
  <2> QED
    BY <2>2, <2>3
<1>5. CASE Connect
  <2>1. /\ at = "connect" /\ at' = "certs" /\ listening' = TRUE /\ acceptor' = "test"
        /\ UNCHANGED <<via, stop, conn, worker>>
    BY <1>5 DEF Connect, Goto, bridges
  <2>2. via = "tunnel" /\ ~stop
    BY <2>1 DEF IInv, ForwarderFits
  <2>3. ForwarderFits'
    BY <2>1, <2>2 DEF ForwarderFits
  <2>4. ConnsFit'
    BY <2>1 DEF ConnsFit, Connected, Conns
  <2> QED
    BY <2>3, <2>4
<1>6. ASSUME UNCHANGED <<via, conn, worker, acceptor>>,
             at' \in {"key_file", "connect", "certs", "connecting", "query"} =>
                 /\ UNCHANGED <<listening, stop>>
                 /\ at' = at \/ (at = "key_file" /\ at' = "connect")
                             \/ (at = "connecting" /\ at' = "query")
      PROVE  ForwarderFits' /\ ConnsFit'
  <2>1. ForwarderFits'
    BY <1>6 DEF ForwarderFits, Conns
  <2>2. ConnsFit'
    BY <1>6 DEF ConnsFit, Connected, Conns
  <2> QED
    BY <2>1, <2>2
<1>7. CASE \/ WriteKeyFile \/ WriteCert \/ LoggedIn \/ Fetched \/ ConnectionLost \/ ConnectTimeout
  BY <1>6, <1>7 DEF WriteKeyFile, WriteCert, WriteFile, Goto, LoggedIn, Proceed, Fetched,
     ConnectionLost, ConnectTimeout, bridges, forwarder
<1>8. CASE UnlinkCerts \/ UnlinkKey \/ Stop \/ Join \/ CloseSsh
  BY <1>6, <1>8 DEF UnlinkCerts, UnlinkKey, Unlink, Goto, AfterCerts, Stop, Join, Proceed,
     CloseSsh, bridges, forwarder
<1>9. CASE Faults
  BY <1>6, <1>9 DEF Faults, WriteFault, FileFault, SshFault, LinkFault, UnlinkFault, Goto,
     AfterCerts, bridges, forwarder
<1>10. CASE UNCHANGED vars
  BY <1>6, <1>10 DEF vars, bridges, forwarder
<1> QED
  BY <1>1, <1>2, <1>3, <1>4, <1>5, <1>7, <1>8, <1>9, <1>10 DEF Next, Call

\* The way to PostgreSQL is up unless it failed, or the call has closed it.
LEMMA LinkStep == LinkFits /\ [Next]_vars => LinkFits'
<1> SUFFICES ASSUME LinkFits, [Next]_vars PROVE LinkFits'
  OBVIOUS
<1>1. trouble' = {} => trouble = {}
  BY TroubleIsKept
<1>2. CASE UNCHANGED <<at, link>>
  BY <1>1, <1>2 DEF LinkFits
<1>3. ASSUME NEW c \in Conns, Client(c) \/ Worker(c) \/ OpenFails(c) \/ Remote(c)
      PROVE  UNCHANGED <<at, link>>
  BY <1>3, ConnectionFrame
<1>4. CASE \/ WriteKeyFile \/ WriteCert \/ Connect \/ Dial \/ LoggedIn \/ Fetched \/ ConnectionLost
           \/ UnlinkCerts \/ UnlinkKey \/ Stop \/ Join \/ CloseSsh \/ Redial \/ ConnectTimeout
  BY <1>1, <1>4 DEF LinkFits, WriteKeyFile, WriteCert, WriteFile, Connect, Dial, LoggedIn, Proceed,
     Fetched, ConnectionLost, UnlinkCerts, UnlinkKey, Unlink, Stop, Join, CloseSsh, Redial,
     ConnectTimeout, Goto, AfterCerts
<1>5. CASE Faults
  BY <1>1, <1>5 DEF LinkFits, Faults, WriteFault, FileFault, SshFault, LinkFault, UnlinkFault,
     Trouble, Goto, AfterCerts
<1>6. CASE Acceptor
  BY <1>2, <1>6 DEF Acceptor, AcceptTest, AcceptStep, Accept, AcceptTimeout
<1>7. CASE UNCHANGED vars
  BY <1>2, <1>7 DEF vars
<1> QED
  BY <1>2, <1>3, <1>4, <1>5, <1>6, <1>7 DEF Next, Call

\* A connection whose turn it is not goes on as it was.
LEMMA ReadyKept ==
    ASSUME ReadyFits, NEW c \in Conns,
           ready'[c] = ready[c], worker'[c] = worker[c],
           Undisturbed(c)' => Undisturbed(c) \/ worker[c] = "none",
           Undisturbed(c)' =>
               \A stream \in {"client", "channel"} :
                   Holds(flow[c], stream) => Holds(flow'[c], stream)
    PROVE  ReadyFit(ready'[c], worker'[c], flow'[c], Undisturbed(c)')
<1>1. ReadyFit(ready[c], worker[c], flow[c], Undisturbed(c)) /\ ready[c] \subseteq {"client", "channel"}
  BY DEF ReadyFits
<1>2. worker'[c] = "relay" => ready'[c] # {}
  BY <1>1 DEF ReadyFit
<1>3. ASSUME Undisturbed(c)', worker'[c] \in {"relay", "to_channel", "to_client"},
             NEW stream \in ready'[c]
      PROVE  Holds(flow'[c], stream)
  <2>1. Undisturbed(c) /\ stream \in {"client", "channel"}
    BY <1>1, <1>3
  <2>2. Holds(flow[c], stream)
    BY <1>1, <1>3, <2>1 DEF ReadyFit
  <2> QED
    BY <1>3, <2>1, <2>2
<1> QED
  BY <1>2, <1>3 DEF ReadyFit

LEMMA ReadyStep ==
    IInv /\ FlowInv /\ ConnsFit /\ LinkFits /\ ReadyFits /\ [Next]_vars => ReadyFits'
<1> SUFFICES ASSUME IInv, FlowInv, ConnsFit, LinkFits, ReadyFits, [Next]_vars PROVE ReadyFits'
  OBVIOUS
<1>1. trouble' = {} => trouble = {}
  BY TroubleIsKept
<1>2. /\ flow \in [Conns -> Chunks] /\ ready \in [Conns -> SUBSET {"client", "channel"}]
      /\ worker \in [Conns -> WorkerStates]
      /\ \A c \in Conns : ReadyFit(ready[c], worker[c], flow[c], Undisturbed(c))
  BY DEF FlowInv, ReadyFits
<1>3. ASSUME UNCHANGED <<via, at, conn>> PROVE \A c \in Conns : Undisturbed(c)' => Undisturbed(c)
  BY <1>1, <1>3 DEF Undisturbed, ClientOpen
\* A step of a connection: the others go on as they were.
<1>4. ASSUME UNCHANGED <<via, at, conn>>, NEW c \in Conns, NEW f, NEW w, NEW r \in SUBSET {"client", "channel"},
             flow' = [flow EXCEPT ![c] = f], worker' = [worker EXCEPT ![c] = w],
             ready' = [ready EXCEPT ![c] = r],
             ReadyFit(r, w, f, Undisturbed(c)')
      PROVE  ReadyFits'
  <2>1. ready' \in [Conns -> SUBSET {"client", "channel"}]
    BY <1>2, <1>4
  <2>2. ReadyFit(ready'[c], worker'[c], flow'[c], Undisturbed(c)')
    BY <1>2, <1>4
  <2>3. ASSUME NEW d \in Conns \ {c}
        PROVE  ReadyFit(ready'[d], worker'[d], flow'[d], Undisturbed(d)')
    <3>1. ready'[d] = ready[d] /\ worker'[d] = worker[d] /\ flow'[d] = flow[d]
      BY <1>2, <1>4
    <3> QED
      BY <1>3, <1>4, <3>1, ReadyKept
  <2> QED
    BY <2>1, <2>2, <2>3 DEF ReadyFits
<1>5. ASSUME NEW c \in Conns, Client(c) PROVE ReadyFits'
  <2>1. UNCHANGED <<via, at, conn>>
    BY <1>5, ConnectionFrame
  <2>2. UNCHANGED <<worker, ready>>
    BY <1>5 DEF Client, ClientSend, ClientRecv
  <2>3. \A d \in Conns : /\ flow[d].up > 0 => flow'[d].up > 0
                         /\ flow[d].in > 0 => flow'[d].in > 0
    BY <1>2, <1>5 DEF Client, ClientSend, ClientRecv, Move, Chunks
  <2>4. \A d \in Conns : ReadyFit(ready'[d], worker'[d], flow'[d], Undisturbed(d)')
    BY <1>3, <2>1, <2>2, <2>3, ReadyKept DEF Holds
  <2> QED
    BY <1>2, <2>2, <2>4 DEF ReadyFits
<1>6. ASSUME NEW c \in Conns, Remote(c) PROVE ReadyFits'
  <2>1. UNCHANGED <<via, at, conn>>
    BY <1>6, ConnectionFrame
  <2>2. UNCHANGED <<worker, ready>>
    BY <1>6 DEF Remote, Carry, ServerRead, ServerWrite
  <2>3. via = "tunnel" => \A d \in Conns : /\ flow[d].up > 0 => flow'[d].up > 0
                                           /\ flow[d].in > 0 => flow'[d].in > 0
    BY <1>2, <1>6 DEF Remote, Carry, ServerRead, ServerWrite, Move, Chunks
  <2>4. \A d \in Conns : ReadyFit(ready'[d], worker'[d], flow'[d], Undisturbed(d)')
    BY <1>3, <2>1, <2>2, <2>3, ReadyKept DEF Holds, Undisturbed
  <2> QED
    BY <1>2, <2>2, <2>4 DEF ReadyFits
<1>7. ASSUME NEW c \in Conns, Worker(c) \/ OpenFails(c) PROVE ReadyFits'
  <2>1. UNCHANGED <<via, at, conn>>
    BY <1>7, ConnectionFrame
  <2>2. flow = [flow EXCEPT ![c] = flow[c]] /\ ready = [ready EXCEPT ![c] = ready[c]]
    BY <1>2
  <2>3. CASE OpenChannel(c) \/ OpenFails(c)
    <3>1. PICK w \in {"loop", "ended"} : Become(c, w)
      BY <2>3 DEF OpenChannel, OpenFails
    <3>2. UNCHANGED <<flow, ready>>
      BY <2>3 DEF OpenChannel, OpenFails
    <3>3. ReadyFit(ready[c], w, flow[c], Undisturbed(c)')
      BY <1>2 DEF ReadyFit
    <3> QED
      BY <1>2, <1>4, <2>1, <2>2, <3>1, <3>2, <3>3 DEF Become
  <2>4. CASE Select(c) /\ stop
    <3>1. Become(c, "ended") /\ UNCHANGED <<flow, ready>>
      BY <2>4 DEF Select
    <3>2. ReadyFit(ready[c], "ended", flow[c], Undisturbed(c)')
      BY <1>2 DEF ReadyFit
    <3> QED
      BY <1>2, <1>4, <2>1, <2>2, <3>1, <3>2 DEF Become
  <2>5. CASE Select(c) /\ ~stop
    <3>1. /\ Become(c, "relay") /\ UNCHANGED flow
          /\ ready' = [ready EXCEPT ![c] = ReadableStreams(c)]
          /\ ReadableStreams(c) # {}
      BY <2>5 DEF Select
    <3>2. Undisturbed(c)' => \A stream \in ReadableStreams(c) : Holds(flow[c], stream)
      <4> SUFFICES ASSUME Undisturbed(c)', NEW stream \in ReadableStreams(c)
                   PROVE  Holds(flow[c], stream)
        OBVIOUS
      <4>1. Undisturbed(c)
        BY <1>3, <2>1
      <4>2. link # "down" /\ ClientOpen(c)
        BY <4>1 DEF Undisturbed, LinkFits, ClientOpen
      <4> QED
        BY <4>2 DEF ReadableStreams, Readable, Holds
    <3>3. ReadableStreams(c) \in SUBSET {"client", "channel"}
      BY DEF ReadableStreams
    <3>4. ReadyFit(ReadableStreams(c), "relay", flow[c], Undisturbed(c)')
      BY <3>1, <3>2 DEF ReadyFit
    <3> HIDE DEF ReadableStreams
    <3> QED
      BY <1>4, <2>1, <2>2, <3>1, <3>3, <3>4 DEF Become
  <2>6. CASE Recv(c)
    <3> DEFINE stream == IF "client" \in ready[c] THEN "client" ELSE "channel"
               from == IF stream = "client" THEN "up" ELSE "in"
               r == ready[c] \ {stream}
    <3>1. PICK w \in {"to_channel", "to_client", "ended"} :
              /\ Become(c, w)
              /\ (w = "ended" /\ UNCHANGED flow) \/ flow' = [flow EXCEPT ![c][from] = @ - 1]
      BY <2>6 DEF Recv
    <3>2. ready' = [ready EXCEPT ![c] = r] /\ worker[c] = "relay"
      BY <2>6 DEF Recv
    <3>3. r \in SUBSET {"client", "channel"} /\ r \subseteq {"channel"}
      BY <1>2
    <3>4. Undisturbed(c)' => \A s \in ready[c] : Holds(flow[c], s)
      BY <1>2, <1>3, <2>1, <3>2 DEF ReadyFit
    <3>5. r # {} => stream = "client"
      BY <1>2
    <3>6. CASE w = "ended" /\ UNCHANGED flow
      <4>1. ReadyFit(r, w, flow[c], Undisturbed(c)')
        BY <3>6 DEF ReadyFit
      <4> HIDE DEF r
      <4> QED
        BY <1>4, <2>1, <2>2, <3>1, <3>2, <3>3, <3>6, <4>1 DEF Become
    <3>7. CASE flow' = [flow EXCEPT ![c][from] = @ - 1]
      <4> DEFINE f == [flow[c] EXCEPT ![from] = @ - 1]
      <4>1. flow' = [flow EXCEPT ![c] = f]
        BY <1>2, <3>7
      <4>2. r # {} => f.in = flow[c].in
        BY <1>2, <3>5 DEF Chunks
      <4>3. w # "relay"
        BY <3>1
      <4>4. ReadyFit(r, w, f, Undisturbed(c)')
        BY <3>3, <3>4, <4>2, <4>3 DEF ReadyFit, Holds
      <4> HIDE DEF r, f
      <4> QED
        BY <1>4, <2>1, <3>1, <3>2, <3>3, <4>1, <4>4 DEF Become
    <3> QED
      BY <3>1, <3>6, <3>7
  <2>7. CASE Send(c)
    <3> DEFINE to == IF worker[c] = "to_channel" THEN "out" ELSE "down"
               next == IF ready[c] = {} THEN "loop" ELSE "relay"
    <3>1. UNCHANGED ready /\ worker[c] \in {"to_channel", "to_client"}
      BY <2>7 DEF Send
    <3>2. Undisturbed(c)' => \A s \in ready[c] : Holds(flow[c], s)
      BY <1>2, <1>3, <2>1, <3>1 DEF ReadyFit
    <3>3. CASE Become(c, "ended") /\ UNCHANGED flow
      <4>1. ReadyFit(ready[c], "ended", flow[c], Undisturbed(c)')
        BY <1>2 DEF ReadyFit
      <4> QED
        BY <1>2, <1>4, <2>1, <2>2, <3>1, <3>3, <4>1 DEF Become
    <3>4. CASE Become(c, next) /\ flow' = [flow EXCEPT ![c][to] = @ + 1]
      <4> DEFINE f == [flow[c] EXCEPT ![to] = @ + 1]
      <4>1. flow' = [flow EXCEPT ![c] = f]
        BY <1>2, <3>4
      <4>2. f.up = flow[c].up /\ f.in = flow[c].in
        BY <1>2 DEF Chunks
      <4>3. ReadyFit(ready[c], next, f, Undisturbed(c)')
        BY <1>2, <3>2, <4>2 DEF ReadyFit, Holds
      <4> HIDE DEF f, next
      <4> QED
        BY <1>2, <1>4, <2>1, <2>2, <3>1, <3>4, <4>1, <4>3 DEF Become
    <3> QED
      BY <2>7, <3>3, <3>4 DEF Send
  <2> QED
    BY <1>7, <2>3, <2>4, <2>5, <2>6, <2>7 DEF Worker, Select
<1>8. CASE Acceptor
  <2>1. UNCHANGED <<via, at, conn, flow, ready>>
    BY <1>8 DEF Acceptor, AcceptTest, AcceptStep, Accept, AcceptTimeout, bridges
  <2>2. CASE worker' = worker
    BY <1>2, <1>3, <2>1, <2>2, ReadyKept DEF ReadyFits
  <2>3. ASSUME NEW c \in Conns, worker' = [worker EXCEPT ![c] = "opening"] PROVE ReadyFits'
    <3>1. ReadyFit(ready[c], "opening", flow[c], Undisturbed(c)')
      BY <1>2 DEF ReadyFit
    <3>2. flow' = [flow EXCEPT ![c] = flow[c]] /\ ready' = [ready EXCEPT ![c] = ready[c]]
      BY <1>2, <2>1
    <3> QED
      BY <1>2, <1>4, <2>1, <2>3, <3>1, <3>2
  <2>4. AcceptTest \/ AcceptTimeout => worker' = worker
    BY DEF AcceptTest, AcceptStep, AcceptTimeout, bridges
  <2> QED
    BY <1>8, <2>2, <2>3, <2>4, AcceptEffect DEF Acceptor
\* The rest of the call leaves the bridges alone; a connection that opens has none yet.
<1>9. ASSUME UNCHANGED <<flow, ready, worker>>,
             \A c \in Conns : Undisturbed(c)' => Undisturbed(c) \/ worker[c] = "none"
      PROVE  ReadyFits'
  BY <1>2, <1>9, ReadyKept DEF ReadyFits
<1>10. ASSUME UNCHANGED <<via, conn, bridges>>,
              at' \in {"connecting", "query"} => at \in {"connecting", "query"}
       PROVE  ReadyFits'
  <2>1. \A c \in Conns : Undisturbed(c)' => Undisturbed(c)
    BY <1>1, <1>10 DEF Undisturbed, ClientOpen
  <2> QED
    BY <1>9, <1>10, <2>1 DEF bridges
<1>11. CASE \/ WriteKeyFile \/ WriteCert \/ Connect \/ LoggedIn \/ Fetched \/ ConnectionLost
            \/ UnlinkCerts \/ UnlinkKey \/ Stop \/ Join \/ CloseSsh \/ ConnectTimeout
  BY <1>10, <1>11 DEF WriteKeyFile, WriteCert, WriteFile, Connect, LoggedIn, Proceed, Fetched,
     ConnectionLost, UnlinkCerts, UnlinkKey, Unlink, Stop, Join, CloseSsh, ConnectTimeout, Goto,
     AfterCerts
<1>12. CASE Dial \/ Redial
  <2>1. UNCHANGED bridges /\ conn' = conn + 1
    BY <1>12 DEF Dial, Redial, Goto, ConnsFit
  <2>2. \A c \in Conns : Undisturbed(c)' => worker[c] = "none"
    BY <2>1 DEF Undisturbed, ClientOpen, ConnsFit, FlowInv, Conns
  <2> QED
    BY <1>9, <2>1, <2>2 DEF bridges
<1>13. CASE Faults
  BY <1>10, <1>13 DEF Faults, WriteFault, FileFault, SshFault, LinkFault, UnlinkFault, Goto, AfterCerts
<1>14. CASE UNCHANGED vars
  BY <1>10, <1>14 DEF vars
<1> QED
  BY <1>5, <1>6, <1>7, <1>8, <1>11, <1>12, <1>13, <1>14 DEF Next, Call

\* Without a fault nothing ends the bridge of an open connection: the stop event is
\* not set, both its ends are open, and what it reads is there.
LEMMA BridgeLives ==
    ASSUME FlowInv, ForwarderFits, LinkFits, ReadyFits, trouble' = {}, [Next]_vars,
           via = "tunnel", NEW c \in Conns, ClientOpen(c), Worker(c) \/ OpenFails(c)
    PROVE  worker'[c] # "ended"
<1>1. trouble = {} /\ Undisturbed(c)
  BY TroubleIsKept DEF Undisturbed
<1>2. ~stop /\ link = "up"
  BY <1>1 DEF ClientOpen, ForwarderFits, LinkFits
<1>3. worker \in [Conns -> WorkerStates]
  BY DEF FlowInv
<1>4. CASE OpenFails(c)
  BY <1>2, <1>4 DEF OpenFails, Trouble
<1>5. CASE OpenChannel(c) \/ Select(c)
  BY <1>2, <1>3, <1>5 DEF OpenChannel, Select, Become
<1>6. CASE Recv(c)
  <2> DEFINE stream == IF "client" \in ready[c] THEN "client" ELSE "channel"
             from == IF stream = "client" THEN "up" ELSE "in"
  <2>1. ReadyFit(ready[c], worker[c], flow[c], Undisturbed(c)) /\ worker[c] = "relay"
        /\ ready[c] \subseteq {"client", "channel"}
    BY <1>6 DEF ReadyFits, Recv
  <2>2. stream \in ready[c]
    BY <2>1 DEF ReadyFit
  <2>3. flow[c][from] > 0
    BY <1>1, <2>1, <2>2 DEF ReadyFit, Holds
  <2>4. PICK w \in {"to_channel", "to_client"} : Become(c, w)
    BY <1>6, <2>3 DEF Recv
  <2> QED
    BY <1>3, <2>4 DEF Become
<1>7. CASE Send(c)
  <2>1. PICK w \in {"loop", "relay"} : Become(c, w)
    BY <1>2, <1>7 DEF Send
  <2> QED
    BY <1>3, <2>1 DEF Become
<1> QED
  BY <1>4, <1>5, <1>6, <1>7 DEF Worker

LEMMA UndisturbedStep == UInv /\ [Next]_vars => UndisturbedCallHolds'
<1> SUFFICES ASSUME UInv, [Next]_vars, trouble' = {}
             PROVE  /\ outcome' # "error"
                    /\ via' = "tunnel" /\ Connected'
                         => acceptor' # "ended" /\ worker'[conn'] # "ended"
  BY DEF UndisturbedCallHolds
<1>1. trouble = {} /\ via' = via /\ outcome # "error"
  BY TroubleIsKept DEF UInv, UndisturbedCallHolds
<1>2. via = "tunnel" /\ Connected' => acceptor' # "ended"
  <2>1. ForwarderFits'
    BY ForwarderStep DEF UInv
  <2> QED
    BY <1>1, <2>1 DEF ForwarderFits, Connected
<1>3. ~ConnectionLost
  <2> SUFFICES ASSUME ConnectionLost PROVE FALSE
    OBVIOUS
  <2>1. Connected /\ Hangup(conn)
    BY DEF ConnectionLost, Goto, Connected
  <2>2. via \in {"tunnel", "direct"} /\ link = "up"
    BY <1>1, <2>1 DEF UInv, IInv, LinkFits, Connected
  <2> QED
    BY <1>1, <2>1, <2>2 DEF Hangup, UInv, UndisturbedCallHolds
<1>4. outcome' # "error"
  <2>1. ASSUME NEW c \in Conns, Client(c) \/ Worker(c) \/ OpenFails(c) \/ Remote(c)
        PROVE  outcome' = outcome
    BY <2>1, ConnectionFrame
  <2>2. CASE Acceptor
    BY <1>1, <2>2 DEF Acceptor, AcceptTest, AcceptStep, Accept, AcceptTimeout
  <2>3. CASE Faults
    BY <1>1, <2>3 DEF Faults, WriteFault, FileFault, SshFault, LinkFault, UnlinkFault, Trouble
  <2>4. CASE \/ WriteKeyFile \/ WriteCert \/ Connect \/ Dial \/ LoggedIn \/ Fetched
             \/ UnlinkCerts \/ UnlinkKey \/ Stop \/ Join \/ CloseSsh \/ Redial \/ ConnectTimeout
    BY <1>1, <2>4 DEF WriteKeyFile, WriteCert, WriteFile, Connect, Dial, LoggedIn, Proceed, Fetched,
       UnlinkCerts, UnlinkKey, Unlink, Stop, Join, CloseSsh, Redial, ConnectTimeout
  <2>5. CASE UNCHANGED vars
    BY <1>1, <2>5 DEF vars
  <2> QED
    BY <1>1, <1>3, <2>1, <2>2, <2>3, <2>4, <2>5 DEF Next, Call
<1>5. ASSUME via = "tunnel", Connected' PROVE worker'[conn'] # "ended"
  <2>1. CASE Connected /\ conn' = conn
    <3>1. conn \in Conns /\ worker[conn] # "ended"
      BY <1>1, <1>5, <2>1 DEF UInv, UndisturbedCallHolds, ConnsFit
    <3>2. ASSUME NEW c \in Conns, Worker(c) \/ OpenFails(c) PROVE worker'[conn] # "ended"
      <4>1. CASE c = conn
        <5>1. ClientOpen(c)
          BY <2>1, <4>1 DEF ClientOpen, Connected
        <5> QED
          BY <1>5, <3>2, <4>1, <5>1, BridgeLives DEF UInv
      <4>2. CASE c # conn
        BY <3>1, <3>2, <4>2, WorkerEffect DEF UInv
      <4> QED
        BY <4>1, <4>2
    <3>3. CASE Accept
      <4>1. worker' = worker \/ \E c \in Conns : worker' = [worker EXCEPT ![c] = "opening"]
        BY <3>3, AcceptEffect DEF UInv
      <4>2. worker \in [Conns -> WorkerStates]
        BY DEF UInv, FlowInv
      <4>3. ASSUME NEW c \in Conns, worker' = [worker EXCEPT ![c] = "opening"]
            PROVE  worker'[conn] # "ended"
        <5>1. worker'[conn] = IF conn = c THEN "opening" ELSE worker[conn]
          BY <3>1, <4>2, <4>3
        <5> QED
          BY <3>1, <5>1
      <4> QED
        BY <2>1, <3>1, <4>1, <4>3
    <3>4. (\E c \in Conns : Worker(c) \/ OpenFails(c)) \/ Accept \/ UNCHANGED worker
      BY DEF Next, Call, Client, ClientSend, ClientRecv, Remote, Carry, ServerRead, ServerWrite,
         Acceptor, AcceptTest, AcceptStep, AcceptTimeout, Faults, WriteFault, FileFault, SshFault,
         LinkFault, UnlinkFault, WriteKeyFile, WriteCert, WriteFile, Connect, Dial, LoggedIn,
         Proceed, Fetched, ConnectionLost, UnlinkCerts, UnlinkKey, Unlink, Stop, Join, CloseSsh,
         Redial, ConnectTimeout, bridges, vars
    <3> QED
      BY <2>1, <3>1, <3>2, <3>3, <3>4
  <2>2. CASE ~(Connected /\ conn' = conn)
    <3>1. Dial \/ Redial
      BY <1>5, <2>2 DEF Next, Call, Client, ClientSend, ClientRecv, Remote, Carry, ServerRead,
         ServerWrite, Worker, OpenChannel, OpenFails, Select, Recv, Send, others,
         Acceptor, Accept, AcceptTest, AcceptStep, AcceptTimeout, Faults, WriteFault, FileFault,
         SshFault, LinkFault, UnlinkFault, WriteKeyFile, WriteCert, WriteFile, Connect, LoggedIn,
         Proceed, Fetched, ConnectionLost, UnlinkCerts, UnlinkKey, Unlink, Stop, Join, CloseSsh,
         ConnectTimeout, Goto, AfterCerts, Connected, vars
    <3>2. conn' = conn + 1 /\ UNCHANGED worker
      BY <3>1 DEF Dial, Redial, Goto, bridges, UInv, ConnsFit
    <3>3. conn' \in Conns
      BY <1>5, ForwarderStep DEF UInv, ConnsFit
    <3> QED
      BY <3>2, <3>3 DEF UInv, ConnsFit, FlowInv, Conns
  <2> QED
    BY <2>1, <2>2
<1> QED
  BY <1>1, <1>2, <1>4, <1>5

LEMMA UInit == Init => UInv
<1> SUFFICES ASSUME Init PROVE UInv
  OBVIOUS
<1>1. IInv /\ FlowInv
  BY InvInit, FlowInit
<1>2. /\ at \in {"key_file", "certs"} /\ (at = "certs" => via = "direct")
      /\ conn = 0 /\ acceptor = "off" /\ stop = FALSE /\ link = "up" /\ outcome = "none"
      /\ \A c \in Conns : worker[c] = "none" /\ ready[c] = {}
      /\ ready \in [Conns -> SUBSET {"client", "channel"}]
  BY DEF Init
<1>3. ForwarderFits /\ ConnsFit /\ LinkFits /\ UndisturbedCallHolds
  BY <1>2 DEF ForwarderFits, ConnsFit, LinkFits, UndisturbedCallHolds, Connected
<1>4. ReadyFits
  BY <1>2 DEF ReadyFits, ReadyFit
<1> QED
  BY <1>1, <1>3, <1>4 DEF UInv

\* A call that meets no fault and no timeout never fails, and has its accept loop and the
\* bridge of its connection for as long as it needs them, whatever connections libpq
\* drops and however its threads interleave (run_json_sql, _accept_loop, _bridge).
THEOREM SpecUndisturbedCallHolds == Spec => []UndisturbedCallHolds
<1>1. UInv /\ [Next]_vars => UInv'
  BY InvStep, FlowStep, ForwarderStep, LinkStep, ReadyStep, UndisturbedStep DEF UInv
<1>2. UInv => UndisturbedCallHolds
  BY DEF UInv
<1> QED
  BY UInit, <1>1, <1>2, PTL DEF Spec

=============================================================================
