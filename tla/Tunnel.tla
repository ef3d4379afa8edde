------------------------------- MODULE Tunnel --------------------------------
(***************************************************************************)
(* One call of DirectPostgresClient (app/remote/direct_postgres.py), from  *)
(* its first temporary file to its result: the call's own thread, the      *)
(* accept loop of _LocalForwarder and one worker thread per connection     *)
(* that psycopg opens, each of them bridging two streams.                  *)
(*                                                                         *)
(* Traffic is counted in chunks: in each of two rounds, the log-in and the *)
(* query, psycopg sends Request chunks and PostgreSQL answers a whole      *)
(* request with Reply chunks.  Buffers hold Window chunks.                 *)
(***************************************************************************)
EXTENDS Naturals, FiniteSets

CONSTANTS
    Window,     \* chunks a socket or channel buffers in each direction
    Request,    \* chunks of a request
    Reply,      \* chunks of its answer
    MaxConns,   \* bound: connections psycopg opens before it gives up
    Certs,      \* TLS files of the target: CA, certificate and key, as far as set
    MaxFaults   \* bound: kinds of faults in one behaviour

ASSUME TunnelAssumption ==
    /\ {Window, Request, Reply, MaxConns} \subseteq Nat \ {0}
    /\ {Certs, MaxFaults} \subseteq Nat

Conns == 1..MaxConns
SshKey == 0                  \* the temporary SSH key file, beside 1..Certs
Files == SshKey..Certs

VARIABLES
    via,        \* "tunnel" or "direct": the target's connection_mode
    at,         \* the call's next step
    outcome,    \* exit_code 0 with all rows, or the exit_code 1 of an exception
    files,      \* temporary files with secrets on the disk
    noted,      \* those whose paths the call has kept: key_path and paths
    listening,  \* whether the forwarder's socket is open
    stop,       \* the forwarder's stop event
    acceptor,   \* the accept loop
    conn,       \* connections psycopg has opened; only the last one can be open
    worker,     \* per connection, its bridge
    ready,      \* per connection, the streams select() has returned and the bridge not yet read
    flow,       \* per connection, the chunks at each station
    link,       \* the way to PostgreSQL: up, stalled or down
    trouble,    \* history: what has gone wrong
    stray       \* history: files an OSError hit before they were noted or removed

disk == <<files, noted, stray>>
forwarder == <<listening, stop, acceptor>>
bridges == <<worker, ready, flow>>
vars == <<via, at, outcome, disk, forwarder, conn, bridges, link, trouble>>

Quiet == [sent |-> 0, up |-> 0, out |-> 0, heard |-> 0,
          said |-> 0, in |-> 0, down |-> 0, rcvd |-> 0]

Init ==
    /\ via \in {"tunnel", "direct"}
    /\ at = IF via = "tunnel" THEN "key_file" ELSE "certs"
    /\ outcome = "none"
    /\ files = {} /\ noted = {} /\ stray = {}
    /\ listening = FALSE /\ stop = FALSE /\ acceptor = "off"
    /\ conn = 0
    /\ worker = [c \in Conns |-> "none"]
    /\ ready = [c \in Conns |-> {}]
    /\ flow = [c \in Conns |-> Quiet]
    /\ link = "up"
    /\ trouble = {}

Goto(from, to) == at = from /\ at' = to

Trouble(kind) ==
    /\ kind \in trouble \/ Cardinality(trouble) < MaxFaults
    /\ trouble' = trouble \cup {kind}

\* A step of the call that changes nothing but its place.
Proceed(from, to) ==
    /\ Goto(from, to)
    /\ UNCHANGED <<via, outcome, disk, forwarder, conn, bridges, link, trouble>>

Move(c, from, to) == flow' = [flow EXCEPT ![c][from] = @ - 1, ![c][to] = @ + 1]

----------------------------------------------------------------------------
(* The call: opening                                                       *)

\* A file is created, written, made private; then its path is kept.
WriteFile(f, from, to) ==
    /\ Goto(from, to)
    /\ files' = files \cup {f}
    /\ noted' = noted \cup {f}
    /\ UNCHANGED <<via, outcome, stray, forwarder, conn, bridges, link, trouble>>

WriteKeyFile == WriteFile(SshKey, "key_file", "connect")

NextCert == Cardinality(noted \ {SshKey}) + 1

WriteCert == NextCert <= Certs /\ WriteFile(NextCert, "certs", "certs")

\* An OSError at open(), or at write() and chmod() when the file is there already.
\* The path of the SSH key is kept before chmod(), that of a certificate after it.
FileFault(f, from, to) ==
    /\ Goto(from, to)
    /\ Trouble("os")
    /\ outcome' = "error"
    /\ \/ UNCHANGED disk
       \/ files' = files \cup {f} /\ stray' = stray \cup {f} /\ UNCHANGED noted
       \/ /\ f = SshKey
          /\ files' = files \cup {f} /\ noted' = noted \cup {f} /\ UNCHANGED stray
    /\ UNCHANGED <<via, forwarder, conn, bridges, link>>

WriteFault ==
    \/ FileFault(SshKey, "key_file", "close_ssh")
    \/ NextCert <= Certs /\ FileFault(NextCert, "certs", "unlink_certs")

\* connect(), then __enter__: the socket listens and the accept loop starts.
Connect ==
    /\ Goto("connect", "certs")
    /\ listening' = TRUE
    /\ acceptor' = "test"
    /\ UNCHANGED <<via, outcome, disk, stop, conn, bridges, link, trouble>>

\* connect() refuses or times out, the transport is inactive, bind() fails.
SshFault ==
    /\ Goto("connect", "close_ssh")
    /\ Trouble("ssh")
    /\ outcome' = "error"
    /\ UNCHANGED <<via, disk, forwarder, conn, bridges, link>>

----------------------------------------------------------------------------
(* The call: psycopg                                                       *)

ClientOpen(c) == c = conn /\ at \in {"connecting", "query"}

Rounds == IF at = "query" THEN 2 ELSE 1

Dial ==
    /\ NextCert > Certs
    /\ Goto("certs", "connecting")
    /\ conn' = 1
    /\ UNCHANGED <<via, outcome, disk, forwarder, bridges, link, trouble>>

\* sslmode "prefer": libpq closes a connection whose encryption failed and
\* opens another one.
Redial ==
    /\ at = "connecting"
    /\ conn < MaxConns
    /\ flow[conn].rcvd > 0
    /\ conn' = conn + 1
    /\ UNCHANGED <<via, at, outcome, disk, forwarder, bridges, link, trouble>>

ClientSend(c) ==
    /\ ClientOpen(c)
    /\ flow[c].sent < Rounds * Request
    /\ flow[c].up < Window
    /\ flow' = [flow EXCEPT ![c].sent = @ + 1, ![c].up = @ + 1]
    /\ UNCHANGED <<via, at, outcome, disk, forwarder, conn, worker, ready, link, trouble>>

ClientRecv(c) ==
    /\ ClientOpen(c)
    /\ flow[c].down > 0
    /\ Move(c, "down", "rcvd")
    /\ UNCHANGED <<via, at, outcome, disk, forwarder, conn, worker, ready, link, trouble>>

LoggedIn == Proceed("connecting", "query") /\ flow[conn].rcvd = Reply

Fetched ==
    /\ Goto("query", "unlink_certs")
    /\ flow[conn].rcvd = 2 * Reply
    /\ outcome' = "rows"
    /\ UNCHANGED <<via, disk, forwarder, conn, bridges, link, trouble>>

\* The other end of psycopg's socket: the bridge, or PostgreSQL itself.
Hangup(c) == IF via = "tunnel" THEN worker[c] = "ended" ELSE link = "down"

ConnectionLost ==
    /\ \E from \in {"connecting", "query"} : Goto(from, "unlink_certs")
    /\ Hangup(conn)
    /\ flow[conn].down = 0
    /\ flow[conn].rcvd < Rounds * Reply
    /\ outcome' = "error"
    /\ UNCHANGED <<via, disk, forwarder, conn, bridges, link, trouble>>

\* connect_timeout.  A query has a limit in the server only, statement_timeout.
ConnectTimeout ==
    /\ Goto("connecting", "unlink_certs")
    /\ outcome' = "error"
    /\ trouble' = trouble \cup {"timeout"}
    /\ UNCHANGED <<via, disk, forwarder, conn, bridges, link>>

----------------------------------------------------------------------------
(* The call: the finally clauses, innermost first                          *)

Unlink(fs, from, to) ==
    /\ Goto(from, to)
    /\ files' = files \ (noted \cap fs)
    /\ UNCHANGED <<via, outcome, noted, stray, forwarder, conn, bridges, link, trouble>>

AfterCerts == IF via = "tunnel" THEN "stop" ELSE "end"

\* Seeded fault: the certificates are removed after the rows, not in a finally clause.
UnlinkCertsAfterRows ==
    Unlink(IF outcome = "rows" THEN 1..Certs ELSE {}, "unlink_certs", AfterCerts)

UnlinkCerts == Unlink(1..Certs, "unlink_certs", AfterCerts)

UnlinkKey == Unlink({SshKey}, "unlink_key", "end")

\* The code passes over an OSError of unlink() and goes on with the next file.
UnlinkFault(fs, from, to) ==
    /\ Goto(from, to)
    /\ Trouble("os")
    /\ \E kept \in SUBSET (files \cap noted \cap fs) \ {{}} :
        files' = files \ ((noted \cap fs) \ kept) /\ stray' = stray \cup kept
    /\ UNCHANGED <<via, outcome, noted, forwarder, conn, bridges, link>>

\* __exit__: the stop event is set and the socket closed.
Stop ==
    /\ Goto("stop", "join")
    /\ stop' = TRUE
    /\ listening' = FALSE
    /\ UNCHANGED <<via, outcome, disk, acceptor, conn, bridges, link, trouble>>

AllEnded ==
    /\ acceptor \in {"off", "ended"}
    /\ \A c \in Conns : worker[c] \in {"none", "ended"}

\* Seeded fault: join() without a timeout.
JoinForever == AllEnded /\ Proceed("join", "close_ssh")

\* Every join() waits for a thread, or one second.
Join == Proceed("join", "close_ssh")

CloseSsh ==
    /\ Goto("close_ssh", "unlink_key")
    /\ link' = "down"
    /\ UNCHANGED <<via, outcome, disk, forwarder, conn, bridges, trouble>>

----------------------------------------------------------------------------
(* _accept_loop                                                            *)

Waiting == {c \in 1..conn : worker[c] = "none"}

AcceptStep(from, to) ==
    /\ acceptor = from
    /\ acceptor' = to
    /\ UNCHANGED <<via, at, outcome, disk, listening, stop, conn, bridges, link, trouble>>

\* accept() on the socket that __exit__ has closed raises an OSError.
AcceptTest ==
    \/ AcceptStep("test", IF stop THEN "ended" ELSE "call")
    \/ AcceptStep("call", IF listening THEN "accept" ELSE "ended")

Accept ==
    /\ acceptor = "accept"
    /\ Waiting # {}
    /\ acceptor' = IF listening THEN "test" ELSE "ended"
    /\ worker' = IF listening
                 THEN [worker EXCEPT ![CHOOSE c \in Waiting : \A d \in Waiting : c <= d] = "opening"]
                 ELSE worker
    /\ UNCHANGED <<via, at, outcome, disk, listening, stop, conn, ready, flow, link, trouble>>

\* Seeded fault: accept() without a timeout; closing the socket does not wake it.
AcceptUntimed == FALSE

\* Nobody has connected for half a second, or the socket was closed meanwhile.
AcceptTimeout == (listening => Waiting = {}) /\ AcceptStep("accept", "test")

Acceptor == AcceptTest \/ Accept \/ AcceptTimeout

----------------------------------------------------------------------------
(* _handle_client and _bridge                                              *)

others == <<via, at, outcome, disk, forwarder, conn, link>>

Become(c, state) == worker' = [worker EXCEPT ![c] = state]

OpenChannel(c) ==
    /\ worker[c] = "opening"
    /\ link = "up"
    /\ Become(c, "loop")
    /\ UNCHANGED <<others, ready, flow, trouble>>

\* open_channel() raises: timed out, refused by the server, or without a transport.
OpenFails(c) ==
    /\ worker[c] = "opening"
    /\ Become(c, "ended")
    /\ \/ trouble' = trouble \cup {"timeout"}
       \/ Trouble("refused")
       \/ link = "down" /\ UNCHANGED trouble
    /\ UNCHANGED <<others, ready, flow>>

Readable(c, stream) ==
    IF stream = "client" THEN flow[c].up > 0 \/ ~ClientOpen(c)
                         ELSE flow[c].in > 0 \/ link = "down"

ReadableStreams(c) == {s \in {"client", "channel"} : Readable(c, s)}

\* Seeded fault: an idle half second ends the bridge.
SelectOnce(c) ==
    /\ worker[c] = "loop"
    /\ IF stop \/ ReadableStreams(c) = {}
       THEN Become(c, "ended") /\ UNCHANGED ready
       ELSE /\ Become(c, "relay")
            /\ ready' = [ready EXCEPT ![c] = ReadableStreams(c)]
    /\ UNCHANGED <<others, flow, trouble>>

\* The loop goes round until there is something to read or the stop event is set.
Select(c) ==
    /\ worker[c] = "loop"
    /\ \/ stop /\ Become(c, "ended") /\ UNCHANGED ready
       \/ /\ ~stop
          /\ ReadableStreams(c) # {}
          /\ Become(c, "relay")
          /\ ready' = [ready EXCEPT ![c] = ReadableStreams(c)]
    /\ UNCHANGED <<others, flow, trouble>>

\* recv(), psycopg's stream first, as select() was given them.  The end of a stream
\* ends the bridge in both directions.
Recv(c) ==
    /\ worker[c] = "relay"
    /\ LET stream == IF "client" \in ready[c] THEN "client" ELSE "channel"
           from == IF stream = "client" THEN "up" ELSE "in"
       IN  /\ IF flow[c][from] > 0
              THEN /\ flow' = [flow EXCEPT ![c][from] = @ - 1]
                   /\ Become(c, IF stream = "client" THEN "to_channel" ELSE "to_client")
              ELSE Become(c, "ended") /\ UNCHANGED flow
           /\ ready' = [ready EXCEPT ![c] = @ \ {stream}]
    /\ UNCHANGED <<others, trouble>>

\* Seeded fault: what was read is sent back to where it came from.
SendBack(c) ==
    /\ worker[c] \in {"to_channel", "to_client"}
    /\ Become(c, IF ready[c] = {} THEN "loop" ELSE "relay")
    /\ flow' = [flow EXCEPT ![c][IF worker[c] = "to_channel" THEN "down" ELSE "out"] = @ + 1]
    /\ UNCHANGED <<others, ready, trouble>>

\* sendall() blocks while the other side's buffer is full, and raises once it is closed.
Send(c) ==
    /\ worker[c] \in {"to_channel", "to_client"}
    /\ LET to == IF worker[c] = "to_channel" THEN "out" ELSE "down"
           open == IF to = "out" THEN link # "down" ELSE ClientOpen(c)
       IN  \/ /\ open
              /\ flow[c][to] < Window
              /\ flow' = [flow EXCEPT ![c][to] = @ + 1]
              /\ Become(c, IF ready[c] = {} THEN "loop" ELSE "relay")
           \/ ~open /\ Become(c, "ended") /\ UNCHANGED flow
    /\ UNCHANGED <<others, ready, trouble>>

Worker(c) == OpenChannel(c) \/ Select(c) \/ Recv(c) \/ Send(c)

----------------------------------------------------------------------------
(* The network and PostgreSQL                                              *)

\* Without a tunnel the network itself carries the chunks.
Carry(c) ==
    /\ via = "direct"
    /\ \/ flow[c].up > 0 /\ flow[c].out < Window /\ Move(c, "up", "out")
       \/ flow[c].in > 0 /\ flow[c].down < Window /\ Move(c, "in", "down")
    /\ UNCHANGED <<others, worker, ready, trouble>>

ServerRead(c) ==
    /\ link = "up"
    /\ flow[c].out > 0
    /\ Move(c, "out", "heard")
    /\ UNCHANGED <<others, worker, ready, trouble>>

ServerWrite(c) ==
    /\ link = "up"
    /\ flow[c].said < Reply * (flow[c].heard \div Request)
    /\ flow[c].in < Window
    /\ flow' = [flow EXCEPT ![c].said = @ + 1, ![c].in = @ + 1]
    /\ UNCHANGED <<others, worker, ready, trouble>>

Remote(c) == Carry(c) \/ ServerRead(c) \/ ServerWrite(c)

\* The server hangs, or the connection to it dies.
LinkFault ==
    /\ at \in {"certs", "connecting", "query"}
    /\ \/ link = "up" /\ link' = "stalled" /\ Trouble("stall")
       \/ link # "down" /\ link' = "down" /\ Trouble("drop")
    /\ UNCHANGED <<via, at, outcome, disk, forwarder, conn, bridges>>

----------------------------------------------------------------------------
Client(c) == ClientSend(c) \/ ClientRecv(c)

Call ==
    \/ WriteKeyFile \/ WriteCert \/ Connect
    \/ Dial \/ LoggedIn \/ Fetched \/ ConnectionLost
    \/ UnlinkCerts \/ UnlinkKey \/ Stop \/ Join \/ CloseSsh
    \/ \E c \in Conns : Client(c)

Faults ==
    \/ WriteFault \/ SshFault \/ LinkFault
    \/ UnlinkFault(1..Certs, "unlink_certs", AfterCerts)
    \/ UnlinkFault({SshKey}, "unlink_key", "end")

Next ==
    \/ Call \/ Redial \/ ConnectTimeout \/ Acceptor \/ Faults
    \/ \E c \in Conns : Worker(c) \/ OpenFails(c) \/ Remote(c)

\* Every thread goes on while it is not blocked, a blocked log-in or open_channel()
\* times out in the end, and a server that is up reads and answers.
Spec ==
    /\ Init /\ [][Next]_vars
    /\ WF_vars(Call) /\ WF_vars(ConnectTimeout) /\ WF_vars(Acceptor)
    /\ \A c \in Conns : WF_vars(Worker(c)) /\ WF_vars(OpenFails(c)) /\ WF_vars(Remote(c))

----------------------------------------------------------------------------
(* Properties                                                              *)

\* What the bridge of a connection has read and not yet sent.
Held(c, state) == IF worker[c] = state THEN 1 ELSE 0

\* Chunks are neither lost, doubled nor turned round while a bridge lives, and no
\* buffer exceeds its window.
TypeOK ==
    /\ via \in {"tunnel", "direct"} /\ link \in {"up", "stalled", "down"}
    /\ outcome \in {"none", "rows", "error"} /\ {listening, stop} \subseteq BOOLEAN
    /\ noted \cup stray \subseteq Files /\ files \subseteq noted \cup stray
    /\ \A c \in Conns :
        LET f == flow[c] IN
        /\ {f.up, f.out, f.in, f.down} \subseteq 0..Window
        /\ worker[c] # "ended" =>
            /\ f.sent = f.up + Held(c, "to_channel") + f.out + f.heard
            /\ f.said = f.in + Held(c, "to_client") + f.down + f.rcvd

\* A call that meets no fault and no timeout ends with all its rows, over however
\* many connections: the accept loop serves each of them and no bridge blocks.
CallSucceeds == [](trouble = {}) => <>(outcome = "rows")

\* Whatever fails, the call comes to an end, with its finally clauses, and neither the
\* accept loop nor any bridge outlives it, those included that were started beside
\* __exit__ or outlast their join().  Only a query the server never answers keeps it,
\* for psycopg has no timeout of its own.
CallReturns == <>(at = "end" /\ AllEnded) \/ <>[](at = "query" /\ link = "stalled")

\* A call that has ended leaves no secret on the disk, unless an OSError struck just
\* that file before its path was kept, or its removal.
SecretsAreRemoved == at = "end" => files \subseteq stray
=============================================================================
