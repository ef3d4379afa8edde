------------------------------ MODULE SshExec -------------------------------
(***************************************************************************)
(* One command over SSH: _run_ssh of app/remote/connection.py and, with    *)
(* the same loop, run and _connect of app/remote/ssh_client.py.  The       *)
(* private key is on the disk while the client connects; the loop drains   *)
(* both streams against a deadline; a finally clause closes the client.    *)
(*                                                                         *)
(* Output is counted in chunks.  The two streams of a channel share its    *)
(* flow-control window: a command that has filled it with one of them is   *)
(* blocked until the client has read some of it.                           *)
(***************************************************************************)
EXTENDS Naturals

CONSTANTS
    Window,    \* chunks the channel holds unread
    MaxChunks  \* bound: chunks a command writes to each stream

ASSUME SshExecAssumption == Window \in Nat \ {0} /\ MaxChunks \in Nat

Streams == {"out", "err"}

VARIABLES
    toWrite,   \* what the command still has to write to each stream
    unread,    \* what the channel holds of each stream
    got,       \* what the client has read of each stream
    wrote,     \* what the command writes in all to each stream
    hanging,   \* whether the command, or the server before it runs, has stopped for good
    early,     \* whether its exit status has arrived before its last output
    status,    \* its exit status, once that has arrived
    lost,      \* whether the connection has broken down
    expired,   \* time.monotonic() >= deadline
    key,       \* the temporary file with the private key: "none", "there", or
               \* "stray" after an OSError that kept it from being removed
    open,      \* whether the SSH client holds a connection
    check,     \* whether the caller asks for an error if the command fails
    outcome,   \* what the call has come to: "none", "result" or "error"
    at         \* the client's next step

command == <<toWrite, wrote, hanging, early, status, lost>>
call == <<key, open, check, outcome>>
execVars == <<command, unread, got, expired, call, at>>

ExecInit ==
    /\ wrote \in [Streams -> 0..MaxChunks]
    /\ toWrite = wrote
    /\ unread = [s \in Streams |-> 0]
    /\ got = [s \in Streams |-> 0]
    /\ hanging = FALSE /\ early = FALSE /\ lost = FALSE
    /\ status = "none" /\ expired = FALSE
    /\ key = "none" /\ open = FALSE
    /\ check \in BOOLEAN
    /\ outcome = "none"
    /\ at \in {"key", "connect"}  \* with or without a private key

Loop == {"read_out", "read_err", "exit", "out_empty", "err_empty", "deadline"}

----------------------------------------------------------------------------
(* The command, the transport and the clock                                *)

Running == at \in Loop /\ ~hanging /\ ~lost

\* The command writes to either stream as it pleases, as far as the window goes.
Write(s) ==
    /\ Running
    /\ toWrite[s] > 0
    /\ unread["out"] + unread["err"] < Window
    /\ toWrite' = [toWrite EXCEPT ![s] = @ - 1]
    /\ unread' = [unread EXCEPT ![s] = @ + 1]
    /\ UNCHANGED <<wrote, hanging, early, status, lost, got, expired, call, at>>

\* A command exits once it has written all it has to write.
Exit ==
    /\ Running /\ status = "none"
    /\ \A s \in Streams : toWrite[s] = 0
    /\ status' \in {"ok", "failed"}
    /\ UNCHANGED <<toWrite, wrote, hanging, early, lost, unread, got, expired, call, at>>

\* One that leaves processes behind exits while they still have output to add.
ExitEarly ==
    /\ Running /\ status = "none"
    /\ \E s \in Streams : toWrite[s] > 0
    /\ status' \in {"ok", "failed"}
    /\ early' = TRUE
    /\ UNCHANGED <<toWrite, wrote, hanging, lost, unread, got, expired, call, at>>

Hang ==
    /\ at \in Loop \cup {"exec"}
    /\ ~hanging
    /\ hanging' = TRUE
    /\ UNCHANGED <<toWrite, wrote, early, status, lost, unread, got, expired, call, at>>

\* The transport ends: the channel closes with what it holds still readable.
Lose ==
    /\ at \in Loop \cup {"exec"}
    /\ ~lost
    /\ lost' = TRUE
    /\ UNCHANGED <<toWrite, wrote, hanging, early, status, unread, got, expired, call, at>>

\* The deadline is set once the command has been accepted.
Expire ==
    /\ at \in Loop
    /\ ~expired
    /\ expired' = TRUE
    /\ UNCHANGED <<command, unread, got, call, at>>

----------------------------------------------------------------------------
(* Connecting                                                              *)

Quiet == UNCHANGED <<command, unread, got, expired, check>>

\* The key is written to a file of its own, whose mode is set.
WriteKey ==
    /\ at = "key"
    /\ key' = "there" /\ at' = "connect"
    /\ UNCHANGED <<open, outcome>> /\ Quiet

\* An OSError on the way: the file may be there by then, and nothing removes it.
KeyFault ==
    /\ at = "key"
    /\ key' \in {"none", "stray"}
    /\ outcome' = "error" /\ at' = "close"
    /\ UNCHANGED open /\ Quiet

\* Seeded fault: a connection that is refused ends the call then and there.
ConnectUnguarded ==
    /\ at = "connect"
    /\ \/ open' = TRUE /\ at' = "unlink" /\ UNCHANGED outcome
       \/ open' \in BOOLEAN /\ outcome' = "error" /\ at' = "close"
    /\ UNCHANGED key /\ Quiet

\* All its waits are limited.  One that fails may leave the transport open, as
\* a refused login does.
Connect ==
    /\ at = "connect"
    /\ \/ open' = TRUE /\ UNCHANGED outcome
       \/ open' \in BOOLEAN /\ outcome' = "error"
    /\ at' = "unlink"
    /\ UNCHANGED key /\ Quiet

\* Either way the key file is removed; an OSError here is ignored.
Unlink ==
    /\ at = "unlink"
    /\ key' \in IF key = "there" THEN {"none", "stray"} ELSE {key}
    /\ at' = IF outcome = "error" THEN "close" ELSE "exec"
    /\ UNCHANGED <<open, outcome>> /\ Quiet

\* exec_command waits for the server to accept the command, without a limit, and
\* raises if it refuses or the connection is lost.
Exec ==
    /\ at = "exec"
    /\ \/ ~hanging /\ ~lost /\ at' = "read_out" /\ UNCHANGED outcome
       \/ (~hanging \/ lost) /\ outcome' = "error" /\ at' = "close"
    /\ UNCHANGED <<key, open>> /\ Quiet

----------------------------------------------------------------------------
(* The loop                                                                *)

\* exit_status_ready(): a closed channel counts as one with a status.
Exited == status # "none" \/ lost

Read(s, from, to) ==
    /\ at = from
    /\ at' = to
    /\ \/ /\ unread[s] > 0
          /\ unread' = [unread EXCEPT ![s] = @ - 1]
          /\ got' = [got EXCEPT ![s] = @ + 1]
       \/ unread[s] = 0 /\ UNCHANGED <<unread, got>>
    /\ UNCHANGED <<command, expired, call>>

ReadOut == Read("out", "read_out", "read_err")

\* Seeded fault: the standard error is read only after the command has exited.
ReadErrLate ==
    IF Exited THEN Read("err", "read_err", "exit")
    ELSE /\ at = "read_err"
         /\ at' = "exit"
         /\ UNCHANGED <<command, unread, got, expired, call>>

ReadErr == Read("err", "read_err", "exit")

Test(from, condition, yes, no) ==
    /\ at = from
    /\ at' = IF condition THEN yes ELSE no
    /\ UNCHANGED <<command, unread, got, expired, call>>

\* Seeded fault: the exit status alone ends the loop.
TestExitOnly == Test("exit", Exited, "status", "deadline")

\* exit_status_ready() and not recv_ready() and not recv_stderr_ready()
TestExit == Test("exit", Exited, "out_empty", "deadline")

TestOut == Test("out_empty", unread["out"] = 0, "err_empty", "deadline")

TestErr == Test("err_empty", unread["err"] = 0, "status", "deadline")

\* The channel is closed and TimeoutError raised; else the loop sleeps.
TestDeadline ==
    /\ at = "deadline"
    /\ \/ expired /\ outcome' = "error" /\ at' = "close"
       \/ ~expired /\ at' = "read_out" /\ UNCHANGED outcome
    /\ UNCHANGED <<key, open>> /\ Quiet

\* The result is made up: the exit status, or -1 if none has arrived.
Result ==
    /\ at = "status"
    /\ outcome' = "result" /\ at' = "close"
    /\ UNCHANGED <<key, open>> /\ Quiet

\* client.close(), whatever went before.
Close ==
    /\ at = "close"
    /\ open' = FALSE
    /\ at' = IF outcome = "error" THEN "end" ELSE "check"
    /\ UNCHANGED <<key, outcome>> /\ Quiet

Check ==
    /\ at = "check"
    /\ outcome' = IF check /\ status # "ok" THEN "error" ELSE "result"
    /\ at' = "end"
    /\ UNCHANGED <<key, open>> /\ Quiet

Client ==
    \/ WriteKey \/ KeyFault \/ Connect \/ Unlink \/ Exec
    \/ ReadOut \/ ReadErr \/ TestExit \/ TestOut \/ TestErr \/ TestDeadline
    \/ Result \/ Close \/ Check

Command == (\E s \in Streams : Write(s)) \/ Exit

ExecNext == Command \/ ExitEarly \/ Hang \/ Lose \/ Expire \/ Client

\* The client's thread runs on, and a command that does not hang goes on writing
\* and exits while it can.  None has to exit early, and the deadline may be far.
ExecSpec == ExecInit /\ [][ExecNext]_execVars /\ WF_execVars(Client) /\ WF_execVars(Command)

----------------------------------------------------------------------------
(* Properties                                                              *)

\* No chunk is lost or read twice, the window is never exceeded, and no command
\* runs while its key is on the disk, unless an OSError left it there.
ExecTypeOK ==
    /\ {wrote, toWrite, unread, got} \subseteq [Streams -> 0..MaxChunks]
    /\ \A s \in Streams : toWrite[s] + unread[s] + got[s] = wrote[s]
    /\ unread["out"] + unread["err"] <= Window
    /\ {hanging, early, lost, expired, open, check} \subseteq BOOLEAN
    /\ status \in {"none", "ok", "failed"}
    /\ key \in {"none", "stray", "there"}
    /\ key = "there" => at \in {"connect", "unlink"}
    /\ outcome \in {"none", "result", "error"}
    /\ at \in Loop \cup {"key", "connect", "unlink", "exec", "status", "close", "check", "end"}

\* A result with an exit status holds everything the command has written, unless
\* the status overtook the output: then the rest is dropped.  If the connection
\* is lost instead, the status is missing and the result counts as a failure.
OutputIsComplete == outcome = "result" /\ status # "none" => early \/ got = wrote

\* Every call comes to an end with its connection closed: neither side waits for
\* the other for ever, however much is written to whichever stream, and what
\* hangs, floods or breaks down is given up at the deadline.  Only a server that
\* does not answer the request to run the command keeps the caller: the deadline
\* is set after that.
CallReturns ==
    \/ <>(at = "end" /\ ~open)
    \/ <>[](hanging /\ ~lost /\ status = "none" /\ (at = "exec" \/ ~expired))
=============================================================================
