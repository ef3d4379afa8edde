------------------------------ MODULE AutoLock ------------------------------
(***************************************************************************)
(* The auto-lock timer of app/core/vault_manager.py: the global stop event *)
(* and thread, replaced by every unlock and dropped by every lock, and the *)
(* timer threads that look the event up again on every round.              *)
(*                                                                         *)
(* Time is abstracted to what the threads tell apart: whether the last     *)
(* activity is older than auto_lock_minutes (fresh), and whether a wait of *)
(* 30 seconds returns because its event is set or because time is up.      *)
(***************************************************************************)
EXTENDS Naturals, FiniteSets

CONSTANTS
    Requests,  \* request threads that unlock, lock or use the vault
    MaxCalls   \* bound: calls made in one behaviour

ASSUME AutoLockAssumption == MaxCalls \in Nat

\* Every unlock makes an event and a thread: as many of each as there are calls.
Timers == 1..MaxCalls
NoEvent == 0

VARIABLES
    unlocked,  \* whether the Vault object holds decrypted data
    fresh,     \* whether the last activity is less than auto_lock_minutes ago
    stop,      \* _auto_lock_stop: an event or NoEvent
    set,       \* the events that are set
    events,    \* events created so far
    timer,     \* per timer thread its next step, and the event it looked up
    call,      \* per request thread the call it is in and its next step there
    overtaken, \* history: whether an unlock has begun while a lock was under way
    calls      \* calls made so far

vault == <<unlocked, fresh>>
vars == <<vault, stop, set, events, timer, call, overtaken, calls>>

Idle == [of |-> "none", at |-> "idle"]

Init ==
    /\ unlocked = FALSE /\ fresh = FALSE
    /\ stop = NoEvent /\ set = {} /\ events = 0
    /\ timer = [i \in Timers |-> [at |-> "unborn", event |-> NoEvent]]
    /\ call = [r \in Requests |-> Idle]
    /\ overtaken = FALSE
    /\ calls = 0

----------------------------------------------------------------------------
(* Requests                                                                *)

Begin(r, of) ==
    /\ call[r] = Idle
    /\ calls < MaxCalls
    /\ calls' = calls + 1
    /\ call' = [call EXCEPT ![r] = [of |-> of, at |-> "test"]]

\* unlock_vault() up to _start_auto_lock_timer(): an unlocked vault is only touched.
Unlock(r) ==
    /\ Begin(r, "unlock")
    /\ unlocked' = TRUE /\ fresh' = TRUE
    /\ overtaken' = (overtaken \/ \E q \in Requests : call[q].of = "lock")
    /\ UNCHANGED <<stop, set, events, timer>>

\* lock_vault() up to _stop_auto_lock_timer(), which switching starts with.
LockVault(r) ==
    /\ Begin(r, "lock")
    /\ unlocked' = FALSE
    /\ UNCHANGED <<fresh, stop, set, events, timer, overtaken>>

\* get_vault_data() touches the vault.
Touch(r) ==
    /\ call[r] = Idle
    /\ unlocked /\ ~fresh
    /\ calls < MaxCalls
    /\ calls' = calls + 1
    /\ fresh' = TRUE
    /\ UNCHANGED <<unlocked, stop, set, events, timer, call, overtaken>>

Goto(r, from, to) ==
    /\ call[r].at = from
    /\ call' = [call EXCEPT ![r] = IF to = "idle" THEN Idle ELSE [@ EXCEPT !.at = to]]
    /\ UNCHANGED <<overtaken, calls>>

\* _stop_auto_lock_timer(): "if _auto_lock_stop is not None" ...
StopTest(r) ==
    /\ Goto(r, "test", IF stop = NoEvent THEN "clear" ELSE "set")
    /\ UNCHANGED <<vault, stop, set, events, timer>>

\* ... and the global is looked up again to set the event: another request may
\* have dropped it by then, and an AttributeError ends this one.
StopSet(r) ==
    /\ IF stop = NoEvent
       THEN Goto(r, "set", "idle") /\ UNCHANGED set
       ELSE Goto(r, "set", "clear") /\ set' = set \cup {stop}
    /\ UNCHANGED <<vault, stop, events, timer>>

StopClear(r) ==
    /\ Goto(r, "clear", IF call[r].of = "unlock" THEN "new" ELSE "idle")
    /\ stop' = NoEvent
    /\ UNCHANGED <<vault, set, events, timer>>

\* Seeded fault: the event of the timer dropped before is used again.
NewEventReused(r) ==
    /\ Goto(r, "new", "spawn")
    /\ events' = events + 1
    /\ stop' = 1
    /\ UNCHANGED <<vault, set, timer>>

NewEvent(r) ==
    /\ Goto(r, "new", "spawn")
    /\ events' = events + 1
    /\ stop' = events'
    /\ UNCHANGED <<vault, set, timer>>

\* Seeded fault: a thread is also started for an event that was replaced.
SpawnTwice(r) ==
    /\ Goto(r, "spawn", "idle")
    /\ LET born == Cardinality({i \in Timers : timer[i].at # "unborn"})
       IN  timer' = [i \in Timers |-> IF i \in {born + 1, born + 2}
                                      THEN [timer[i] EXCEPT !.at = "look"] ELSE timer[i]]
    /\ UNCHANGED <<vault, stop, set, events>>

Spawn(r) ==
    /\ Goto(r, "spawn", "idle")
    /\ LET born == Cardinality({i \in Timers : timer[i].at # "unborn"})
       IN  timer' = [timer EXCEPT ![born + 1].at = "look"]
    /\ UNCHANGED <<vault, stop, set, events>>

----------------------------------------------------------------------------
(* _auto_lock_loop()                                                       *)

TimerAt(i, from, to) ==
    /\ timer[i].at = from
    /\ timer' = [timer EXCEPT ![i].at = to]
    /\ UNCHANGED <<stop, set, events, call, overtaken, calls>>

\* Seeded fault: the event is looked up once, before the loop.
LookOnce(i) ==
    /\ timer[i].at = "look"
    /\ LET event == IF timer[i].event = NoEvent THEN stop ELSE timer[i].event
       IN  timer' = [timer EXCEPT ![i] = [at |-> IF event = NoEvent THEN "over" ELSE "wait",
                                          event |-> event]]
    /\ UNCHANGED <<vault, stop, set, events, call, overtaken, calls>>

Look(i) ==
    /\ timer[i].at = "look"
    /\ timer' = [timer EXCEPT ![i] = [at |-> IF stop = NoEvent THEN "over" ELSE "wait",
                                      event |-> stop]]
    /\ UNCHANGED <<vault, stop, set, events, call, overtaken, calls>>

\* stop.wait(30)
Wait(i) ==
    /\ TimerAt(i, "wait", IF timer[i].event \in set THEN "over" ELSE "check")
    /\ UNCHANGED vault

Check(i) ==
    /\ TimerAt(i, "check", CASE ~unlocked -> "look"
                              [] unlocked /\ fresh -> "last"
                              [] OTHER -> "lock")
    /\ UNCHANGED vault

\* What was found idle is locked, even if it has been used since.
Lock(i) ==
    /\ TimerAt(i, "lock", "last")
    /\ unlocked' = FALSE
    /\ UNCHANGED fresh

Last(i) ==
    /\ TimerAt(i, "last", IF stop = NoEvent THEN "over" ELSE "look")
    /\ UNCHANGED vault

\* auto_lock_minutes pass without activity.
Elapse ==
    /\ fresh
    /\ fresh' = FALSE
    /\ UNCHANGED <<unlocked, stop, set, events, timer, call, overtaken, calls>>

Handle(r) == StopTest(r) \/ StopSet(r) \/ StopClear(r) \/ NewEvent(r) \/ Spawn(r)

Loop(i) == Look(i) \/ Wait(i) \/ Check(i) \/ Lock(i) \/ Last(i)

Next ==
    \/ \E r \in Requests : Unlock(r) \/ LockVault(r) \/ Touch(r) \/ Handle(r)
    \/ \E i \in Timers : Loop(i)
    \/ Elapse

\* A call that has begun and a thread that has started go on in the end, and
\* time passes; nobody has to make a call.
Fairness ==
    /\ \A r \in Requests : WF_vars(Handle(r))
    /\ \A i \in Timers : WF_vars(Loop(i))
    /\ WF_vars(Elapse)

Spec == Init /\ [][Next]_vars /\ Fairness

----------------------------------------------------------------------------
(* Properties                                                              *)

\* Every variable stays in its domain, no event is set before it exists, and
\* no more threads are started than events made for them.
TypeOK ==
    /\ unlocked \in BOOLEAN /\ fresh \in BOOLEAN
    /\ events \in 0..MaxCalls /\ stop \in 0..events /\ set \subseteq 1..events
    /\ timer \in [Timers -> [at : {"unborn", "look", "wait", "check", "lock", "last", "over"},
                             event : 0..events]]
    /\ Cardinality({i \in Timers : timer[i].at # "unborn"}) <= events
    /\ call \in [Requests -> [of : {"none", "unlock", "lock"},
                              at : {"idle", "test", "set", "clear", "new", "spawn"}]]
    /\ overtaken \in BOOLEAN /\ calls \in 0..MaxCalls

\* Once the calls have ceased (they are bounded), the vault is locked in the
\* end and stays so: the timer of the last unlock is there to do it.
AutoLockLocks == <>[]~unlocked

\* Whatever was started, stopped and overtaken before, only an unlock that
\* begins while a lock is under way leaves a vault decrypted for good.
IdleVaultIsLocked == []~overtaken => AutoLockLocks

Running(i) == timer[i].at \notin {"unborn", "over"}

\* If the timer stays stopped, every timer thread ends: also those that missed
\* their event, which was replaced before they looked or never set.
StoppedTimersEnd == <>[](stop = NoEvent) => <>[](\A i \in Timers : ~Running(i))
=============================================================================
