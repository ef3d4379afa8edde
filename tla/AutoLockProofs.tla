--------------------------- MODULE AutoLockProofs ---------------------------
(***************************************************************************)
(* Proofs about AutoLock for any set of requests, finite or not, and any   *)
(* number of calls.                                                        *)
(***************************************************************************)
EXTENDS AutoLock, FiniteSetTheorems, TLAPS

CallSet == [of : {"none", "unlock", "lock"},
            at : {"idle", "test", "set", "clear", "new", "spawn"}]

\* Only an unlock makes an event and a thread.
CallsFit ==
    \A r \in Requests :
        /\ call[r].of = "none" <=> call[r].at = "idle"
        /\ call[r].at \in {"new", "spawn"} => call[r].of = "unlock"

Born == {i \in Timers : timer[i].at # "unborn"}
Spawning == {r \in Requests : call[r].at = "spawn"}
BeforeEvent == {r \in Requests : call[r].of = "unlock" /\ call[r].at # "spawn"}

\* Threads are born in order; each has an event of its own, and so has each that
\* is about to start; and each event, made or about to be, a call of its own.
Counted ==
    /\ Born = 1..Cardinality(Born)
    /\ IsFiniteSet(Spawning) /\ IsFiniteSet(BeforeEvent)
    /\ Cardinality(Born) + Cardinality(Spawning) <= events
    /\ events + Cardinality(BeforeEvent) <= calls

TInv == TypeOK /\ CallsFit /\ Counted

\* The counts are numbers.
LEMMA CountsAreNumbers ==
    ASSUME TInv
    PROVE  /\ Cardinality(Born) \in Nat /\ Cardinality(Spawning) \in Nat
           /\ Cardinality(BeforeEvent) \in Nat
           /\ events \in Nat /\ calls \in Nat /\ MaxCalls \in Nat
<1>1. Born \subseteq 1..MaxCalls
  BY DEF Born, Timers
<1>2. IsFiniteSet(Born)
  <2>1. IsFiniteSet(1..MaxCalls)
    BY FS_Interval, AutoLockAssumption
  <2> QED
    BY <1>1, <2>1, FS_Subset
<1>3. IsFiniteSet(Spawning) /\ IsFiniteSet(BeforeEvent)
  BY DEF TInv, Counted
<1>4. Cardinality(Born) \in Nat
  BY <1>2, FS_CardinalityType
<1>5. Cardinality(Spawning) \in Nat
  BY <1>3, FS_CardinalityType
<1>6. Cardinality(BeforeEvent) \in Nat
  BY <1>3, FS_CardinalityType
<1> QED
  BY <1>4, <1>5, <1>6, AutoLockAssumption DEF TInv, TypeOK

LEMMA TInit == Init => TInv
<1> SUFFICES ASSUME Init PROVE TInv
  OBVIOUS
<1>1. \A r \in Requests : call[r].of = "none" /\ call[r].at = "idle"
  BY DEF Init, Idle
<1>2. \A i \in Timers : timer[i].at = "unborn"
  BY DEF Init
<1>3. Born = {} /\ Spawning = {} /\ BeforeEvent = {}
  BY <1>1, <1>2 DEF Born, Spawning, BeforeEvent
<1>4. Cardinality({}) = 0 /\ IsFiniteSet({})
  BY FS_EmptySet
<1>5. events = 0 /\ calls = 0 /\ stop = 0 /\ set = {} /\ MaxCalls \in Nat
  BY AutoLockAssumption DEF Init, NoEvent
<1>6. Cardinality(Born) = 0
  BY <1>3, <1>4
<1>7. CallsFit
  BY <1>1 DEF CallsFit
<1>8. Counted
  <2>1. 1..0 = {}
    OBVIOUS
  <2>2. Born = 1..Cardinality(Born)
    BY <1>3, <1>6, <2>1
  <2>3. Cardinality(Born) + Cardinality(Spawning) = 0 /\ Cardinality(BeforeEvent) = 0
    BY <1>3, <1>4
  <2> QED
    BY <1>3, <1>4, <1>5, <2>2, <2>3 DEF Counted
<1>9. TypeOK
  <2>1. timer \in [Timers -> [at : {"unborn", "look", "wait", "check", "lock", "last", "over"},
                              event : 0..events]]
    BY <1>5 DEF Init, NoEvent
  <2>2. call \in [Requests -> CallSet]
    BY DEF Init, Idle, CallSet
  <2>3. Cardinality({i \in Timers : timer[i].at # "unborn"}) <= events
    BY <1>5, <1>6 DEF Born
  <2>4. unlocked \in BOOLEAN /\ fresh \in BOOLEAN /\ overtaken \in BOOLEAN
    BY DEF Init
  <2>5. events \in 0..MaxCalls /\ stop \in 0..events /\ set \subseteq 1..events /\ calls \in 0..MaxCalls
    BY <1>5
  <2> QED
    BY <2>1, <2>2, <2>3, <2>4, <2>5 DEF TypeOK, CallSet
<1> QED
  BY <1>7, <1>8, <1>9 DEF TInv

----------------------------------------------------------------------------
(* What a step of a request does to the calls                              *)

LEMMA BeginEffect ==
    ASSUME TInv, NEW r \in Requests, NEW of \in {"unlock", "lock"}, Begin(r, of)
    PROVE  /\ call[r].of = "none" /\ call[r].at = "idle"
           /\ call' \in [Requests -> CallSet]
           /\ call'[r].of = of /\ call'[r].at = "test"
           /\ \A q \in Requests \ {r} : call'[q] = call[q]
           /\ calls' = calls + 1 /\ calls' \in 0..MaxCalls
<1>1. call[r].of = "none" /\ call[r].at = "idle"
  BY DEF Begin, Idle
<1>2. call' = [call EXCEPT ![r] = [of |-> of, at |-> "test"]]
  BY DEF Begin
<1>3. call \in [Requests -> CallSet]
  BY DEF TInv, TypeOK, CallSet
<1>4. [of |-> of, at |-> "test"] \in CallSet
  BY DEF CallSet
<1>5. calls < MaxCalls /\ calls' = calls + 1
  BY DEF Begin
<1>6. calls' \in 0..MaxCalls
  BY <1>5, CountsAreNumbers
<1> QED
  BY <1>1, <1>2, <1>3, <1>4, <1>5, <1>6

LEMMA GotoEffect ==
    ASSUME TInv, NEW r \in Requests, NEW from,
           NEW to \in {"set", "clear", "new", "spawn", "idle"}, Goto(r, from, to)
    PROVE  /\ call[r].at = from
           /\ call' \in [Requests -> CallSet]
           /\ call'[r].at = to
           /\ call'[r].of = IF to = "idle" THEN "none" ELSE call[r].of
           /\ \A q \in Requests \ {r} : call'[q] = call[q]
           /\ UNCHANGED <<overtaken, calls>>
<1>1. call \in [Requests -> CallSet]
  BY DEF TInv, TypeOK, CallSet
<1>2. CASE to = "idle"
  <2>1. call' = [call EXCEPT ![r] = Idle]
    BY <1>2 DEF Goto
  <2>2. Idle \in CallSet /\ Idle.at = "idle" /\ Idle.of = "none"
    BY DEF Idle, CallSet
  <2> QED
    BY <1>1, <1>2, <2>1, <2>2 DEF Goto
<1>3. CASE to # "idle"
  <2>1. call' = [call EXCEPT ![r] = [call[r] EXCEPT !.at = to]]
    BY <1>1, <1>3 DEF Goto
  <2>2. call[r] \in CallSet
    BY <1>1
  <2>3. /\ [call[r] EXCEPT !.at = to] \in CallSet
        /\ [call[r] EXCEPT !.at = to].at = to
        /\ [call[r] EXCEPT !.at = to].of = call[r].of
    BY <2>2 DEF CallSet
  <2> QED
    BY <1>1, <1>3, <2>1, <2>3 DEF Goto
<1> QED
  BY <1>2, <1>3

\* A call that neither begins as an unlock, nor passes a count, leaves both as they are.
LEMMA SameCounts ==
    ASSUME TInv, NEW r \in Requests,
           \A q \in Requests \ {r} : call'[q] = call[q],
           call'[r].at = "spawn" <=> call[r].at = "spawn",
           r \in BeforeEvent <=> (call'[r].of = "unlock" /\ call'[r].at # "spawn")
    PROVE  Spawning' = Spawning /\ BeforeEvent' = BeforeEvent
<1>1. \A q \in Requests : call'[q].at = "spawn" <=> call[q].at = "spawn"
  OBVIOUS
<1>2. \A q \in Requests : (call'[q].of = "unlock" /\ call'[q].at # "spawn")
                             <=> (call[q].of = "unlock" /\ call[q].at # "spawn")
  BY DEF BeforeEvent
<1> QED
  BY <1>1, <1>2 DEF Spawning, BeforeEvent

\* The type invariant from its parts, for a step that starts no thread and makes no event.
LEMMA SameTimers ==
    ASSUME TInv, UNCHANGED <<timer, events>>,
           CallsFit', call' \in [Requests -> CallSet],
           unlocked' \in BOOLEAN, fresh' \in BOOLEAN, overtaken' \in BOOLEAN,
           stop' \in 0..events, set' \subseteq 1..events, calls' \in 0..MaxCalls,
           IsFiniteSet(Spawning'), IsFiniteSet(BeforeEvent'),
           Cardinality(Spawning') <= Cardinality(Spawning),
           events + Cardinality(BeforeEvent') <= calls'
    PROVE  TInv'
<1>1. Born' = Born
  BY DEF Born
<1>2. Cardinality(Born)' = Cardinality(Born)
  BY <1>1
<1>3. TypeOK'
  <2>1. Cardinality({i \in Timers : timer[i].at # "unborn"})' <= events'
    BY DEF TInv, TypeOK
  <2>2. call' \in [Requests -> [of : {"none", "unlock", "lock"},
                               at : {"idle", "test", "set", "clear", "new", "spawn"}]]
    BY DEF CallSet
  <2> QED
    BY <2>1, <2>2 DEF TInv, TypeOK
<1>4. Counted'
  <2>1. Cardinality(Spawning') \in Nat
    BY FS_CardinalityType
  <2>2. Cardinality(Born) + Cardinality(Spawning) <= events /\ Born = 1..Cardinality(Born)
    BY DEF TInv, Counted
  <2>3. Cardinality(Born) + Cardinality(Spawning') <= events
    BY <2>1, <2>2, CountsAreNumbers
  <2> QED
    BY <1>1, <2>2, <2>3 DEF Counted
<1> QED
  BY <1>3, <1>4 DEF TInv

\* The timer threads: a step of one leaves the others and everything counted alone.
LEMMA TimerEffect ==
    ASSUME TInv, NEW i \in Timers, NEW from,
           NEW to \in {"look", "check", "lock", "last", "over"}, TimerAt(i, from, to)
    PROVE  /\ timer[i].at = from
           /\ timer' \in [Timers -> [at : {"unborn", "look", "wait", "check", "lock", "last",
                                           "over"},
                                     event : 0..events]]
           /\ timer'[i].at = to
           /\ \A j \in Timers \ {i} : timer'[j] = timer[j]
           /\ UNCHANGED <<stop, set, events, call, overtaken, calls>>
BY DEF TimerAt, TInv, TypeOK

LEMMA SameRequests ==
    ASSUME TInv, NEW i \in Timers,
           timer[i].at # "unborn", timer'[i].at # "unborn",
           timer' \in [Timers -> [at : {"unborn", "look", "wait", "check", "lock", "last", "over"},
                                 event : 0..events]],
           \A j \in Timers \ {i} : timer'[j] = timer[j],
           unlocked' \in BOOLEAN, UNCHANGED <<fresh, stop, set, events, call, overtaken, calls>>
    PROVE  TInv'
<1>1. Born' = Born
  BY DEF Born
<1>2. Cardinality(Born)' = Cardinality(Born)
  BY <1>1
<1>3. Spawning' = Spawning /\ BeforeEvent' = BeforeEvent
  BY DEF Spawning, BeforeEvent
<1>4. CallsFit'
  BY DEF TInv, CallsFit
<1>5. Counted'
  BY <1>1, <1>2, <1>3 DEF TInv, Counted
<1>6. TypeOK'
  <2>1. Cardinality({j \in Timers : timer[j].at # "unborn"})' <= events'
    BY <1>2 DEF Born, TInv, TypeOK
  <2> QED
    BY <2>1 DEF TInv, TypeOK
<1> QED
  BY <1>4, <1>5, <1>6 DEF TInv

LEMMA LoopStep == ASSUME TInv, NEW i \in Timers, Loop(i) PROVE TInv'
<1>1. CASE Look(i)
  <2>1. /\ timer[i].at = "look" /\ UNCHANGED <<vault, stop, set, events, call, overtaken, calls>>
        /\ timer' = [timer EXCEPT ![i] = [at |-> IF stop = NoEvent THEN "over" ELSE "wait",
                                          event |-> stop]]
    BY <1>1 DEF Look
  <2>2. stop \in 0..events
    BY DEF TInv, TypeOK
  <2>3. /\ timer' \in [Timers -> [at : {"unborn", "look", "wait", "check", "lock", "last", "over"},
                                  event : 0..events]]
        /\ timer'[i].at # "unborn"
        /\ \A j \in Timers \ {i} : timer'[j] = timer[j]
    BY <2>1, <2>2 DEF TInv, TypeOK
  <2>4. unlocked' \in BOOLEAN
    BY <2>1 DEF vault, TInv, TypeOK
  <2> QED
    BY <2>1, <2>3, <2>4, SameRequests DEF vault
<1>2. CASE Wait(i)
  <2>1. PICK to \in {"over", "check"} : TimerAt(i, "wait", to) /\ UNCHANGED vault
    BY <1>2 DEF Wait
  <2>2. unlocked' \in BOOLEAN /\ UNCHANGED fresh
    BY <2>1 DEF vault, TInv, TypeOK
  <2> QED
    BY <2>1, <2>2, TimerEffect, SameRequests
<1>3. CASE Check(i)
  <2>1. PICK to \in {"look", "last", "lock"} : TimerAt(i, "check", to) /\ UNCHANGED vault
    BY <1>3 DEF Check, TInv, TypeOK
  <2>2. unlocked' \in BOOLEAN /\ UNCHANGED fresh
    BY <2>1 DEF vault, TInv, TypeOK
  <2> QED
    BY <2>1, <2>2, TimerEffect, SameRequests
<1>4. CASE Lock(i)
  <2>1. TimerAt(i, "lock", "last") /\ unlocked' = FALSE /\ UNCHANGED fresh
    BY <1>4 DEF Lock
  <2> QED
    BY <2>1, TimerEffect, SameRequests
<1>5. CASE Last(i)
  <2>1. PICK to \in {"over", "look"} : TimerAt(i, "last", to) /\ UNCHANGED vault
    BY <1>5 DEF Last
  <2>2. unlocked' \in BOOLEAN /\ UNCHANGED fresh
    BY <2>1 DEF vault, TInv, TypeOK
  <2> QED
    BY <2>1, <2>2, TimerEffect, SameRequests
<1> QED
  BY <1>1, <1>2, <1>3, <1>4, <1>5 DEF Loop

\* What a call that was idle adds to the counts: an unlock is about to make an event.
LEMMA BeginStep ==
    ASSUME TInv, NEW r \in Requests, NEW of \in {"unlock", "lock"}, Begin(r, of),
           unlocked' \in BOOLEAN, fresh' \in BOOLEAN, overtaken' \in BOOLEAN,
           UNCHANGED <<stop, set, events, timer>>
    PROVE  TInv'
<1>1. /\ call[r].of = "none" /\ call[r].at = "idle"
      /\ call' \in [Requests -> CallSet]
      /\ call'[r].of = of /\ call'[r].at = "test"
      /\ \A q \in Requests \ {r} : call'[q] = call[q]
      /\ calls' = calls + 1 /\ calls' \in 0..MaxCalls
  BY BeginEffect
<1>2. CallsFit'
  BY <1>1 DEF TInv, CallsFit
<1>3. Spawning' = Spawning
  BY <1>1 DEF Spawning
<1>4. BeforeEvent' \in {BeforeEvent, BeforeEvent \cup {r}}
  <2>1. CASE of = "unlock"
    BY <1>1, <2>1 DEF BeforeEvent
  <2>2. CASE of # "unlock"
    BY <1>1, <2>2 DEF BeforeEvent
  <2> QED
    BY <2>1, <2>2
<1>5. IsFiniteSet(BeforeEvent) /\ IsFiniteSet(Spawning) /\ events + Cardinality(BeforeEvent) <= calls
  BY DEF TInv, Counted
<1>6. /\ IsFiniteSet(BeforeEvent \cup {r})
      /\ Cardinality(BeforeEvent \cup {r}) \in {Cardinality(BeforeEvent), Cardinality(BeforeEvent) + 1}
  BY <1>5, FS_AddElement
<1>7. IsFiniteSet(BeforeEvent') /\ events + Cardinality(BeforeEvent') <= calls'
  <2>1. IsFiniteSet(BeforeEvent')
    BY <1>4, <1>5, <1>6
  <2>2. Cardinality(BeforeEvent') \in {Cardinality(BeforeEvent), Cardinality(BeforeEvent) + 1}
    BY <1>4, <1>6
  <2>3. Cardinality(BeforeEvent) \in Nat /\ events \in Nat /\ calls \in Nat
    BY CountsAreNumbers
  <2> QED
    BY <1>1, <1>5, <2>1, <2>2, <2>3
<1>8. Cardinality(Spawning') <= Cardinality(Spawning)
  BY <1>3, CountsAreNumbers
<1>9. stop' \in 0..events /\ set' \subseteq 1..events
  BY DEF TInv, TypeOK
<1> QED
  BY <1>1, <1>2, <1>3, <1>5, <1>7, <1>8, <1>9, SameTimers

LEMMA StopTestStep == ASSUME TInv, NEW r \in Requests, StopTest(r) PROVE TInv'
<1>1. PICK to \in {"clear", "set"} : Goto(r, "test", to) /\ UNCHANGED <<vault, stop, set, events, timer>>
  BY DEF StopTest
<1>2. /\ call[r].at = "test"
      /\ call' \in [Requests -> CallSet]
      /\ call'[r].at = to /\ call'[r].of = call[r].of
      /\ \A q \in Requests \ {r} : call'[q] = call[q]
      /\ UNCHANGED <<overtaken, calls>>
  BY <1>1, GotoEffect
<1>3. CallsFit'
  BY <1>2 DEF TInv, CallsFit
<1>4. Spawning' = Spawning /\ BeforeEvent' = BeforeEvent
  <2>1. r \in BeforeEvent <=> (call'[r].of = "unlock" /\ call'[r].at # "spawn")
    BY <1>2 DEF BeforeEvent
  <2> QED
    BY <1>2, <2>1, SameCounts
<1> QED
  <2>1. IsFiniteSet(Spawning) /\ IsFiniteSet(BeforeEvent) /\ events + Cardinality(BeforeEvent) <= calls
    BY DEF TInv, Counted
  <2>2. Cardinality(Spawning') <= Cardinality(Spawning)
    BY <1>4, CountsAreNumbers
  <2>3. /\ unlocked' \in BOOLEAN /\ fresh' \in BOOLEAN /\ overtaken' \in BOOLEAN
        /\ stop' \in 0..events /\ set' \subseteq 1..events /\ calls' \in 0..MaxCalls
    BY <1>1, <1>2 DEF vault, TInv, TypeOK
  <2> QED
    BY <1>1, <1>2, <1>3, <1>4, <2>1, <2>2, <2>3, SameTimers

\* Without its event a call ends here: an unlock then makes neither event nor thread.
LEMMA StopSetStep == ASSUME TInv, NEW r \in Requests, StopSet(r) PROVE TInv'
<1>1. PICK to \in {"idle", "clear"} :
          /\ Goto(r, "set", to) /\ UNCHANGED <<vault, stop, events, timer>>
          /\ set' = IF to = "idle" THEN set ELSE set \cup {stop}
          /\ to = "clear" => stop # NoEvent
  BY DEF StopSet
<1>2. /\ call[r].at = "set"
      /\ call' \in [Requests -> CallSet]
      /\ call'[r].at = to /\ call'[r].of = IF to = "idle" THEN "none" ELSE call[r].of
      /\ \A q \in Requests \ {r} : call'[q] = call[q]
      /\ UNCHANGED <<overtaken, calls>>
  BY <1>1, GotoEffect
<1>3. CallsFit'
  BY <1>2 DEF TInv, CallsFit
<1>4. Spawning' = Spawning
  BY <1>2 DEF Spawning
<1>5. BeforeEvent' \in {BeforeEvent, BeforeEvent \ {r}}
  <2>1. CASE to = "idle"
    BY <1>2, <2>1 DEF BeforeEvent
  <2>2. CASE to = "clear"
    <3>1. r \in BeforeEvent <=> (call'[r].of = "unlock" /\ call'[r].at # "spawn")
      BY <1>2, <2>2 DEF BeforeEvent
    <3> QED
      BY <1>2, <2>2, <3>1, SameCounts
  <2> QED
    BY <2>1, <2>2
<1>6. IsFiniteSet(Spawning) /\ IsFiniteSet(BeforeEvent) /\ events + Cardinality(BeforeEvent) <= calls
  BY DEF TInv, Counted
<1>7. /\ IsFiniteSet(BeforeEvent \ {r})
      /\ Cardinality(BeforeEvent \ {r}) \in {Cardinality(BeforeEvent), Cardinality(BeforeEvent) - 1}
  BY <1>6, FS_RemoveElement
<1>8. IsFiniteSet(BeforeEvent') /\ events + Cardinality(BeforeEvent') <= calls
  <2>1. IsFiniteSet(BeforeEvent')
    BY <1>5, <1>6, <1>7
  <2>2. Cardinality(BeforeEvent') \in {Cardinality(BeforeEvent), Cardinality(BeforeEvent) - 1}
    BY <1>5, <1>7
  <2>3. Cardinality(BeforeEvent) \in Nat /\ events \in Nat /\ calls \in Nat
    BY CountsAreNumbers
  <2> QED
    BY <1>6, <2>1, <2>2, <2>3
<1>9. set' \subseteq 1..events
  BY <1>1 DEF TInv, TypeOK, NoEvent
<1>10. Cardinality(Spawning') <= Cardinality(Spawning)
  BY <1>4, CountsAreNumbers
<1>11. /\ unlocked' \in BOOLEAN /\ fresh' \in BOOLEAN /\ overtaken' \in BOOLEAN
       /\ stop' \in 0..events /\ calls' \in 0..MaxCalls
  BY <1>1, <1>2 DEF vault, TInv, TypeOK
<1> QED
  BY <1>1, <1>2, <1>3, <1>4, <1>6, <1>8, <1>9, <1>10, <1>11, SameTimers

LEMMA StopClearStep == ASSUME TInv, NEW r \in Requests, StopClear(r) PROVE TInv'
<1>1. PICK to \in {"new", "idle"} :
          /\ Goto(r, "clear", to) /\ UNCHANGED <<vault, set, events, timer>>
          /\ stop' = NoEvent /\ (to = "new" <=> call[r].of = "unlock")
  BY DEF StopClear
<1>2. /\ call[r].at = "clear"
      /\ call' \in [Requests -> CallSet]
      /\ call'[r].at = to /\ call'[r].of = IF to = "idle" THEN "none" ELSE call[r].of
      /\ \A q \in Requests \ {r} : call'[q] = call[q]
      /\ UNCHANGED <<overtaken, calls>>
  BY <1>1, GotoEffect
<1>3. CallsFit'
  BY <1>1, <1>2 DEF TInv, CallsFit
<1>4. Spawning' = Spawning /\ BeforeEvent' = BeforeEvent
  <2>1. r \in BeforeEvent <=> (call'[r].of = "unlock" /\ call'[r].at # "spawn")
    BY <1>1, <1>2 DEF BeforeEvent
  <2> QED
    BY <1>2, <2>1, SameCounts
<1> QED
  <2>1. IsFiniteSet(Spawning) /\ IsFiniteSet(BeforeEvent) /\ events + Cardinality(BeforeEvent) <= calls
    BY DEF TInv, Counted
  <2>2. Cardinality(Spawning') <= Cardinality(Spawning)
    BY <1>4, CountsAreNumbers
  <2>3. /\ unlocked' \in BOOLEAN /\ fresh' \in BOOLEAN /\ overtaken' \in BOOLEAN
        /\ set' \subseteq 1..events /\ calls' \in 0..MaxCalls
    BY <1>1, <1>2 DEF vault, TInv, TypeOK
  <2>4. stop' \in 0..events
    BY <1>1, CountsAreNumbers DEF NoEvent
  <2> QED
    BY <1>1, <1>2, <1>3, <1>4, <2>1, <2>2, <2>3, <2>4, SameTimers

\* Making its event takes a call from one count to the other.
LEMMA NewEventStep == ASSUME TInv, NEW r \in Requests, NewEvent(r) PROVE TInv'
<1>1. /\ Goto(r, "new", "spawn") /\ UNCHANGED <<vault, set, timer>>
      /\ events' = events + 1 /\ stop' = events'
  BY DEF NewEvent
<1>2. /\ call[r].at = "new"
      /\ call' \in [Requests -> CallSet]
      /\ call'[r].at = "spawn" /\ call'[r].of = call[r].of
      /\ \A q \in Requests \ {r} : call'[q] = call[q]
      /\ UNCHANGED <<overtaken, calls>>
  BY <1>1, GotoEffect
<1>3. call[r].of = "unlock"
  BY <1>2 DEF TInv, CallsFit
<1>4. CallsFit'
  BY <1>2, <1>3 DEF TInv, CallsFit
<1>5. Spawning' = Spawning \cup {r} /\ r \notin Spawning
  BY <1>2 DEF Spawning
<1>6. BeforeEvent' = BeforeEvent \ {r} /\ r \in BeforeEvent
  BY <1>2, <1>3 DEF BeforeEvent
<1>7. /\ IsFiniteSet(Spawning) /\ IsFiniteSet(BeforeEvent) /\ Born = 1..Cardinality(Born)
      /\ Cardinality(Born) + Cardinality(Spawning) <= events
      /\ events + Cardinality(BeforeEvent) <= calls
  BY DEF TInv, Counted
<1>8. IsFiniteSet(Spawning') /\ Cardinality(Spawning') = Cardinality(Spawning) + 1
  BY <1>5, <1>7, FS_AddElement
<1>9. IsFiniteSet(BeforeEvent') /\ Cardinality(BeforeEvent') = Cardinality(BeforeEvent) - 1
  BY <1>6, <1>7, FS_RemoveElement
<1>10. Born' = Born /\ Cardinality(Born)' = Cardinality(Born)
  BY <1>1 DEF Born
<1>11. /\ Cardinality(Born) + Cardinality(Spawning') <= events'
       /\ events' + Cardinality(BeforeEvent') <= calls
  BY <1>1, <1>7, <1>8, <1>9, CountsAreNumbers
<1>12. Counted'
  BY <1>2, <1>7, <1>8, <1>9, <1>10, <1>11 DEF Counted
<1>13. events' \in 0..MaxCalls
  <2>1. Cardinality(BeforeEvent') \in Nat /\ calls <= MaxCalls
    BY <1>9, FS_CardinalityType DEF TInv, TypeOK
  <2> QED
    BY <1>1, <1>11, <2>1, CountsAreNumbers
<1>14. TypeOK'
  <2>1. stop' \in 0..events' /\ set' \subseteq 1..events' /\ 0..events \subseteq 0..events'
    BY <1>1, CountsAreNumbers DEF TInv, TypeOK
  <2>2. timer' \in [Timers -> [at : {"unborn", "look", "wait", "check", "lock", "last", "over"},
                               event : 0..events']]
    BY <1>1, <2>1 DEF TInv, TypeOK
  <2>3. Cardinality({i \in Timers : timer[i].at # "unborn"})' <= events'
    <3>1. Cardinality(Born) <= events'
      BY <1>1, <1>7, CountsAreNumbers
    <3> QED
      BY <1>10, <3>1 DEF Born
  <2>4. call' \in [Requests -> [of : {"none", "unlock", "lock"},
                               at : {"idle", "test", "set", "clear", "new", "spawn"}]]
    BY <1>2 DEF CallSet
  <2>5. unlocked' \in BOOLEAN /\ fresh' \in BOOLEAN /\ overtaken' \in BOOLEAN /\ calls' \in 0..MaxCalls
    BY <1>1, <1>2 DEF vault, TInv, TypeOK
  <2> QED
    BY <1>13, <2>1, <2>2, <2>3, <2>4, <2>5 DEF TypeOK
<1> QED
  BY <1>4, <1>12, <1>14 DEF TInv

\* A thread is left to be started: there are fewer of them than events.
LEMMA SpawnEffect ==
    ASSUME TInv, NEW r \in Requests, Spawn(r)
    PROVE  /\ Goto(r, "spawn", "idle") /\ UNCHANGED <<vault, stop, set, events>>
           /\ Cardinality(Born) + 1 \in Timers
           /\ Cardinality(Born) + Cardinality(Spawning) <= events
           /\ r \in Spawning /\ IsFiniteSet(Spawning) /\ Cardinality(Spawning) >= 1
           /\ timer' = [timer EXCEPT ![Cardinality(Born) + 1].at = "look"]
<1>1. /\ Goto(r, "spawn", "idle") /\ UNCHANGED <<vault, stop, set, events>>
      /\ timer' = [timer EXCEPT ![Cardinality(Born) + 1].at = "look"]
  BY DEF Spawn, Born
<1>2. r \in Spawning
  BY <1>1 DEF Goto, Spawning
<1>3. IsFiniteSet(Spawning) /\ Cardinality(Born) + Cardinality(Spawning) <= events
  BY DEF TInv, Counted
<1>4. Cardinality(Spawning) # 0
  BY <1>2, <1>3, FS_EmptySet
<1>5. Cardinality(Spawning) >= 1
  BY <1>4, CountsAreNumbers
<1>6. Cardinality(Born) + 1 <= MaxCalls
  <2>1. events <= MaxCalls
    BY AutoLockAssumption DEF TInv, TypeOK
  <2> QED
    BY <1>3, <1>5, <2>1, CountsAreNumbers
<1>7. Cardinality(Born) + 1 \in Timers
  BY <1>6, CountsAreNumbers DEF Timers
<1> QED
  BY <1>1, <1>2, <1>3, <1>5, <1>7

LEMMA SpawnStep == ASSUME TInv, NEW r \in Requests, Spawn(r) PROVE TInv'
<1> DEFINE b == Cardinality(Born)
<1>1. /\ Goto(r, "spawn", "idle") /\ UNCHANGED <<vault, stop, set, events>>
      /\ b + 1 \in Timers /\ b + Cardinality(Spawning) <= events
      /\ r \in Spawning /\ IsFiniteSet(Spawning) /\ Cardinality(Spawning) >= 1
      /\ timer' = [timer EXCEPT ![b + 1].at = "look"]
  BY SpawnEffect
<1>2. /\ call[r].at = "spawn"
      /\ call' \in [Requests -> CallSet]
      /\ call'[r].at = "idle" /\ call'[r].of = "none"
      /\ \A q \in Requests \ {r} : call'[q] = call[q]
      /\ UNCHANGED <<overtaken, calls>>
  BY <1>1, GotoEffect
<1>3. b \in Nat /\ events \in Nat /\ Cardinality(Spawning) \in Nat /\ Born = 1..b
  BY CountsAreNumbers DEF TInv, Counted
<1>4. CallsFit'
  BY <1>2 DEF TInv, CallsFit
<1>5. Spawning' = Spawning \ {r}
  BY <1>2 DEF Spawning
<1>6. BeforeEvent' = BeforeEvent
  BY <1>2 DEF BeforeEvent
<1>7. IsFiniteSet(Spawning') /\ Cardinality(Spawning') = Cardinality(Spawning) - 1
  BY <1>1, <1>5, FS_RemoveElement
<1> HIDE DEF b
<1>8. timer' \in [Timers -> [at : {"unborn", "look", "wait", "check", "lock", "last", "over"},
                            event : 0..events]]
  BY <1>1 DEF TInv, TypeOK
<1>9. Born' = 1..(b + 1)
  <2>1. timer'[b + 1].at = "look" /\ \A i \in Timers \ {b + 1} : timer'[i] = timer[i]
    BY <1>1 DEF TInv, TypeOK
  <2>2. Born' = Born \cup {b + 1}
    BY <1>1, <2>1 DEF Born
  <2> QED
    BY <1>3, <2>2
<1>10. Cardinality(Born') = b + 1
  BY <1>3, <1>9, FS_Interval
<1>11. Counted'
  <2>1. Cardinality(Born') + Cardinality(Spawning') <= events
    BY <1>1, <1>3, <1>7, <1>10
  <2>2. IsFiniteSet(BeforeEvent') /\ events + Cardinality(BeforeEvent') <= calls
    BY <1>6 DEF TInv, Counted
  <2> QED
    BY <1>1, <1>2, <1>7, <1>9, <1>10, <2>1, <2>2 DEF Counted
<1>12. TypeOK'
  <2>1. Cardinality({i \in Timers : timer[i].at # "unborn"})' <= events'
    BY <1>1, <1>3, <1>10 DEF Born
  <2>2. call' \in [Requests -> [of : {"none", "unlock", "lock"},
                               at : {"idle", "test", "set", "clear", "new", "spawn"}]]
    BY <1>2 DEF CallSet
  <2> QED
    BY <1>1, <1>2, <1>8, <2>1, <2>2 DEF vault, TInv, TypeOK
<1> QED
  BY <1>4, <1>11, <1>12 DEF TInv

LEMMA TStep == TInv /\ [Next]_vars => TInv'
<1> SUFFICES ASSUME TInv, [Next]_vars PROVE TInv'
  OBVIOUS
<1>1. ASSUME NEW r \in Requests, Unlock(r) PROVE TInv'
  <2>1. /\ Begin(r, "unlock") /\ UNCHANGED <<stop, set, events, timer>>
        /\ unlocked' \in BOOLEAN /\ fresh' \in BOOLEAN
    BY <1>1 DEF Unlock
  <2>2. overtaken' \in BOOLEAN
    BY <1>1 DEF Unlock, TInv, TypeOK
  <2> QED
    BY <2>1, <2>2, BeginStep
<1>2. ASSUME NEW r \in Requests, LockVault(r) PROVE TInv'
  <2>1. /\ Begin(r, "lock") /\ UNCHANGED <<stop, set, events, timer>>
        /\ unlocked' \in BOOLEAN /\ fresh' \in BOOLEAN /\ overtaken' \in BOOLEAN
    BY <1>2 DEF LockVault, TInv, TypeOK
  <2> QED
    BY <2>1, BeginStep
<1>3. ASSUME NEW r \in Requests, Touch(r) PROVE TInv'
  <2>1. /\ calls < MaxCalls /\ calls' = calls + 1 /\ fresh' = TRUE
        /\ UNCHANGED <<unlocked, stop, set, events, timer, call, overtaken>>
    BY <1>3 DEF Touch
  <2>2. CallsFit' /\ Spawning' = Spawning /\ BeforeEvent' = BeforeEvent
    BY <2>1 DEF TInv, CallsFit, Spawning, BeforeEvent
  <2>3. IsFiniteSet(Spawning) /\ IsFiniteSet(BeforeEvent) /\ events + Cardinality(BeforeEvent) <= calls
    BY DEF TInv, Counted
  <2>4. /\ calls' \in 0..MaxCalls /\ events + Cardinality(BeforeEvent') <= calls'
        /\ Cardinality(Spawning') <= Cardinality(Spawning)
    BY <2>1, <2>2, <2>3, CountsAreNumbers
  <2>5. /\ unlocked' \in BOOLEAN /\ fresh' \in BOOLEAN /\ overtaken' \in BOOLEAN
        /\ stop' \in 0..events /\ set' \subseteq 1..events /\ call' \in [Requests -> CallSet]
    BY <2>1 DEF CallSet, TInv, TypeOK
  <2> QED
    BY <2>1, <2>2, <2>3, <2>4, <2>5, SameTimers
<1>4. ASSUME NEW r \in Requests, Handle(r) PROVE TInv'
  BY <1>4, StopTestStep, StopSetStep, StopClearStep, NewEventStep, SpawnStep DEF Handle
<1>5. ASSUME NEW i \in Timers, Loop(i) PROVE TInv'
  BY <1>5, LoopStep
<1>6. CASE Elapse \/ UNCHANGED vars
  <2>1. /\ fresh' \in BOOLEAN
        /\ UNCHANGED <<unlocked, stop, set, events, timer, call, overtaken, calls>>
    BY <1>6 DEF Elapse, vars, vault, TInv, TypeOK
  <2>2. Counted'
    BY <2>1 DEF TInv, Counted, Born, Spawning, BeforeEvent
  <2>3. CallsFit'
    BY <2>1 DEF TInv, CallsFit
  <2>4. TypeOK'
    BY <2>1 DEF TInv, TypeOK
  <2> QED
    BY <2>2, <2>3, <2>4 DEF TInv
<1> QED
  BY <1>1, <1>2, <1>3, <1>4, <1>5, <1>6 DEF Next

\* The variables keep their domains, no event is set before it exists, and no
\* more threads are started than events made (_start_auto_lock_timer).
THEOREM SpecTypeOK == Spec => []TypeOK
<1>1. TInv => TypeOK
  BY DEF TInv
<1> QED
  BY TInit, TStep, <1>1, PTL DEF Spec

----------------------------------------------------------------------------
(* Who will lock a vault that is left alone                                *)

Watches(i) ==
    \/ timer[i].at \in {"look", "check", "lock", "last"}
    \/ timer[i].at = "wait" /\ timer[i].event \notin set

\* A decrypted vault always has somebody who will see to its locking: an unlock
\* that will start a thread, or a thread that no event tells to end.  This is
\* the invariant behind IdleVaultIsLocked.
UnlockedIsWatched ==
    ~overtaken /\ unlocked =>
        \/ \E r \in Requests : call[r].of = "unlock"
        \/ \E i \in Timers : Watches(i)

\* A lock that is still stopping timers has locked the vault.
NoLockIsLeft == ~overtaken /\ unlocked => \A r \in Requests : call[r].of # "lock"

\* No event has been dropped but by an unlock that has yet to make the next one.
DroppedForAnother ==
    ~overtaken /\ unlocked /\ stop = NoEvent =>
        \E r \in Requests : call[r].of = "unlock" /\ call[r].at \in {"test", "clear", "new"}

\* An event that is set is about to be dropped.
SetIsDropped ==
    stop # NoEvent /\ stop \in set => \E r \in Requests : call[r].at = "clear"

WInv == TInv /\ UnlockedIsWatched /\ NoLockIsLeft /\ DroppedForAnother /\ SetIsDropped

LEMMA WInit == Init => WInv
<1> SUFFICES ASSUME Init PROVE WInv
  OBVIOUS
<1>1. unlocked = FALSE /\ stop = NoEvent
  BY DEF Init
<1> QED
  BY <1>1, TInit DEF WInv, UnlockedIsWatched, NoLockIsLeft, DroppedForAnother, SetIsDropped

\* A step of a request before its last: the unlocks under way stay so.
LEMMA WatchedByCall ==
    ASSUME WInv, UNCHANGED <<unlocked, overtaken, set, timer>>,
           \A q \in Requests : call[q].of = "unlock" => call'[q].of = "unlock"
    PROVE  UnlockedIsWatched'
BY DEF WInv, UnlockedIsWatched, Watches

LEMMA BeginWatch ==
    ASSUME WInv, NEW r \in Requests, Unlock(r) \/ LockVault(r)
    PROVE  UnlockedIsWatched' /\ NoLockIsLeft' /\ DroppedForAnother' /\ SetIsDropped'
<1>1. PICK of \in {"unlock", "lock"} :
          /\ Begin(r, of) /\ UNCHANGED <<stop, set, timer>>
          /\ unlocked' = (of = "unlock")
          /\ of = "unlock" => (~overtaken' => \A q \in Requests : call[q].of # "lock")
  BY DEF Unlock, LockVault
<1>2. /\ call[r].at = "idle" /\ call'[r].of = of /\ call'[r].at = "test"
      /\ \A q \in Requests \ {r} : call'[q] = call[q]
  BY <1>1, BeginEffect DEF WInv
<1>3. SetIsDropped'
  BY <1>1, <1>2 DEF WInv, SetIsDropped
<1>4. UnlockedIsWatched'
  BY <1>1, <1>2 DEF UnlockedIsWatched
<1>5. NoLockIsLeft'
  BY <1>1, <1>2 DEF NoLockIsLeft
<1>6. DroppedForAnother'
  BY <1>1, <1>2 DEF DroppedForAnother
<1> QED
  BY <1>3, <1>4, <1>5, <1>6

LEMMA StopTestWatch ==
    ASSUME WInv, NEW r \in Requests, StopTest(r)
    PROVE  UnlockedIsWatched' /\ NoLockIsLeft' /\ DroppedForAnother' /\ SetIsDropped'
<1>1. PICK to \in {"clear", "set"} :
          /\ Goto(r, "test", to) /\ UNCHANGED <<vault, stop, set, timer>>
          /\ stop = NoEvent => to = "clear"
  BY DEF StopTest
<1>2. /\ call[r].at = "test" /\ call'[r].at = to /\ call'[r].of = call[r].of
      /\ \A q \in Requests \ {r} : call'[q] = call[q]
      /\ UNCHANGED <<overtaken, unlocked>>
  BY <1>1, GotoEffect DEF WInv, vault
<1>3. SetIsDropped'
  BY <1>1, <1>2 DEF WInv, SetIsDropped
<1>4. UnlockedIsWatched'
  BY <1>1, <1>2, WatchedByCall
<1>5. NoLockIsLeft'
  BY <1>1, <1>2 DEF WInv, NoLockIsLeft
<1>6. DroppedForAnother'
  BY <1>1, <1>2 DEF WInv, DroppedForAnother
<1> QED
  BY <1>3, <1>4, <1>5, <1>6

\* A call that finds its event gone ends here: the one that dropped it goes on.
LEMMA StopSetWatch ==
    ASSUME WInv, NEW r \in Requests, StopSet(r)
    PROVE  UnlockedIsWatched' /\ NoLockIsLeft' /\ DroppedForAnother' /\ SetIsDropped'
<1>1. PICK to \in {"idle", "clear"} :
          /\ Goto(r, "set", to) /\ UNCHANGED <<vault, stop, timer>>
          /\ to = "idle" => stop = NoEvent /\ UNCHANGED set
          /\ to = "clear" => stop # NoEvent
  BY DEF StopSet
<1>2. /\ call[r].at = "set" /\ call'[r].at = to
      /\ call'[r].of = IF to = "idle" THEN "none" ELSE call[r].of
      /\ \A q \in Requests \ {r} : call'[q] = call[q]
      /\ UNCHANGED <<overtaken, unlocked>>
  BY <1>1, GotoEffect DEF WInv, vault
<1>3. SetIsDropped'
  BY <1>1, <1>2 DEF SetIsDropped
<1>4. NoLockIsLeft'
  BY <1>1, <1>2 DEF WInv, NoLockIsLeft
<1>5. DroppedForAnother'
  BY <1>1, <1>2 DEF WInv, DroppedForAnother
<1>6. UnlockedIsWatched'
  <2>1. CASE to = "idle"
    <3> SUFFICES ASSUME ~overtaken', unlocked' PROVE \E q \in Requests : call'[q].of = "unlock"
      BY DEF UnlockedIsWatched
    <3> QED
      BY <1>1, <1>5, <2>1 DEF DroppedForAnother
  <2>2. CASE to = "clear"
    <3> SUFFICES ASSUME ~overtaken', unlocked' PROVE call'[r].of = "unlock"
      BY DEF UnlockedIsWatched
    <3>1. call[r].of # "lock" /\ call[r].of # "none"
      BY <1>2 DEF WInv, NoLockIsLeft, TInv, CallsFit
    <3>2. call[r].of \in {"none", "unlock", "lock"}
      BY DEF WInv, TInv, TypeOK
    <3> QED
      BY <1>2, <2>2, <3>1, <3>2
  <2> QED
    BY <2>1, <2>2
<1> QED
  BY <1>3, <1>4, <1>5, <1>6

LEMMA StopClearWatch ==
    ASSUME WInv, NEW r \in Requests, StopClear(r)
    PROVE  UnlockedIsWatched' /\ NoLockIsLeft' /\ DroppedForAnother' /\ SetIsDropped'
<1>1. PICK to \in {"new", "idle"} :
          /\ Goto(r, "clear", to) /\ UNCHANGED <<vault, set, timer>>
          /\ stop' = NoEvent /\ (call[r].of = "unlock" => to = "new")
  BY DEF StopClear
<1>2. /\ call[r].at = "clear" /\ call'[r].at = to
      /\ call'[r].of = IF to = "idle" THEN "none" ELSE call[r].of
      /\ \A q \in Requests \ {r} : call'[q] = call[q]
      /\ UNCHANGED <<overtaken, unlocked>>
  BY <1>1, GotoEffect DEF WInv, vault
<1>3. ~overtaken /\ unlocked => call[r].of = "unlock"
  <2>1. ~overtaken /\ unlocked => call[r].of # "lock"
    BY DEF WInv, NoLockIsLeft
  <2>2. call[r].of # "none" /\ call[r].of \in {"none", "unlock", "lock"}
    BY <1>2 DEF WInv, TInv, CallsFit, TypeOK
  <2> QED
    BY <2>1, <2>2
<1>4. SetIsDropped'
  BY <1>1 DEF SetIsDropped
<1>5. UnlockedIsWatched'
  BY <1>1, <1>2, <1>3 DEF UnlockedIsWatched
<1>6. NoLockIsLeft'
  BY <1>1, <1>2 DEF WInv, NoLockIsLeft
<1>7. DroppedForAnother'
  BY <1>1, <1>2, <1>3 DEF DroppedForAnother
<1> QED
  BY <1>4, <1>5, <1>6, <1>7

\* No event is set before it is made.
LEMMA NewEventWatch ==
    ASSUME WInv, NEW r \in Requests, NewEvent(r)
    PROVE  UnlockedIsWatched' /\ NoLockIsLeft' /\ DroppedForAnother' /\ SetIsDropped'
<1>1. /\ Goto(r, "new", "spawn") /\ UNCHANGED <<vault, set, timer>>
      /\ stop' = events + 1
  BY DEF NewEvent
<1>2. /\ call'[r].of = call[r].of
      /\ \A q \in Requests \ {r} : call'[q] = call[q]
      /\ UNCHANGED <<overtaken, unlocked>>
  BY <1>1, GotoEffect DEF WInv, vault
<1>3. stop' # NoEvent /\ stop' \notin set'
  BY <1>1, CountsAreNumbers DEF WInv, TInv, TypeOK, NoEvent
<1>4. SetIsDropped' /\ DroppedForAnother'
  BY <1>3 DEF SetIsDropped, DroppedForAnother
<1>5. UnlockedIsWatched'
  BY <1>1, <1>2, WatchedByCall
<1>6. NoLockIsLeft'
  BY <1>2 DEF WInv, NoLockIsLeft
<1> QED
  BY <1>4, <1>5, <1>6

LEMMA SpawnWatch ==
    ASSUME WInv, NEW r \in Requests, Spawn(r)
    PROVE  UnlockedIsWatched' /\ NoLockIsLeft' /\ DroppedForAnother' /\ SetIsDropped'
<1>1. /\ Goto(r, "spawn", "idle") /\ UNCHANGED <<vault, stop, set>>
      /\ Cardinality(Born) + 1 \in Timers
      /\ timer' = [timer EXCEPT ![Cardinality(Born) + 1].at = "look"]
  BY SpawnEffect DEF WInv
<1>2. /\ call[r].at = "spawn" /\ call'[r].at = "idle" /\ call'[r].of = "none"
      /\ \A q \in Requests \ {r} : call'[q] = call[q]
      /\ UNCHANGED <<overtaken, unlocked>>
  BY <1>1, GotoEffect DEF WInv, vault
<1>3. \E i \in Timers : timer'[i].at = "look"
  BY <1>1 DEF WInv, TInv, TypeOK
<1>4. UnlockedIsWatched'
  BY <1>3 DEF UnlockedIsWatched, Watches
<1>5. NoLockIsLeft'
  BY <1>2 DEF WInv, NoLockIsLeft
<1>6. DroppedForAnother'
  BY <1>1, <1>2 DEF WInv, DroppedForAnother
<1>7. SetIsDropped'
  BY <1>1, <1>2 DEF WInv, SetIsDropped
<1> QED
  BY <1>4, <1>5, <1>6, <1>7

\* A thread ends only when its event is set, or when there is none: then an
\* unlock is under way.
LEMMA LoopWatch ==
    ASSUME WInv, NEW i \in Timers, Loop(i)
    PROVE  UnlockedIsWatched' /\ NoLockIsLeft' /\ DroppedForAnother' /\ SetIsDropped'
<1>1. UNCHANGED <<stop, set, call, overtaken>> /\ (unlocked' => unlocked)
  BY DEF Loop, Look, Wait, Check, Lock, Last, TimerAt, vault
<1>2. NoLockIsLeft' /\ DroppedForAnother' /\ SetIsDropped'
  BY <1>1 DEF WInv, NoLockIsLeft, DroppedForAnother, SetIsDropped
<1>3. ASSUME ~overtaken, unlocked, unlocked', \A r \in Requests : call[r].of # "unlock"
      PROVE  Watches(i) => Watches(i)'
  <2>1. stop # NoEvent
    BY <1>3 DEF WInv, DroppedForAnother
  <2>2. stop \notin set
    <3>1. \A r \in Requests : call[r].of \in {"none", "unlock", "lock"} /\ call[r].of # "lock"
      BY <1>3 DEF WInv, NoLockIsLeft, TInv, TypeOK
    <3>2. \A r \in Requests : call[r].at = "idle"
      BY <1>3, <3>1 DEF WInv, TInv, CallsFit
    <3> QED
      BY <2>1, <3>2 DEF WInv, SetIsDropped
  <2>3. timer \in [Timers -> [at : {"unborn", "look", "wait", "check", "lock", "last", "over"},
                             event : 0..events]]
    BY DEF WInv, TInv, TypeOK
  <2>4. CASE Look(i)
    <3>1. timer'[i].at = "wait" /\ timer'[i].event = stop
      BY <2>1, <2>3, <2>4 DEF Look
    <3> QED
      BY <1>1, <2>2, <3>1 DEF Watches
  <2>5. CASE Wait(i)
    <3>1. timer[i].at = "wait" /\ timer'[i].at = IF timer[i].event \in set THEN "over" ELSE "check"
      BY <2>3, <2>5 DEF Wait, TimerAt
    <3> QED
      BY <3>1 DEF Watches
  <2>6. CASE Check(i)
    <3>1. timer'[i].at \in {"look", "last", "lock"}
      BY <2>3, <2>6 DEF Check, TimerAt
    <3> QED
      BY <3>1 DEF Watches
  <2>7. CASE Lock(i)
    BY <1>3, <2>7 DEF Lock
  <2>8. CASE Last(i)
    <3>1. timer'[i].at = "look"
      BY <2>1, <2>3, <2>8 DEF Last, TimerAt
    <3> QED
      BY <3>1 DEF Watches
  <2> QED
    BY <2>4, <2>5, <2>6, <2>7, <2>8 DEF Loop
<1>4. \A j \in Timers \ {i} : Watches(j) => Watches(j)'
  <2>1. \A j \in Timers \ {i} : timer'[j] = timer[j]
    BY DEF WInv, TInv, TypeOK, Loop, Look, Wait, Check, Lock, Last, TimerAt
  <2> QED
    BY <1>1, <2>1 DEF Watches
<1>5. UnlockedIsWatched'
  <2> SUFFICES ASSUME ~overtaken', unlocked', \A r \in Requests : call'[r].of # "unlock"
               PROVE  \E j \in Timers : Watches(j)'
    BY DEF UnlockedIsWatched
  <2>1. ~overtaken /\ unlocked /\ \A r \in Requests : call[r].of # "unlock"
    BY <1>1
  <2>2. PICK j \in Timers : Watches(j)
    BY <2>1 DEF WInv, UnlockedIsWatched
  <2> QED
    BY <1>3, <1>4, <2>1, <2>2
<1> QED
  BY <1>2, <1>5

LEMMA WStep == WInv /\ [Next]_vars => WInv'
<1> SUFFICES ASSUME WInv, [Next]_vars PROVE WInv'
  OBVIOUS
<1>1. TInv'
  BY TStep DEF WInv
<1>2. UnlockedIsWatched' /\ NoLockIsLeft' /\ DroppedForAnother' /\ SetIsDropped'
  <2>1. ASSUME NEW r \in Requests, Unlock(r) \/ LockVault(r)
        PROVE  UnlockedIsWatched' /\ NoLockIsLeft' /\ DroppedForAnother' /\ SetIsDropped'
    BY <2>1, BeginWatch
  <2>2. ASSUME NEW r \in Requests, Handle(r)
        PROVE  UnlockedIsWatched' /\ NoLockIsLeft' /\ DroppedForAnother' /\ SetIsDropped'
    BY <2>2, StopTestWatch, StopSetWatch, StopClearWatch, NewEventWatch, SpawnWatch DEF Handle
  <2>3. ASSUME NEW i \in Timers, Loop(i)
        PROVE  UnlockedIsWatched' /\ NoLockIsLeft' /\ DroppedForAnother' /\ SetIsDropped'
    BY <2>3, LoopWatch
  <2>4. CASE (\E r \in Requests : Touch(r)) \/ Elapse \/ UNCHANGED vars
    <3>1. UNCHANGED <<unlocked, stop, set, timer, call, overtaken>>
      BY <2>4 DEF Touch, Elapse, vars, vault
    <3> QED
      BY <3>1 DEF WInv, UnlockedIsWatched, Watches, NoLockIsLeft, DroppedForAnother, SetIsDropped
  <2> QED
    BY <2>1, <2>2, <2>3, <2>4 DEF Next
<1> QED
  BY <1>1, <1>2 DEF WInv

\* Unless an unlock begins while a lock is under way, an unlocked vault always
\* has an unlock or a timer thread left that will see to its locking, however
\* stops, starts and threads overtake each other (_start_auto_lock_timer,
\* _stop_auto_lock_timer, _auto_lock_loop).
THEOREM SpecUnlockedIsWatched == Spec => []UnlockedIsWatched
<1>1. WInv => UnlockedIsWatched
  BY DEF WInv
<1> QED
  BY WInit, WStep, <1>1, PTL DEF Spec
=============================================================================
