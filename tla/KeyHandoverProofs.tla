------------------------ MODULE KeyHandoverProofs ------------------------
(***************************************************************************)
(* Proofs about KeyHandover for any finite number of requests, any         *)
(* definitions and any of the kinds.                                       *)
(*                                                                         *)
(* What a request has left is the end of its plan, so the place it has     *)
(* reached says all of what it has done.  The places are numbered so that  *)
(* create_vault() has the same ones in a first run and in a creation, and  *)
(* Between(u, first, last) is a range of places (BetweenIs).               *)
(*                                                                         *)
(* TInv is the types, the plans and what a step relies on of its own       *)
(* request (Ready).  Safe is what holds as long as no two requests met     *)
(* where they can harm each other: how far each has got with its           *)
(* definition (Standing), the object it works on (Holding), its keys       *)
(* (Carrying, Showing), which requests exclude each other (Alone, Shut),   *)
(* and what is true of files and objects together (OneKey, Kept,           *)
(* Recorded, Reaches); Reopened adds that a password that was read to open *)
(* a vault with is the one in memory.  For each step Safe follows from     *)
(* what it does for its own request and from frame lemmas for the others.  *)
(***************************************************************************)
EXTENDS KeyHandover, FiniteSetTheorems, SequenceTheorems, TLAPS

----------------------------------------------------------------------------
(* Plans and places                                                        *)

StepNames == {
    "fresh", "admit", "shared", "compare", "point", "reset", "reopen", "decrypt", "restore",
    "get", "mint", "save", "adopt", "unlock", "install", "bundle", "pend",
    "consume", "data", "apply", "save_form", "audit", "open_session", "find", "show",
    "lock", "clear", "forget"}

\* The step a handler is at in its i-th place.  A first run is numbered so that the
\* steps of create_vault() have the same places in both kinds of creation.
End(kind) ==
    CASE kind = "setup" -> 18
      [] kind = "create" -> 20
      [] kind = "use" -> 7
      [] kind = "lock" -> 4
      [] kind = "auto_lock" -> 3

StepAt(kind, i) ==
    IF kind = "setup" THEN Setup[i - 3] ELSE Steps(kind)[i]

First(kind) == IF kind = "setup" THEN 4 ELSE 1

\* What a request of a kind has left is the end of its plan.
PlanOf(kind, s) ==
    IF kind = None THEN s = <<>>
    ELSE /\ End(kind) - Len(s) >= First(kind)
         /\ \A i \in 1..Len(s) : s[i] = StepAt(kind, End(kind) - Len(s) + i - 1)

Planned(t) == PlanOf(loc[t].kind, todo[t])

\* The place of the next step, End when the request is over.
Pos(t) == End(loc[t].kind) - Len(todo[t])

Going(t) == todo[t] # <<>>
IsA(t, kind) == loc[t].kind = kind
Creator(t) == IsA(t, "setup") \/ IsA(t, "create")

\* Creations, and first runs, between two places, counting the later one.
Creates(t, i, j) == IsA(t, "create") /\ Going(t) /\ i < Pos(t) /\ Pos(t) <= j
SetsUp(t, i, j) == IsA(t, "setup") /\ Going(t) /\ i < Pos(t) /\ Pos(t) <= j
Makes(t, i, j) == Creates(t, i, j) \/ SetsUp(t, i, j)

\* A request that has read the password to open a vault with, and is to write it back.
Reopens(t) == IsA(t, "use") /\ Going(t) /\ Pos(t) \in 5..6

Keyed == Keys \cup {None}
Locals == [kind : Kinds \cup {None}, name : Names \cup {None}, pw : Keyed,
           v : Objects \cup {None}, d : Objects \cup {None},
           shared : Keyed, agent : Keyed, recovery : Keyed]

SharedTypes ==
    /\ file \in [Names -> Data \cup {None}] /\ bundle \in [Names -> Keyed]
    /\ pointer \in Names /\ vault \in Objects \cup {None}
    /\ object \in [Objects -> [name : Names, data : Data \cup {None}]]
    /\ master \in Keyed /\ pending \in Keyed
    /\ session \in [Tasks -> Shows \cup {None}]
    /\ signed \in BOOLEAN /\ crossed \in BOOLEAN
    /\ seen \subseteq Keys /\ audited \subseteq Names

Types == SharedTypes /\ loc \in [Tasks -> Locals] /\ todo \in [Tasks -> Seq(StepNames)]

\* What the steps of a request rely on of its own.
Ready(t) ==
    /\ Going(t) => loc[t].name \in Names /\ loc[t].pw \in Keys
    /\ IsA(t, "setup") => loc[t].name = Default /\ loc[t].shared = None /\ loc[t].pw = t
    /\ ~Creator(t) => session[t] = None /\ loc[t].recovery = None
    /\ Makes(t, 5, 20) \/ Reopens(t) => loc[t].v \in Objects
    /\ Creates(t, 14, 15) => loc[t].d \in Objects
    /\ Makes(t, 7, 12) => file[object[loc[t].v].name] # None

TInv == Types /\ \A t \in Tasks : Planned(t) /\ Ready(t)

\* The places of two sequences one after the other.
LEMMA Joined ==
    ASSUME NEW p \in Seq(StepNames), NEW q \in Seq(StepNames)
    PROVE  /\ p \o q \in Seq(StepNames) /\ Len(p \o q) = Len(p) + Len(q)
           /\ \A i \in 1..Len(p) : (p \o q)[i] = p[i]
           /\ \A i \in 1..Len(q) : (p \o q)[Len(p) + i] = q[i]
OBVIOUS

\* The steps of create_vault() one by one.
LEMMA CreateVaultIs ==
    /\ CreateVault \in Seq(StepNames) /\ Len(CreateVault) = 8
    /\ CreateVault[1] = "get" /\ CreateVault[2] = "mint" /\ CreateVault[3] = "save"
    /\ CreateVault[4] = "adopt" /\ CreateVault[5] = "unlock" /\ CreateVault[6] = "install"
    /\ CreateVault[7] = "bundle" /\ CreateVault[8] = "pend"
BY DEF CreateVault, StepNames

\* The steps of a first run one by one.
LEMMA SetupIs ==
    /\ Setup \in Seq(StepNames) /\ Len(Setup) = 14
    /\ Setup[1] = "fresh"
    /\ Setup[2] = "get" /\ Setup[3] = "mint" /\ Setup[4] = "save" /\ Setup[5] = "adopt"
    /\ Setup[6] = "unlock" /\ Setup[7] = "install" /\ Setup[8] = "bundle" /\ Setup[9] = "pend"
    /\ Setup[10] = "open_session" /\ Setup[11] = "find" /\ Setup[12] = "consume"
    /\ Setup[13] = "show" /\ Setup[14] = "audit"
<1> DEFINE a == <<"fresh">>
           b == <<"open_session", "find", "consume", "show", "audit">>
           c == a \o CreateVault
           r == c \o b
<1>1. a \in Seq(StepNames) /\ Len(a) = 1 /\ a[1] = "fresh"
  BY DEF StepNames
<1>2. /\ b \in Seq(StepNames) /\ Len(b) = 5 /\ b[1] = "open_session" /\ b[2] = "find"
      /\ b[3] = "consume" /\ b[4] = "show" /\ b[5] = "audit"
  BY DEF StepNames
<1>3. Setup = r
  BY DEF Setup
<1> HIDE DEF r
<1> HIDE DEF a, b
<1>4. /\ c \in Seq(StepNames) /\ Len(c) = 9
      /\ \A i \in 1..1 : c[i] = a[i]
      /\ \A i \in 1..8 : c[1 + i] = CreateVault[i]
  <2>1. /\ c \in Seq(StepNames) /\ Len(c) = Len(a) + Len(CreateVault)
        /\ \A i \in 1..Len(a) : c[i] = a[i]
        /\ \A i \in 1..Len(CreateVault) : c[Len(a) + i] = CreateVault[i]
    <3> HIDE DEF c
    <3>1. a \in Seq(StepNames) /\ CreateVault \in Seq(StepNames)
      BY <1>1, CreateVaultIs
    <3> QED
      BY <3>1, Joined DEF c
  <2> HIDE DEF c
  <2> QED
    BY <1>1, <2>1, CreateVaultIs
<1> HIDE DEF c
<1>5. /\ c[1] = "fresh" /\ c[1 + 1] = "get" /\ c[1 + 2] = "mint" /\ c[1 + 3] = "save"
      /\ c[1 + 4] = "adopt" /\ c[1 + 5] = "unlock" /\ c[1 + 6] = "install"
      /\ c[1 + 7] = "bundle" /\ c[1 + 8] = "pend"
  BY <1>1, <1>4, CreateVaultIs
<1>6. /\ Setup \in Seq(StepNames) /\ Len(Setup) = 14
      /\ \A i \in 1..9 : Setup[i] = c[i]
      /\ \A i \in 1..5 : Setup[9 + i] = b[i]
  <2>1. /\ r \in Seq(StepNames) /\ Len(r) = Len(c) + Len(b)
        /\ \A i \in 1..Len(c) : r[i] = c[i]
        /\ \A i \in 1..Len(b) : r[Len(c) + i] = b[i]
    <3>1. c \in Seq(StepNames) /\ b \in Seq(StepNames)
      BY <1>2, <1>4
    <3> QED
      BY <3>1, Joined DEF r
  <2> QED
    BY <1>2, <1>3, <1>4, <2>1
<1>7. /\ Setup[9 + 1] = "open_session" /\ Setup[9 + 2] = "find" /\ Setup[9 + 3] = "consume"
      /\ Setup[9 + 4] = "show" /\ Setup[9 + 5] = "audit"
  BY <1>2, <1>6
<1> QED
  BY <1>5, <1>6, <1>7

\* The steps of a creation from the definitions page one by one.
LEMMA CreateIs ==
    /\ Create \in Seq(StepNames) /\ Len(Create) = 19
    /\ Create[1] = "admit" /\ Create[2] = "shared" /\ Create[3] = "point" /\ Create[4] = "reset"
    /\ Create[5] = "get" /\ Create[6] = "mint" /\ Create[7] = "save" /\ Create[8] = "adopt"
    /\ Create[9] = "unlock" /\ Create[10] = "install" /\ Create[11] = "bundle"
    /\ Create[12] = "pend" /\ Create[13] = "consume" /\ Create[14] = "data"
    /\ Create[15] = "apply" /\ Create[16] = "save_form" /\ Create[17] = "audit"
    /\ Create[18] = "open_session" /\ Create[19] = "show"
<1> DEFINE a == <<"admit", "shared", "point", "reset">>
           b == <<"consume", "data", "apply", "save_form", "audit", "open_session", "show">>
           c == a \o CreateVault
           r == c \o b
<1>1. /\ a \in Seq(StepNames) /\ Len(a) = 4
      /\ a[1] = "admit" /\ a[2] = "shared" /\ a[3] = "point" /\ a[4] = "reset"
  BY DEF StepNames
<1>2. /\ b \in Seq(StepNames) /\ Len(b) = 7 /\ b[1] = "consume" /\ b[2] = "data" /\ b[3] = "apply"
      /\ b[4] = "save_form" /\ b[5] = "audit" /\ b[6] = "open_session" /\ b[7] = "show"
  BY DEF StepNames
<1>3. Create = r
  BY DEF Create
<1> HIDE DEF r
<1> HIDE DEF a, b
<1>4. /\ c \in Seq(StepNames) /\ Len(c) = 12
      /\ \A i \in 1..4 : c[i] = a[i]
      /\ \A i \in 1..8 : c[4 + i] = CreateVault[i]
  <2>1. /\ c \in Seq(StepNames) /\ Len(c) = Len(a) + Len(CreateVault)
        /\ \A i \in 1..Len(a) : c[i] = a[i]
        /\ \A i \in 1..Len(CreateVault) : c[Len(a) + i] = CreateVault[i]
    <3> HIDE DEF c
    <3>1. a \in Seq(StepNames) /\ CreateVault \in Seq(StepNames)
      BY <1>1, CreateVaultIs
    <3> QED
      BY <3>1, Joined DEF c
  <2> HIDE DEF c
  <2> QED
    BY <1>1, <2>1, CreateVaultIs
<1> HIDE DEF c
<1>5. /\ c[1] = "admit" /\ c[2] = "shared" /\ c[3] = "point" /\ c[4] = "reset"
      /\ c[4 + 1] = "get" /\ c[4 + 2] = "mint" /\ c[4 + 3] = "save"
      /\ c[4 + 4] = "adopt" /\ c[4 + 5] = "unlock" /\ c[4 + 6] = "install"
      /\ c[4 + 7] = "bundle" /\ c[4 + 8] = "pend"
  BY <1>1, <1>4, CreateVaultIs
<1>6. /\ Create \in Seq(StepNames) /\ Len(Create) = 19
      /\ \A i \in 1..12 : Create[i] = c[i]
      /\ \A i \in 1..7 : Create[12 + i] = b[i]
  <2>1. /\ r \in Seq(StepNames) /\ Len(r) = Len(c) + Len(b)
        /\ \A i \in 1..Len(c) : r[i] = c[i]
        /\ \A i \in 1..Len(b) : r[Len(c) + i] = b[i]
    <3>1. c \in Seq(StepNames) /\ b \in Seq(StepNames)
      BY <1>2, <1>4
    <3> QED
      BY <3>1, Joined DEF r
  <2> QED
    BY <1>2, <1>3, <1>4, <2>1
<1>7. /\ Create[12 + 1] = "consume" /\ Create[12 + 2] = "data" /\ Create[12 + 3] = "apply"
      /\ Create[12 + 4] = "save_form" /\ Create[12 + 5] = "audit"
      /\ Create[12 + 6] = "open_session" /\ Create[12 + 7] = "show"
  <2>1. Create[12 + 1] = b[1] /\ Create[12 + 2] = b[2] /\ Create[12 + 3] = b[3]
    BY <1>6
  <2>2. Create[12 + 4] = b[4] /\ Create[12 + 5] = b[5]
    BY <1>6
  <2>3. Create[12 + 6] = b[6] /\ Create[12 + 7] = b[7]
    BY <1>6
  <2> QED
    BY <1>2, <2>1, <2>2, <2>3
<1>8. /\ Create[1] = "admit" /\ Create[2] = "shared" /\ Create[3] = "point"
      /\ Create[4] = "reset" /\ Create[5] = "get" /\ Create[6] = "mint"
  BY <1>5, <1>6
<1>9. /\ Create[7] = "save" /\ Create[8] = "adopt" /\ Create[9] = "unlock"
      /\ Create[10] = "install" /\ Create[11] = "bundle" /\ Create[12] = "pend"
  BY <1>5, <1>6
<1> QED
  BY <1>6, <1>7, <1>8, <1>9

\* The places of all steps.
LEMMA StepTable ==
    /\ End("create") = 20 /\ First("create") = 1
    /\ StepAt("create", 1) = "admit" /\ StepAt("create", 2) = "shared"
    /\ StepAt("create", 3) = "point" /\ StepAt("create", 4) = "reset"
    /\ StepAt("create", 5) = "get" /\ StepAt("create", 6) = "mint"
    /\ StepAt("create", 7) = "save" /\ StepAt("create", 8) = "adopt"
    /\ StepAt("create", 9) = "unlock" /\ StepAt("create", 10) = "install"
    /\ StepAt("create", 11) = "bundle" /\ StepAt("create", 12) = "pend"
    /\ StepAt("create", 13) = "consume" /\ StepAt("create", 14) = "data"
    /\ StepAt("create", 15) = "apply" /\ StepAt("create", 16) = "save_form"
    /\ StepAt("create", 17) = "audit" /\ StepAt("create", 18) = "open_session"
    /\ StepAt("create", 19) = "show"
    /\ End("setup") = 18 /\ First("setup") = 4
    /\ StepAt("setup", 4) = "fresh"
    /\ StepAt("setup", 5) = "get" /\ StepAt("setup", 6) = "mint"
    /\ StepAt("setup", 7) = "save" /\ StepAt("setup", 8) = "adopt"
    /\ StepAt("setup", 9) = "unlock" /\ StepAt("setup", 10) = "install"
    /\ StepAt("setup", 11) = "bundle" /\ StepAt("setup", 12) = "pend"
    /\ StepAt("setup", 13) = "open_session" /\ StepAt("setup", 14) = "find"
    /\ StepAt("setup", 15) = "consume" /\ StepAt("setup", 16) = "show"
    /\ StepAt("setup", 17) = "audit"
    /\ End("use") = 7 /\ First("use") = 1
    /\ StepAt("use", 1) = "compare" /\ StepAt("use", 2) = "point"
    /\ StepAt("use", 3) = "reset" /\ StepAt("use", 4) = "reopen"
    /\ StepAt("use", 5) = "decrypt" /\ StepAt("use", 6) = "restore"
    /\ End("lock") = 4 /\ First("lock") = 1
    /\ StepAt("lock", 1) = "lock" /\ StepAt("lock", 2) = "clear" /\ StepAt("lock", 3) = "forget"
    /\ End("auto_lock") = 3 /\ First("auto_lock") = 1
    /\ StepAt("auto_lock", 1) = "lock" /\ StepAt("auto_lock", 2) = "clear"
<1>1. /\ Steps("setup") = Setup /\ Steps("create") = Create
      /\ Steps("use") = <<"compare", "point", "reset", "reopen", "decrypt", "restore">>
      /\ Steps("lock") = <<"lock", "clear", "forget">>
      /\ Steps("auto_lock") = <<"lock", "clear">>
  BY DEF Steps
<1>2. /\ End("create") = 20 /\ First("create") = 1 /\ End("setup") = 18 /\ First("setup") = 4
      /\ End("use") = 7 /\ First("use") = 1 /\ End("lock") = 4 /\ First("lock") = 1
      /\ End("auto_lock") = 3 /\ First("auto_lock") = 1
  BY DEF End, First
<1>3. \A i : StepAt("create", i) = Create[i]
  BY <1>1 DEF StepAt
<1>4. \A i : StepAt("setup", i) = Setup[i - 3]
  BY <1>1 DEF StepAt
<1>5. /\ StepAt("use", 1) = "compare" /\ StepAt("use", 2) = "point"
      /\ StepAt("use", 3) = "reset" /\ StepAt("use", 4) = "reopen"
      /\ StepAt("use", 5) = "decrypt" /\ StepAt("use", 6) = "restore"
  BY <1>1 DEF StepAt
<1>6. /\ StepAt("lock", 1) = "lock" /\ StepAt("lock", 2) = "clear" /\ StepAt("lock", 3) = "forget"
  BY <1>1 DEF StepAt
<1>7. StepAt("auto_lock", 1) = "lock" /\ StepAt("auto_lock", 2) = "clear"
  BY <1>1 DEF StepAt
<1>8. /\ StepAt("setup", 4) = "fresh"
      /\ StepAt("setup", 5) = "get" /\ StepAt("setup", 6) = "mint"
      /\ StepAt("setup", 7) = "save" /\ StepAt("setup", 8) = "adopt"
      /\ StepAt("setup", 9) = "unlock" /\ StepAt("setup", 10) = "install"
      /\ StepAt("setup", 11) = "bundle" /\ StepAt("setup", 12) = "pend"
      /\ StepAt("setup", 13) = "open_session" /\ StepAt("setup", 14) = "find"
      /\ StepAt("setup", 15) = "consume" /\ StepAt("setup", 16) = "show"
      /\ StepAt("setup", 17) = "audit"
  BY <1>4, SetupIs
<1> QED
  BY <1>2, <1>3, <1>5, <1>6, <1>7, <1>8, CreateIs

\* Each step has its place.
LEMMA Places ==
    ASSUME NEW k \in Kinds, NEW i \in Int, First(k) <= i, i < End(k), NEW step, step = StepAt(k, i)
    PROVE  /\ step \in StepNames
           /\ step = "fresh" => k = "setup" /\ i = 4
           /\ step = "admit" => k = "create" /\ i = 1
           /\ step = "shared" => k = "create" /\ i = 2
           /\ step = "compare" => k = "use" /\ i = 1
           /\ step = "point" => \/ k = "create" /\ i = 3
                                \/ k = "use" /\ i = 2
           /\ step = "reset" => \/ k = "create" /\ i = 4
                                \/ k = "use" /\ i = 3
           /\ step = "reopen" => k = "use" /\ i = 4
           /\ step = "decrypt" => k = "use" /\ i = 5
           /\ step = "restore" => k = "use" /\ i = 6
           /\ step = "get" => k \in {"create", "setup"} /\ i = 5
           /\ step = "mint" => k \in {"create", "setup"} /\ i = 6
           /\ step = "save" => k \in {"create", "setup"} /\ i = 7
           /\ step = "adopt" => k \in {"create", "setup"} /\ i = 8
           /\ step = "unlock" => k \in {"create", "setup"} /\ i = 9
           /\ step = "install" => k \in {"create", "setup"} /\ i = 10
           /\ step = "bundle" => k \in {"create", "setup"} /\ i = 11
           /\ step = "pend" => k \in {"create", "setup"} /\ i = 12
           /\ step = "consume" => \/ k = "create" /\ i = 13
                                  \/ k = "setup" /\ i = 15
           /\ step = "data" => k = "create" /\ i = 14
           /\ step = "apply" => k = "create" /\ i = 15
           /\ step = "save_form" => k = "create" /\ i = 16
           /\ step = "audit" => k \in {"create", "setup"} /\ i = 17
           /\ step = "open_session" => \/ k = "create" /\ i = 18
                                       \/ k = "setup" /\ i = 13
           /\ step = "find" => k = "setup" /\ i = 14
           /\ step = "show" => \/ k = "create" /\ i = 19
                               \/ k = "setup" /\ i = 16
           /\ step = "lock" => \/ k = "lock" /\ i = 1
                               \/ k = "auto_lock" /\ i = 1
           /\ step = "clear" => \/ k = "lock" /\ i = 2
                                \/ k = "auto_lock" /\ i = 2
           /\ step = "forget" => k = "lock" /\ i = 3
<1>1. k \in {"setup", "create", "use", "lock", "auto_lock"}
  BY KeyHandoverAssumption
<1>2. CASE k = "setup"
  <2>1. i \in {4, 5, 6, 7, 8, 9, 10, 11, 12, 13, 14, 15, 16, 17}
    BY <1>2, StepTable
  <2> QED
    BY <1>2, <2>1, StepTable DEF StepNames
<1>3. CASE k = "create"
  <2>1. i \in {1, 2, 3, 4, 5, 6, 7, 8, 9, 10, 11, 12, 13, 14, 15, 16, 17, 18, 19}
    BY <1>3, StepTable
  <2> QED
    BY <1>3, <2>1, StepTable DEF StepNames
<1>4. CASE k \in {"use", "lock", "auto_lock"}
  <2>1. i \in {1, 2, 3, 4, 5, 6}
    BY <1>4, StepTable
  <2> QED
    BY <1>4, <2>1, StepTable DEF StepNames
<1> QED
  BY <1>1, <1>2, <1>3, <1>4

\* A request is at the place of its next step.
LEMMA Where ==
    ASSUME TInv, NEW t \in Tasks, NEW step, At(t, step)
    PROVE  /\ Going(t) /\ loc[t].kind \in Kinds
           /\ step = "fresh" => IsA(t, "setup") /\ Pos(t) = 4
           /\ step = "admit" => IsA(t, "create") /\ Pos(t) = 1
           /\ step = "shared" => IsA(t, "create") /\ Pos(t) = 2
           /\ step = "compare" => IsA(t, "use") /\ Pos(t) = 1
           /\ step = "point" => \/ IsA(t, "create") /\ Pos(t) = 3
                                \/ IsA(t, "use") /\ Pos(t) = 2
           /\ step = "reset" => \/ IsA(t, "create") /\ Pos(t) = 4
                                \/ IsA(t, "use") /\ Pos(t) = 3
           /\ step = "reopen" => IsA(t, "use") /\ Pos(t) = 4
           /\ step = "decrypt" => IsA(t, "use") /\ Pos(t) = 5
           /\ step = "restore" => IsA(t, "use") /\ Pos(t) = 6
           /\ step = "get" => Creator(t) /\ Pos(t) = 5
           /\ step = "mint" => Creator(t) /\ Pos(t) = 6
           /\ step = "save" => Creator(t) /\ Pos(t) = 7
           /\ step = "adopt" => Creator(t) /\ Pos(t) = 8
           /\ step = "unlock" => Creator(t) /\ Pos(t) = 9
           /\ step = "install" => Creator(t) /\ Pos(t) = 10
           /\ step = "bundle" => Creator(t) /\ Pos(t) = 11
           /\ step = "pend" => Creator(t) /\ Pos(t) = 12
           /\ step = "consume" => \/ IsA(t, "create") /\ Pos(t) = 13
                                  \/ IsA(t, "setup") /\ Pos(t) = 15
           /\ step = "data" => IsA(t, "create") /\ Pos(t) = 14
           /\ step = "apply" => IsA(t, "create") /\ Pos(t) = 15
           /\ step = "save_form" => IsA(t, "create") /\ Pos(t) = 16
           /\ step = "audit" => Creator(t) /\ Pos(t) = 17
           /\ step = "open_session" => \/ IsA(t, "create") /\ Pos(t) = 18
                                       \/ IsA(t, "setup") /\ Pos(t) = 13
           /\ step = "find" => IsA(t, "setup") /\ Pos(t) = 14
           /\ step = "show" => \/ IsA(t, "create") /\ Pos(t) = 19
                               \/ IsA(t, "setup") /\ Pos(t) = 16
           /\ step = "lock" => \/ IsA(t, "lock") /\ Pos(t) = 1
                               \/ IsA(t, "auto_lock") /\ Pos(t) = 1
           /\ step = "clear" => \/ IsA(t, "lock") /\ Pos(t) = 2
                                \/ IsA(t, "auto_lock") /\ Pos(t) = 2
           /\ step = "forget" => IsA(t, "lock") /\ Pos(t) = 3
<1> DEFINE k == loc[t].kind
           p == Pos(t)
<1>1. /\ todo[t] \in Seq(StepNames) /\ todo[t] # <<>> /\ step = Head(todo[t])
      /\ Planned(t) /\ k \in Kinds \cup {None}
  BY DEF TInv, Types, Locals, At
<1>2. Len(todo[t]) \in Nat /\ Len(todo[t]) >= 1 /\ Head(todo[t]) = todo[t][1] /\ 1 \in 1..Len(todo[t])
  BY <1>1
<1>3. k \in Kinds /\ k # None /\ k \in {"setup", "create", "use", "lock", "auto_lock"}
  BY <1>1, KeyHandoverAssumption DEF Planned, PlanOf
<1>4. End(k) \in Nat /\ First(k) \in Nat
  BY <1>3 DEF End, First
<1>5. p >= First(k) /\ p \in Nat /\ p < End(k) /\ todo[t][1] = StepAt(k, p + 1 - 1)
  BY <1>1, <1>2, <1>3, <1>4 DEF Planned, PlanOf, Pos
<1>6. First(k) <= p /\ p \in Int /\ p < End(k) /\ step = StepAt(k, p)
  BY <1>1, <1>2, <1>4, <1>5
<1>7. Going(t) /\ \A x : IsA(t, x) <=> k = x
  BY <1>1 DEF Going, IsA
<1> HIDE DEF k, p
<1> QED
  BY <1>3, <1>6, <1>7, Places DEF Creator, k, p

\* The places of the two kinds of creation, which a split on the kind need not expand.
LEMMA Ends == /\ End("create") = 20 /\ First("create") = 1
              /\ End("setup") = 18 /\ First("setup") = 4
              /\ End("use") = 7 /\ First("use") = 1
              /\ End("lock") = 4 /\ First("lock") = 1
              /\ End("auto_lock") = 3 /\ First("auto_lock") = 1
BY DEF End, First

\* A kind of request has a first place and an end.
LEMMA KindIs == ASSUME NEW k \in Kinds
                PROVE  /\ k \in {"setup", "create", "use", "lock", "auto_lock"} /\ k # None
                       /\ End(k) \in Nat /\ First(k) \in Nat /\ First(k) < End(k)
BY KeyHandoverAssumption, Ends

\* A step is left of a plan if its place has not been passed.
LEMMA Left ==
    ASSUME NEW k \in Kinds, NEW s \in Seq(StepNames), PlanOf(k, s), NEW x
    PROVE  x \in ToSet(s) <=> \E i \in Int : End(k) - Len(s) <= i /\ i < End(k) /\ StepAt(k, i) = x
<1> DEFINE p == End(k) - Len(s)
<1>1. /\ k # None /\ First(k) <= p /\ Len(s) \in Nat /\ p \in Nat /\ Len(s) = End(k) - p
      /\ End(k) \in Nat
  BY KindIs DEF PlanOf
<1>2. \A j \in 1..Len(s) : s[j] = StepAt(k, p + j - 1)
  BY <1>1 DEF PlanOf
<1> HIDE DEF p
<1>3. ASSUME NEW j \in 1..Len(s), s[j] = x
      PROVE  \E i \in Int : p <= i /\ i < End(k) /\ StepAt(k, i) = x
  <2>1. p + j - 1 \in Int /\ p <= p + j - 1 /\ p + j - 1 < End(k)
    BY <1>1
  <2> QED
    BY <1>2, <1>3, <2>1
<1>4. ASSUME NEW i \in Int, p <= i, i < End(k), StepAt(k, i) = x
      PROVE  \E j \in 1..Len(s) : s[j] = x
  <2>1. i - p + 1 \in 1..Len(s) /\ p + (i - p + 1) - 1 = i
    BY <1>1, <1>4
  <2> QED
    BY <1>2, <1>4, <2>1
<1>5. x \in ToSet(s) <=> \E j \in 1..Len(s) : s[j] = x
  BY DEF ToSet
<1> QED
  BY <1>3, <1>4, <1>5 DEF p

\* A request begins with the whole of its plan, at its first place.
LEMMA PlanBegins ==
    ASSUME NEW k \in Kinds
    PROVE  Steps(k) \in Seq(StepNames) /\ PlanOf(k, Steps(k)) /\ End(k) - Len(Steps(k)) = First(k)
<1>1. /\ Steps("setup") = Setup /\ Steps("create") = Create
      /\ Steps("use") = <<"compare", "point", "reset", "reopen", "decrypt", "restore">>
      /\ Steps("lock") = <<"lock", "clear", "forget">>
      /\ Steps("auto_lock") = <<"lock", "clear">>
  BY DEF Steps
<1>2. Steps(k) \in Seq(StepNames) /\ End(k) - Len(Steps(k)) = First(k) /\ Len(Steps(k)) \in Nat
  <2>1. CASE k \in {"setup", "create"}
    <3>1. /\ Setup \in Seq(StepNames) /\ Len(Setup) = 14
          /\ Create \in Seq(StepNames) /\ Len(Create) = 19
      BY SetupIs, CreateIs
    <3>2. CASE k = "setup"
      <4>1. End(k) = 18 /\ First(k) = 4 /\ Steps(k) = Setup
        BY <1>1, <3>2, Ends
      <4>2. Steps(k) \in Seq(StepNames) /\ Len(Steps(k)) = 14
        BY <3>1, <4>1
      <4> QED
        BY <4>1, <4>2
    <3>3. CASE k = "create"
      <4>1. End(k) = 20 /\ First(k) = 1 /\ Steps(k) = Create
        BY <1>1, <3>3, Ends
      <4>2. Steps(k) \in Seq(StepNames) /\ Len(Steps(k)) = 19
        BY <3>1, <4>1
      <4> QED
        BY <4>1, <4>2
    <3> QED
      BY <2>1, <3>2, <3>3
  <2>2. CASE k = "use"
    <3> DEFINE q == <<"compare", "point", "reset", "reopen", "decrypt", "restore">>
    <3>1. q \in Seq(StepNames) /\ Len(q) = 6
      BY DEF StepNames
    <3>2. Steps(k) = q
      BY <1>1, <2>2
    <3> HIDE DEF q
    <3>3. End(k) = 7 /\ First(k) = 1
      BY <2>2, Ends
    <3>4. Steps(k) \in Seq(StepNames) /\ Len(Steps(k)) = 6
      BY <3>1, <3>2
    <3> QED
      BY <3>3, <3>4
  <2>3. CASE k = "lock"
    <3> DEFINE q == <<"lock", "clear", "forget">>
    <3>1. q \in Seq(StepNames) /\ Len(q) = 3
      BY DEF StepNames
    <3>2. Steps(k) = q
      BY <1>1, <2>3
    <3> HIDE DEF q
    <3>3. End(k) = 4 /\ First(k) = 1
      BY <2>3, Ends
    <3>4. Steps(k) \in Seq(StepNames) /\ Len(Steps(k)) = 3
      BY <3>1, <3>2
    <3> QED
      BY <3>3, <3>4
  <2>4. CASE k = "auto_lock"
    <3> DEFINE q == <<"lock", "clear">>
    <3>1. q \in Seq(StepNames) /\ Len(q) = 2
      BY DEF StepNames
    <3>2. Steps(k) = q
      BY <1>1, <2>4
    <3> HIDE DEF q
    <3>3. End(k) = 3 /\ First(k) = 1
      BY <2>4, Ends
    <3>4. Steps(k) \in Seq(StepNames) /\ Len(Steps(k)) = 2
      BY <3>1, <3>2
    <3> QED
      BY <3>3, <3>4
  <2> QED
    BY <2>1, <2>2, <2>3, <2>4, KindIs
<1>3. ASSUME NEW i \in 1..Len(Steps(k)) PROVE Steps(k)[i] = StepAt(k, First(k) + i - 1)
  <2>1. CASE k = "setup"
    <3> DEFINE j == First(k) + i - 1
    <3>1. j - 3 = i
      BY <2>1, <1>2, Ends
    <3> HIDE DEF j
    <3>2. \A n : StepAt("setup", n) = Setup[n - 3]
      BY DEF StepAt
    <3>3. StepAt("setup", j) = Setup[i]
      BY <3>1, <3>2
    <3>4. Steps(k) = Setup
      BY <1>1, <2>1
    <3> QED
      BY <2>1, <3>3, <3>4 DEF j
  <2>2. CASE k # "setup"
    <3>1. First(k) + i - 1 = i
      <4>1. First(k) = 1 /\ i \in Int
        BY <2>2, <1>2, KindIs, Ends
      <4> QED
        BY <4>1
    <3> QED
      BY <2>2, <3>1 DEF StepAt
  <2> QED
    BY <2>1, <2>2
<1> QED
  BY <1>2, <1>3, KindIs DEF PlanOf

\* One of the steps of a plan has been taken, another is left.
After(kind, s, first, last) ==
    last \in ToSet(s) /\ first \in ToSet(Steps(kind)) \ ToSet(s)

\* Where in its plan a request is then.
Spanned(k, s, p) ==
    /\ After(k, s, "mint", "adopt") <=> k \in {"create", "setup"} /\ s # <<>> /\ p \in 7..8
    /\ After(k, s, "get", "pend") <=> k \in {"create", "setup"} /\ s # <<>> /\ p \in 6..12
    /\ After(k, s, "bundle", "pend") <=> k \in {"create", "setup"} /\ s # <<>> /\ p = 12
    /\ After(k, s, "admit", "shared") <=> k = "create" /\ s # <<>> /\ p = 2
    /\ After(k, s, "admit", "save_form") <=> k = "create" /\ s # <<>> /\ p \in 2..16
    /\ After(k, s, "point", "save_form") <=> k = "create" /\ s # <<>> /\ p \in 4..16
    /\ After(k, s, "fresh", "get") <=> k = "setup" /\ s # <<>> /\ p = 5
    /\ After(k, s, "fresh", "install") <=> k = "setup" /\ s # <<>> /\ p \in 5..10
    /\ After(k, s, "lock", "forget") <=> k = "lock" /\ s # <<>> /\ p \in 2..3
    /\ After(k, s, "reopen", "restore") <=> k = "use" /\ s # <<>> /\ p \in 5..6
    /\ After(k, s, "pend", "consume") <=> \/ k = "create" /\ s # <<>> /\ p = 13
                                          \/ k = "setup" /\ s # <<>> /\ p \in 13..15
    /\ After(k, s, "open_session", "show") <=> \/ k = "create" /\ s # <<>> /\ p = 19
                                               \/ k = "setup" /\ s # <<>> /\ p \in 14..16

\* The plan is left out of sight where only places count.
LEMMA Spans ==
    ASSUME NEW k, NEW s, NEW p
    PROVE  /\ k \in Kinds \cup {None} /\ s \in Seq(StepNames)
           /\ PlanOf(k, s) /\ p = End(k) - Len(s)
           => Spanned(k, s, p)
<1>0. SUFFICES ASSUME k \in Kinds \cup {None}, s \in Seq(StepNames), PlanOf(k, s),
                      p = End(k) - Len(s)
               PROVE  Spanned(k, s, p)
  OBVIOUS
<1>1. CASE k = None \/ s = <<>>
  <2>1. s = <<>>
    BY <1>0, <1>1 DEF PlanOf
  <2>2. ToSet(s) = {}
    BY <2>1 DEF ToSet
  <2> QED
    BY <2>1, <2>2 DEF After, Spanned
<1>2. CASE k # None /\ s # <<>>
  <2> DEFINE T == ToSet(Steps(k))
             S == ToSet(s)
  <2>1. /\ k \in Kinds /\ End(k) \in Nat /\ First(k) \in Nat
        /\ k \in {"setup", "create", "use", "lock", "auto_lock"}
    BY <1>0, <1>2, KindIs
  <2>2. p \in Nat /\ First(k) <= p /\ p < End(k)
    <3>1. Len(s) \in Nat /\ Len(s) >= 1
      BY <1>0, <1>2
    <3> QED
      BY <1>0, <1>2, <2>1, <3>1 DEF PlanOf
  <2>3. \A x : x \in S <=> \E i \in Int : p <= i /\ i < End(k) /\ StepAt(k, i) = x
    BY <1>0, <2>1, Left
  <2>4. \A x : x \in T <=> \E i \in Int : First(k) <= i /\ i < End(k) /\ StepAt(k, i) = x
    BY <2>1, Left, PlanBegins
  <2>10. ASSUME NEW x \in S PROVE x \in T
    <3>1. PICK i \in Int : p <= i /\ i < End(k) /\ StepAt(k, i) = x
      BY <2>3
    <3>2. First(k) <= i
      BY <2>1, <2>2, <3>1
    <3> QED
      BY <2>4, <3>1, <3>2
  <2>5. \A x, y : After(k, s, x, y) <=> y \in S /\ x \in T \ S
    BY DEF After
  <2>11. \A x, y : x \in T => (After(k, s, x, y) <=> y \in S /\ x \notin S)
    BY <2>5
  <2>12. \A x, y : x \notin T \/ y \notin T => ~After(k, s, x, y)
    BY <2>5, <2>10
  <2> HIDE DEF S, T
  <2>6. CASE k = "create"
    <3>0. End(k) = 20 /\ First(k) = 1
      BY <2>6, Ends
    <3>1. End(k) = 20 /\ First(k) = 1 /\ p \in 1..19
      BY <2>2, <3>0
    <3>2. ASSUME NEW i \in Int, First(k) <= i, i < End(k)
          PROVE  /\ StepAt(k, i) = "admit" => i = 1
                 /\ StepAt(k, i) = "shared" => i = 2
                 /\ StepAt(k, i) = "point" => i = 3
                 /\ StepAt(k, i) = "get" => i = 5
                 /\ StepAt(k, i) = "mint" => i = 6
                 /\ StepAt(k, i) = "adopt" => i = 8
                 /\ StepAt(k, i) = "install" => i = 10
                 /\ StepAt(k, i) = "bundle" => i = 11
                 /\ StepAt(k, i) = "pend" => i = 12
                 /\ StepAt(k, i) = "consume" => i = 13
                 /\ StepAt(k, i) = "save_form" => i = 16
                 /\ StepAt(k, i) = "open_session" => i = 18
                 /\ StepAt(k, i) = "show" => i = 19
                 /\ StepAt(k, i) # "fresh"
                 /\ StepAt(k, i) # "lock"
                 /\ StepAt(k, i) # "forget"
                 /\ StepAt(k, i) # "restore"
      BY <2>1, <2>6, <3>2, Places
    <3>3. /\ StepAt(k, 1) = "admit"
          /\ StepAt(k, 2) = "shared"
          /\ StepAt(k, 3) = "point"
          /\ StepAt(k, 5) = "get"
          /\ StepAt(k, 6) = "mint"
          /\ StepAt(k, 8) = "adopt"
          /\ StepAt(k, 10) = "install"
          /\ StepAt(k, 11) = "bundle"
          /\ StepAt(k, 12) = "pend"
          /\ StepAt(k, 13) = "consume"
          /\ StepAt(k, 16) = "save_form"
          /\ StepAt(k, 18) = "open_session"
          /\ StepAt(k, 19) = "show"
      BY <2>6, StepTable
    <3>admit. "admit" \in T /\ ("admit" \in S <=> p <= 1)
      BY <2>3, <2>4, <3>1, <3>2, <3>3
    <3>shared. "shared" \in T /\ ("shared" \in S <=> p <= 2)
      BY <2>3, <2>4, <3>1, <3>2, <3>3
    <3>point. "point" \in T /\ ("point" \in S <=> p <= 3)
      BY <2>3, <2>4, <3>1, <3>2, <3>3
    <3>get. "get" \in T /\ ("get" \in S <=> p <= 5)
      BY <2>3, <2>4, <3>1, <3>2, <3>3
    <3>mint. "mint" \in T /\ ("mint" \in S <=> p <= 6)
      BY <2>3, <2>4, <3>1, <3>2, <3>3
    <3>adopt. "adopt" \in T /\ ("adopt" \in S <=> p <= 8)
      BY <2>3, <2>4, <3>1, <3>2, <3>3
    <3>install. "install" \in T /\ ("install" \in S <=> p <= 10)
      BY <2>3, <2>4, <3>1, <3>2, <3>3
    <3>bundle. "bundle" \in T /\ ("bundle" \in S <=> p <= 11)
      BY <2>3, <2>4, <3>1, <3>2, <3>3
    <3>pend. "pend" \in T /\ ("pend" \in S <=> p <= 12)
      BY <2>3, <2>4, <3>1, <3>2, <3>3
    <3>consume. "consume" \in T /\ ("consume" \in S <=> p <= 13)
      BY <2>3, <2>4, <3>1, <3>2, <3>3
    <3>save_form. "save_form" \in T /\ ("save_form" \in S <=> p <= 16)
      BY <2>3, <2>4, <3>1, <3>2, <3>3
    <3>open_session. "open_session" \in T /\ ("open_session" \in S <=> p <= 18)
      BY <2>3, <2>4, <3>1, <3>2, <3>3
    <3>show. "show" \in T /\ ("show" \in S <=> p <= 19)
      BY <2>3, <2>4, <3>1, <3>2, <3>3
    <3>5. "fresh" \notin T /\ "lock" \notin T /\ "forget" \notin T /\ "restore" \notin T
      BY <2>4, <3>2
    <3>7. /\ After(k, s, "mint", "adopt") <=> p \in 7..8
          /\ After(k, s, "get", "pend") <=> p \in 6..12
          /\ After(k, s, "bundle", "pend") <=> p = 12
          /\ After(k, s, "admit", "shared") <=> p = 2
          /\ After(k, s, "admit", "save_form") <=> p \in 2..16
          /\ After(k, s, "point", "save_form") <=> p \in 4..16
          /\ ~After(k, s, "fresh", "get")
          /\ ~After(k, s, "fresh", "install")
          /\ ~After(k, s, "lock", "forget")
          /\ After(k, s, "pend", "consume") <=> p = 13
          /\ After(k, s, "open_session", "show") <=> p = 19
          /\ ~After(k, s, "reopen", "restore")
      <4>1. After(k, s, "mint", "adopt") <=> p \in 7..8
        BY <2>11, <3>1, <3>mint, <3>adopt
      <4>2. After(k, s, "get", "pend") <=> p \in 6..12
        BY <2>11, <3>1, <3>get, <3>pend
      <4>3. After(k, s, "bundle", "pend") <=> p = 12
        BY <2>11, <3>1, <3>bundle, <3>pend
      <4>4. After(k, s, "admit", "shared") <=> p = 2
        BY <2>11, <3>1, <3>admit, <3>shared
      <4>5. After(k, s, "admit", "save_form") <=> p \in 2..16
        BY <2>11, <3>1, <3>admit, <3>save_form
      <4>6. After(k, s, "point", "save_form") <=> p \in 4..16
        BY <2>11, <3>1, <3>point, <3>save_form
      <4>7. ~After(k, s, "fresh", "get")
        BY <2>12, <3>5
      <4>8. ~After(k, s, "fresh", "install")
        BY <2>12, <3>5
      <4>9. ~After(k, s, "lock", "forget")
        BY <2>12, <3>5
      <4>10. After(k, s, "pend", "consume") <=> p = 13
        BY <2>11, <3>1, <3>pend, <3>consume
      <4>11. After(k, s, "open_session", "show") <=> p = 19
        BY <2>11, <3>1, <3>open_session, <3>show
      <4>12. ~After(k, s, "reopen", "restore")
        BY <2>12, <3>5
      <4> QED
        BY <4>1, <4>2, <4>3, <4>4, <4>5, <4>6, <4>7, <4>8, <4>9, <4>10, <4>11, <4>12
    <3> QED
      BY <1>2, <2>6, <3>7 DEF Spanned
  <2>7. CASE k = "setup"
    <3>0. End(k) = 18 /\ First(k) = 4
      BY <2>7, Ends
    <3>1. End(k) = 18 /\ First(k) = 4 /\ p \in 4..17
      BY <2>2, <3>0
    <3>2. ASSUME NEW i \in Int, First(k) <= i, i < End(k)
          PROVE  /\ StepAt(k, i) = "fresh" => i = 4
                 /\ StepAt(k, i) = "get" => i = 5
                 /\ StepAt(k, i) = "mint" => i = 6
                 /\ StepAt(k, i) = "adopt" => i = 8
                 /\ StepAt(k, i) = "install" => i = 10
                 /\ StepAt(k, i) = "bundle" => i = 11
                 /\ StepAt(k, i) = "pend" => i = 12
                 /\ StepAt(k, i) = "open_session" => i = 13
                 /\ StepAt(k, i) = "consume" => i = 15
                 /\ StepAt(k, i) = "show" => i = 16
                 /\ StepAt(k, i) # "admit"
                 /\ StepAt(k, i) # "shared"
                 /\ StepAt(k, i) # "point"
                 /\ StepAt(k, i) # "save_form"
                 /\ StepAt(k, i) # "lock"
                 /\ StepAt(k, i) # "forget"
                 /\ StepAt(k, i) # "restore"
      BY <2>1, <2>7, <3>2, Places
    <3>3. /\ StepAt(k, 4) = "fresh"
          /\ StepAt(k, 5) = "get"
          /\ StepAt(k, 6) = "mint"
          /\ StepAt(k, 8) = "adopt"
          /\ StepAt(k, 10) = "install"
          /\ StepAt(k, 11) = "bundle"
          /\ StepAt(k, 12) = "pend"
          /\ StepAt(k, 13) = "open_session"
          /\ StepAt(k, 15) = "consume"
          /\ StepAt(k, 16) = "show"
      BY <2>7, StepTable
    <3>fresh. "fresh" \in T /\ ("fresh" \in S <=> p <= 4)
      BY <2>3, <2>4, <3>1, <3>2, <3>3
    <3>get. "get" \in T /\ ("get" \in S <=> p <= 5)
      BY <2>3, <2>4, <3>1, <3>2, <3>3
    <3>mint. "mint" \in T /\ ("mint" \in S <=> p <= 6)
      BY <2>3, <2>4, <3>1, <3>2, <3>3
    <3>adopt. "adopt" \in T /\ ("adopt" \in S <=> p <= 8)
      BY <2>3, <2>4, <3>1, <3>2, <3>3
    <3>install. "install" \in T /\ ("install" \in S <=> p <= 10)
      BY <2>3, <2>4, <3>1, <3>2, <3>3
    <3>bundle. "bundle" \in T /\ ("bundle" \in S <=> p <= 11)
      BY <2>3, <2>4, <3>1, <3>2, <3>3
    <3>pend. "pend" \in T /\ ("pend" \in S <=> p <= 12)
      BY <2>3, <2>4, <3>1, <3>2, <3>3
    <3>open_session. "open_session" \in T /\ ("open_session" \in S <=> p <= 13)
      BY <2>3, <2>4, <3>1, <3>2, <3>3
    <3>consume. "consume" \in T /\ ("consume" \in S <=> p <= 15)
      BY <2>3, <2>4, <3>1, <3>2, <3>3
    <3>show. "show" \in T /\ ("show" \in S <=> p <= 16)
      BY <2>3, <2>4, <3>1, <3>2, <3>3
    <3>5. "admit" \notin T /\ "shared" \notin T /\ "point" \notin T /\ "save_form" \notin T /\ "lock" \notin T /\ "forget" \notin T /\ "restore" \notin T
      BY <2>4, <3>2
    <3>7. /\ After(k, s, "mint", "adopt") <=> p \in 7..8
          /\ After(k, s, "get", "pend") <=> p \in 6..12
          /\ After(k, s, "bundle", "pend") <=> p = 12
          /\ ~After(k, s, "admit", "shared")
          /\ ~After(k, s, "admit", "save_form")
          /\ ~After(k, s, "point", "save_form")
          /\ After(k, s, "fresh", "get") <=> p = 5
          /\ After(k, s, "fresh", "install") <=> p \in 5..10
          /\ ~After(k, s, "lock", "forget")
          /\ After(k, s, "pend", "consume") <=> p \in 13..15
          /\ After(k, s, "open_session", "show") <=> p \in 14..16
          /\ ~After(k, s, "reopen", "restore")
      <4>1. After(k, s, "mint", "adopt") <=> p \in 7..8
        BY <2>11, <3>1, <3>mint, <3>adopt
      <4>2. After(k, s, "get", "pend") <=> p \in 6..12
        BY <2>11, <3>1, <3>get, <3>pend
      <4>3. After(k, s, "bundle", "pend") <=> p = 12
        BY <2>11, <3>1, <3>bundle, <3>pend
      <4>4. ~After(k, s, "admit", "shared")
        BY <2>12, <3>5
      <4>5. ~After(k, s, "admit", "save_form")
        BY <2>12, <3>5
      <4>6. ~After(k, s, "point", "save_form")
        BY <2>12, <3>5
      <4>7. After(k, s, "fresh", "get") <=> p = 5
        BY <2>11, <3>1, <3>fresh, <3>get
      <4>8. After(k, s, "fresh", "install") <=> p \in 5..10
        BY <2>11, <3>1, <3>fresh, <3>install
      <4>9. ~After(k, s, "lock", "forget")
        BY <2>12, <3>5
      <4>10. After(k, s, "pend", "consume") <=> p \in 13..15
        BY <2>11, <3>1, <3>pend, <3>consume
      <4>11. After(k, s, "open_session", "show") <=> p \in 14..16
        BY <2>11, <3>1, <3>open_session, <3>show
      <4>12. ~After(k, s, "reopen", "restore")
        BY <2>12, <3>5
      <4> QED
        BY <4>1, <4>2, <4>3, <4>4, <4>5, <4>6, <4>7, <4>8, <4>9, <4>10, <4>11, <4>12
    <3> QED
      BY <1>2, <2>7, <3>7 DEF Spanned
  <2>8. CASE k = "lock"
    <3>0. End(k) = 4 /\ First(k) = 1
      BY <2>8, Ends
    <3>1. End(k) = 4 /\ First(k) = 1 /\ p \in 1..3
      BY <2>2, <3>0
    <3>2. ASSUME NEW i \in Int, First(k) <= i, i < End(k)
          PROVE  /\ StepAt(k, i) = "lock" => i = 1
                 /\ StepAt(k, i) = "forget" => i = 3
                 /\ StepAt(k, i) # "adopt"
                 /\ StepAt(k, i) # "pend"
                 /\ StepAt(k, i) # "save_form"
                 /\ StepAt(k, i) # "get"
                 /\ StepAt(k, i) # "shared"
                 /\ StepAt(k, i) # "install"
                 /\ StepAt(k, i) # "consume"
                 /\ StepAt(k, i) # "show"
                 /\ StepAt(k, i) # "restore"
      BY <2>1, <2>8, <3>2, Places
    <3>3. /\ StepAt(k, 1) = "lock"
          /\ StepAt(k, 3) = "forget"
      BY <2>8, StepTable
    <3>lock. "lock" \in T /\ ("lock" \in S <=> p <= 1)
      BY <2>3, <2>4, <3>1, <3>2, <3>3
    <3>forget. "forget" \in T /\ ("forget" \in S <=> p <= 3)
      BY <2>3, <2>4, <3>1, <3>2, <3>3
    <3>5. "adopt" \notin T /\ "pend" \notin T /\ "save_form" \notin T /\ "get" \notin T /\ "shared" \notin T /\ "install" \notin T /\ "consume" \notin T /\ "show" \notin T /\ "restore" \notin T
      BY <2>4, <3>2
    <3>7. /\ ~After(k, s, "mint", "adopt")
          /\ ~After(k, s, "get", "pend")
          /\ ~After(k, s, "bundle", "pend")
          /\ ~After(k, s, "admit", "shared")
          /\ ~After(k, s, "admit", "save_form")
          /\ ~After(k, s, "point", "save_form")
          /\ ~After(k, s, "fresh", "get")
          /\ ~After(k, s, "fresh", "install")
          /\ After(k, s, "lock", "forget") <=> p \in 2..3
          /\ ~After(k, s, "pend", "consume")
          /\ ~After(k, s, "open_session", "show")
          /\ ~After(k, s, "reopen", "restore")
      <4>1. ~After(k, s, "mint", "adopt")
        BY <2>12, <3>5
      <4>2. ~After(k, s, "get", "pend")
        BY <2>12, <3>5
      <4>3. ~After(k, s, "bundle", "pend")
        BY <2>12, <3>5
      <4>4. ~After(k, s, "admit", "shared")
        BY <2>12, <3>5
      <4>5. ~After(k, s, "admit", "save_form")
        BY <2>12, <3>5
      <4>6. ~After(k, s, "point", "save_form")
        BY <2>12, <3>5
      <4>7. ~After(k, s, "fresh", "get")
        BY <2>12, <3>5
      <4>8. ~After(k, s, "fresh", "install")
        BY <2>12, <3>5
      <4>9. After(k, s, "lock", "forget") <=> p \in 2..3
        BY <2>11, <3>1, <3>lock, <3>forget
      <4>10. ~After(k, s, "pend", "consume")
        BY <2>12, <3>5
      <4>11. ~After(k, s, "open_session", "show")
        BY <2>12, <3>5
      <4>12. ~After(k, s, "reopen", "restore")
        BY <2>12, <3>5
      <4> QED
        BY <4>1, <4>2, <4>3, <4>4, <4>5, <4>6, <4>7, <4>8, <4>9, <4>10, <4>11, <4>12
    <3> QED
      BY <1>2, <2>8, <3>7 DEF Spanned
  <2>9. CASE k \in {"use", "auto_lock"}
    <3>1. ASSUME NEW x \in S PROVE x \notin {"adopt", "pend", "save_form", "get", "shared",
                                          "install", "consume", "show", "forget"}
      <4>1. PICK i \in Int : p <= i /\ i < End(k) /\ StepAt(k, i) = x
        BY <2>3
      <4>2. First(k) <= i
        BY <2>1, <2>2, <4>1
      <4> QED
        BY <2>1, <2>9, <4>1, <4>2, Places
    <3>2. After(k, s, "reopen", "restore") <=> k = "use" /\ p \in 5..6
      <4>1. CASE k = "auto_lock"
        <5>1. "restore" \notin T
          BY <2>1, <2>4, <4>1, Places
        <5> QED
          BY <2>12, <4>1, <5>1
      <4>2. CASE k = "use"
        <5>1. End(k) = 7 /\ First(k) = 1
          BY <4>2, Ends
        <5>2. p \in 1..6
          BY <2>2, <5>1
        <5>3. ASSUME NEW i \in Int, First(k) <= i, i < End(k)
              PROVE  (StepAt(k, i) = "reopen" => i = 4) /\ (StepAt(k, i) = "restore" => i = 6)
          BY <2>1, <4>2, <5>3, Places
        <5>4. StepAt(k, 4) = "reopen" /\ StepAt(k, 6) = "restore"
          BY <4>2, StepTable
        <5>5. "reopen" \in T /\ ("reopen" \in S <=> p <= 4)
          BY <2>3, <2>4, <5>1, <5>2, <5>3, <5>4
        <5>6. "restore" \in T /\ ("restore" \in S <=> p <= 6)
          BY <2>3, <2>4, <5>1, <5>2, <5>3, <5>4
        <5> QED
          BY <2>11, <4>2, <5>2, <5>5, <5>6
      <4> QED
        BY <2>9, <4>1, <4>2
    <3> QED
      BY <1>2, <2>5, <2>9, <3>1, <3>2 DEF Spanned
  <2> QED
    BY <2>1, <2>6, <2>7, <2>8, <2>9
<1> QED
  BY <1>1, <1>2

\* The rest of a plan after its first step, and after a step that leads elsewhere.
LEMMA PlanTail ==
    ASSUME NEW k \in Kinds \cup {None}, NEW s \in Seq(StepNames), PlanOf(k, s), s # <<>>
    PROVE  Tail(s) \in Seq(StepNames) /\ PlanOf(k, Tail(s)) /\ Len(Tail(s)) = Len(s) - 1
<1>1. k # None
  BY DEF PlanOf
<1>2. k \in {"setup", "create", "use", "lock", "auto_lock"} /\ End(k) \in Nat /\ First(k) \in Nat
  BY <1>1, KeyHandoverAssumption DEF End, First
<1>3. /\ Tail(s) \in Seq(StepNames) /\ Len(s) \in Nat /\ Len(s) >= 1 /\ Len(Tail(s)) = Len(s) - 1
      /\ \A i \in 1..Len(Tail(s)) : Tail(s)[i] = s[i + 1] /\ i + 1 \in 1..Len(s)
  OBVIOUS
<1>4. End(k) - Len(Tail(s)) >= First(k)
  BY <1>1, <1>2, <1>3 DEF PlanOf
<1>5. ASSUME NEW i \in 1..Len(Tail(s))
      PROVE  Tail(s)[i] = StepAt(k, End(k) - Len(Tail(s)) + i - 1)
  <2>1. s[i + 1] = StepAt(k, End(k) - Len(s) + (i + 1) - 1)
    BY <1>1, <1>3 DEF PlanOf
  <2>2. End(k) - Len(s) + (i + 1) - 1 = End(k) - Len(Tail(s)) + i - 1
    BY <1>2, <1>3
  <2> QED
    BY <1>3, <2>1, <2>2
<1> QED
  BY <1>1, <1>3, <1>4, <1>5 DEF PlanOf

\* A request that is over is at the end of its plan.
LEMMA PlanEnd == ASSUME NEW k \in Kinds PROVE <<>> \in Seq(StepNames) /\ PlanOf(k, <<>>)
<1>1. k \in {"setup", "create", "use", "lock", "auto_lock"} /\ k # None
  BY KeyHandoverAssumption
<1>2. End(k) - Len(<<>>) >= First(k)
  BY <1>1, StepTable
<1> QED
  BY <1>1, <1>2 DEF PlanOf

\* The two jumps.
LEMMA PlanJumps ==
    /\ <<"reopen", "decrypt", "restore">> \in Seq(StepNames)
    /\ Len(<<"reopen", "decrypt", "restore">>) = 3
    /\ <<"audit">> \in Seq(StepNames) /\ Len(<<"audit">>) = 1
    /\ "use" \in Kinds => PlanOf("use", <<"reopen", "decrypt", "restore">>)
    /\ "setup" \in Kinds => PlanOf("setup", <<"audit">>)
<1> DEFINE q == <<"reopen", "decrypt", "restore">>
           r == <<"audit">>
<1>1. /\ q \in Seq(StepNames) /\ Len(q) = 3
      /\ q[1] = "reopen" /\ q[2] = "decrypt" /\ q[3] = "restore"
      /\ r \in Seq(StepNames) /\ Len(r) = 1 /\ r[1] = "audit"
  BY DEF StepNames
<1> HIDE DEF q, r
<1>2. ASSUME "use" \in Kinds PROVE PlanOf("use", q)
  <2>1. End("use") - Len(q) = 4 /\ End("use") - Len(q) >= First("use")
    BY <1>1, Ends
  <2>2. ASSUME NEW i \in 1..Len(q) PROVE q[i] = StepAt("use", End("use") - Len(q) + i - 1)
    <3>1. i \in {1, 2, 3} /\ End("use") - Len(q) + i - 1 = 3 + i
      BY <1>1, <2>1
    <3>2. /\ StepAt("use", 4) = "reopen" /\ StepAt("use", 5) = "decrypt"
          /\ StepAt("use", 6) = "restore"
      BY StepTable
    <3> QED
      BY <1>1, <3>1, <3>2
  <2> QED
    BY <1>2, <2>1, <2>2, KindIs DEF PlanOf
<1>3. ASSUME "setup" \in Kinds PROVE PlanOf("setup", r)
  <2>1. End("setup") - Len(r) = 17 /\ End("setup") - Len(r) >= First("setup")
    BY <1>1, Ends
  <2>2. ASSUME NEW i \in 1..Len(r) PROVE r[i] = StepAt("setup", End("setup") - Len(r) + i - 1)
    <3>1. i = 1 /\ End("setup") - Len(r) + i - 1 = 17
      BY <1>1, <2>1
    <3> QED
      BY <1>1, <3>1, StepTable
  <2> QED
    BY <1>3, <2>1, <2>2, KindIs DEF PlanOf
<1> QED
  BY <1>1, <1>2, <1>3 DEF q, r

----------------------------------------------------------------------------
(* What a step does to the plans and locals                                *)

Elsewhere(t) == \A u \in Tasks : u # t => loc'[u] = loc[u] /\ todo'[u] = todo[u]

\* The locals of a request that is over.
Dropped(l) == [l EXCEPT !.v = None, !.d = None]

\* A request that is over keeps its locals, but for the objects.
LEMMA LocalsDropped ==
    ASSUME NEW l \in Locals
    PROVE  /\ Dropped(l) \in Locals /\ Dropped(l).v = None /\ Dropped(l).d = None
           /\ Dropped(l).kind = l.kind /\ Dropped(l).name = l.name /\ Dropped(l).pw = l.pw
           /\ Dropped(l).shared = l.shared /\ Dropped(l).agent = l.agent
           /\ Dropped(l).recovery = l.recovery
BY DEF Dropped, Locals

\* A request that ends.
LEMMA DoneMoves ==
    ASSUME TInv, NEW t \in Tasks, Going(t), Done(t)
    PROVE  /\ Elsewhere(t) /\ loc' \in [Tasks -> Locals] /\ todo' \in [Tasks -> Seq(StepNames)]
           /\ Planned(t)' /\ ~Going(t)' /\ loc'[t] = Dropped(loc[t])
           /\ loc'[t].kind = loc[t].kind
<1>1. /\ loc \in [Tasks -> Locals] /\ todo \in [Tasks -> Seq(StepNames)] /\ loc[t] \in Locals
      /\ loc[t].kind \in Kinds
  BY DEF TInv, Types, Planned, PlanOf, Going, Locals
<1>2. todo' = [todo EXCEPT ![t] = <<>>] /\ loc' = [loc EXCEPT ![t] = Dropped(loc[t])]
  BY DEF Done, Local, Dropped
<1>3. Dropped(loc[t]) \in Locals /\ Dropped(loc[t]).kind = loc[t].kind
  BY <1>1, LocalsDropped
<1>4. <<>> \in Seq(StepNames) /\ PlanOf(loc[t].kind, <<>>)
  BY <1>1, PlanEnd
<1>5. loc'[t] = Dropped(loc[t]) /\ todo'[t] = <<>>
  BY <1>1, <1>2
<1>6. /\ loc' \in [Tasks -> Locals] /\ todo' \in [Tasks -> Seq(StepNames)]
      /\ Elsewhere(t)
  BY <1>1, <1>2, <1>3, <1>4 DEF Elsewhere
<1> QED
  BY <1>3, <1>4, <1>5, <1>6 DEF Planned, Going

\* A request that takes the step it is at.
LEMMA ProceedMoves ==
    ASSUME TInv, NEW t \in Tasks, Going(t), NEW l \in Locals, l.kind = loc[t].kind, Proceed(t, l)
    PROVE  /\ Elsewhere(t) /\ loc' \in [Tasks -> Locals] /\ todo' \in [Tasks -> Seq(StepNames)]
           /\ Planned(t)' /\ loc'[t].kind = loc[t].kind /\ Pos(t)' = Pos(t) + 1
           /\ Going(t)' <=> Pos(t) + 1 < End(loc[t].kind)
           /\ Going(t)' => loc'[t] = l
           /\ ~Going(t)' => loc'[t] = Dropped(loc[t])
<1>1. /\ loc \in [Tasks -> Locals] /\ todo \in [Tasks -> Seq(StepNames)] /\ loc[t] \in Locals
      /\ loc[t].kind \in Kinds /\ todo[t] \in Seq(StepNames) /\ todo[t] # <<>>
      /\ PlanOf(loc[t].kind, todo[t])
  BY DEF TInv, Types, Planned, PlanOf, Going, Locals
<1>2. Len(todo[t]) \in Nat /\ Len(todo[t]) >= 1 /\ End(loc[t].kind) \in Nat
  BY <1>1, KindIs
<1>3. CASE Len(todo[t]) = 1
  <2>1. /\ Elsewhere(t) /\ loc' \in [Tasks -> Locals] /\ todo' \in [Tasks -> Seq(StepNames)]
        /\ Planned(t)' /\ ~Going(t)' /\ loc'[t] = Dropped(loc[t])
        /\ loc'[t].kind = loc[t].kind
    BY <1>3, DoneMoves DEF Proceed
  <2>2. Len(todo'[t]) = 0
    BY <2>1 DEF Going
  <2>3. Pos(t)' = Pos(t) + 1 /\ ~(Pos(t) + 1 < End(loc[t].kind))
    BY <1>2, <1>3, <2>1, <2>2 DEF Pos
  <2> QED
    BY <2>1, <2>3
<1>4. CASE Len(todo[t]) # 1
  <2>1. todo' = [todo EXCEPT ![t] = Tail(todo[t])] /\ loc' = [loc EXCEPT ![t] = l]
    BY <1>4 DEF Proceed, Local
  <2>2. /\ Tail(todo[t]) \in Seq(StepNames) /\ PlanOf(loc[t].kind, Tail(todo[t]))
        /\ Len(Tail(todo[t])) = Len(todo[t]) - 1
    BY <1>1, PlanTail
  <2>3. loc'[t] = l /\ todo'[t] = Tail(todo[t])
    BY <1>1, <2>1
  <2>4. /\ loc' \in [Tasks -> Locals] /\ todo' \in [Tasks -> Seq(StepNames)]
        /\ Elsewhere(t)
    BY <1>1, <2>1, <2>2 DEF Elsewhere
  <2>5. Len(todo'[t]) = Len(todo[t]) - 1 /\ Len(todo'[t]) >= 1 /\ Going(t)'
    <3> DEFINE s == Tail(todo[t])
               n == Len(todo[t])
    <3>1. s \in Seq(StepNames) /\ Len(s) = n - 1 /\ n \in Nat /\ n >= 1 /\ n # 1 /\ todo'[t] = s
      BY <1>2, <1>4, <2>2, <2>3
    <3> HIDE DEF s, n
    <3>2. Len(s) >= 1
      BY <3>1
    <3>3. s # <<>>
      BY <3>1, <3>2
    <3> QED
      BY <3>1, <3>2, <3>3 DEF Going, n
  <2>6. Pos(t)' = Pos(t) + 1 /\ Pos(t) + 1 < End(loc[t].kind)
    BY <1>2, <2>3, <2>5 DEF Pos
  <2> QED
    BY <2>2, <2>3, <2>4, <2>5, <2>6 DEF Planned
<1> QED
  BY <1>3, <1>4

\* A request that begins.
LEMMA BeginMoves ==
    ASSUME TInv, NEW t \in Tasks, NEW k \in Kinds, NEW n \in Names, Begin(t, k, n)
    PROVE  /\ Elsewhere(t) /\ loc' \in [Tasks -> Locals] /\ todo' \in [Tasks -> Seq(StepNames)]
           /\ Planned(t)' /\ Going(t)' /\ Pos(t)' = First(k)
           /\ loc'[t].kind = k /\ loc'[t].name = n /\ loc'[t].pw = t
           /\ loc'[t].shared = None /\ loc'[t].agent = None /\ loc'[t].recovery = None
           /\ loc[t].kind = None /\ ~Going(t)
<1> DEFINE l == [NotBegun EXCEPT !.kind = k, !.name = n, !.pw = t]
<1>1. /\ loc \in [Tasks -> Locals] /\ todo \in [Tasks -> Seq(StepNames)]
      /\ loc[t].kind = None /\ todo[t] = <<>>
  BY DEF TInv, Types, Planned, PlanOf, Begin
<1>2. todo' = [todo EXCEPT ![t] = Steps(k)] /\ loc' = [loc EXCEPT ![t] = l]
  BY DEF Begin, Local
<1>3. /\ l \in Locals /\ l.kind = k /\ l.name = n /\ l.pw = t
      /\ l.shared = None /\ l.agent = None /\ l.recovery = None
  BY DEF NotBegun, Locals, Keyed, Keys
<1> HIDE DEF l
<1>4. /\ Steps(k) \in Seq(StepNames) /\ PlanOf(k, Steps(k)) /\ End(k) - Len(Steps(k)) = First(k)
  BY PlanBegins
<1>5. Steps(k) # <<>>
  BY <1>4, KindIs
<1>6. loc'[t] = l /\ todo'[t] = Steps(k)
  BY <1>1, <1>2
<1>7. /\ loc' \in [Tasks -> Locals] /\ todo' \in [Tasks -> Seq(StepNames)]
      /\ Elsewhere(t)
  BY <1>1, <1>2, <1>3, <1>4 DEF Elsewhere
<1> QED
  BY <1>1, <1>3, <1>4, <1>5, <1>6, <1>7 DEF Planned, Going, Pos

----------------------------------------------------------------------------
(* get_vault()                                                             *)

\* There is an identity left for a new Vault object: each request refers to two at most.
LEMMA FreeObject == TInv => Objects \ InUse # {}
<1> SUFFICES ASSUME TInv PROVE Objects \ InUse # {}
  OBVIOUS
<1> DEFINE N == Cardinality(Tasks)
           V == {loc[t].v : t \in Tasks}
           D == {loc[t].d : t \in Tasks}
<1>1. IsFiniteSet(Tasks) /\ N \in Nat
  BY KeyHandoverAssumption, FS_CardinalityType
<1>2. IsFiniteSet(V) /\ Cardinality(V) \in Nat /\ Cardinality(V) <= N
  <2>1. [t \in Tasks |-> loc[t].v] \in Surjection(Tasks, V)
    BY DEF Surjection
  <2> QED
    BY <1>1, <2>1, FS_Surjection, FS_CardinalityType
<1>3. IsFiniteSet(D) /\ Cardinality(D) \in Nat /\ Cardinality(D) <= N
  <2>1. [t \in Tasks |-> loc[t].d] \in Surjection(Tasks, D)
    BY DEF Surjection
  <2> QED
    BY <1>1, <2>1, FS_Surjection, FS_CardinalityType
<1>4. IsFiniteSet({vault}) /\ Cardinality({vault}) = 1
  BY FS_Singleton
<1>5. IsFiniteSet(Objects) /\ Cardinality(Objects) = 2 * N + 2
  BY <1>1, FS_Interval DEF Objects
<1> HIDE DEF N, V, D
<1>6. IsFiniteSet({vault} \cup V) /\ Cardinality({vault} \cup V) \in Nat
      /\ Cardinality({vault} \cup V) <= 1 + N
  <2>1. /\ IsFiniteSet({vault} \cup V) /\ IsFiniteSet({vault} \cap V)
        /\ Cardinality({vault} \cup V) = 1 + Cardinality(V) - Cardinality({vault} \cap V)
    BY <1>2, <1>4, FS_Union, FS_Intersection
  <2>2. Cardinality({vault} \cup V) \in Nat /\ Cardinality({vault} \cap V) \in Nat
    BY <2>1, FS_CardinalityType
  <2> QED
    BY <1>1, <1>2, <2>1, <2>2
<1>7. IsFiniteSet(InUse) /\ Cardinality(InUse) <= 1 + N + N /\ Cardinality(InUse) \in Nat
  <2>1. InUse = ({vault} \cup V) \cup D
    BY DEF InUse, V, D
  <2>2. /\ IsFiniteSet(InUse) /\ IsFiniteSet(({vault} \cup V) \cap D)
        /\ Cardinality(InUse)
             = Cardinality({vault} \cup V) + Cardinality(D) - Cardinality(({vault} \cup V) \cap D)
    BY <1>3, <1>6, <2>1, FS_Union, FS_Intersection
  <2>3. Cardinality(InUse) \in Nat /\ Cardinality(({vault} \cup V) \cap D) \in Nat
    BY <2>2, FS_CardinalityType
  <2> QED
    BY <1>1, <1>3, <1>6, <2>2, <2>3
<1>8. ASSUME Objects \subseteq InUse PROVE FALSE
  <2>1. Cardinality(Objects) <= Cardinality(InUse)
    BY <1>7, <1>8, FS_Subset
  <2> QED
    BY <1>1, <1>5, <1>7, <2>1
<1> QED
  BY <1>8

\* get_vault() hands out an object of the active definition: the cached one, or a new
\* one that nobody refers to.  Objects in use stay what they are.
LEMMA GotVault ==
    ASSUME TInv, NEW data \in Data \cup {None}, GetVault(data)
    PROVE  /\ Current \in Objects /\ vault' = Current
           /\ object' \in [Objects -> [name : Names, data : Data \cup {None}]]
           /\ object'[Current].name = pointer /\ object'[Current].data = data
           /\ \A o \in Objects : o \in InUse => object'[o].name = object[o].name
           /\ \A o \in Objects : o \in InUse /\ o # Current => object'[o] = object[o]
           /\ \A o \in Objects : o \notin InUse /\ o # Current => object'[o].data = None \/ object'[o] = object[o]
           /\ Cached => Current = vault /\ vault \in Objects
           /\ ~Cached => Current \notin InUse
<1>1. /\ pointer \in Names /\ vault \in Objects \cup {None} /\ None \notin Objects
      /\ object \in [Objects -> [name : Names, data : Data \cup {None}]]
  BY KeyHandoverAssumption DEF TInv, Types, SharedTypes, Objects
<1>2. Current \in Objects /\ (~Cached => Current \notin InUse) /\ (Cached => Current = vault)
  <2>1. CASE Cached
    BY <1>1, <2>1 DEF Cached, Current
  <2>2. CASE ~Cached
    <3>1. \E o : o \in Objects \ InUse
      BY FreeObject
    <3>2. (CHOOSE o \in Objects \ InUse : TRUE) \in Objects \ InUse
      BY <3>1
    <3> QED
      BY <2>2, <3>2 DEF Current
  <2> QED
    BY <2>1, <2>2
<1>3. vault' = Current /\ object' = [Loaded EXCEPT ![Current].data = data]
  BY DEF GetVault
<1>4. Unborn \in [name : Names, data : Data \cup {None}] /\ Unborn.data = None
  BY KeyHandoverAssumption DEF Unborn
<1>5. CASE Cached
  <2>1. Loaded = object
    BY <1>5 DEF Loaded
  <2>2. object[vault].name = pointer /\ Current = vault /\ vault \in Objects
    BY <1>1, <1>2, <1>5 DEF Cached
  <2>3. object' = [object EXCEPT ![Current].data = data]
    BY <1>3, <2>1
  <2> HIDE DEF Current, Loaded
  <2>4. /\ object' \in [Objects -> [name : Names, data : Data \cup {None}]]
        /\ object'[Current].name = object[Current].name /\ object'[Current].data = data
        /\ \A o \in Objects : o # Current => object'[o] = object[o]
    BY <1>1, <2>2, <2>3
  <2> QED
    BY <1>1, <1>2, <1>3, <1>5, <2>2, <2>4
<1>6. CASE ~Cached
  <2> DEFINE c == Current
             new == [name |-> pointer, data |-> None]
  <2>1. Loaded = [o \in Objects |-> IF o = c THEN new ELSE IF o \in InUse THEN object[o] ELSE Unborn]
    BY <1>6 DEF Loaded
  <2>2. c \in Objects /\ c \notin InUse /\ vault' = c /\ object' = [Loaded EXCEPT ![c].data = data]
    BY <1>2, <1>3, <1>6
  <2> HIDE DEF c
  <2>3. new \in [name : Names, data : Data \cup {None}] /\ new.name = pointer
    BY <1>1
  <2> HIDE DEF new
  <2>4. Loaded \in [Objects -> [name : Names, data : Data \cup {None}]]
    BY <1>1, <1>4, <2>1, <2>3
  <2>5. /\ object' \in [Objects -> [name : Names, data : Data \cup {None}]]
        /\ object'[c].name = Loaded[c].name /\ object'[c].data = data
        /\ \A o \in Objects : o # c => object'[o] = Loaded[o]
    BY <2>2, <2>4
  <2>6. Loaded[c].name = pointer
    BY <2>1, <2>2, <2>3
  <2>7. \A o \in Objects : o \in InUse => o # c /\ object'[o] = object[o]
    BY <2>1, <2>2, <2>5
  <2>8. \A o \in Objects : o \notin InUse /\ o # c => object'[o].data = None
    BY <1>4, <2>1, <2>2, <2>5
  <2> QED
    BY <1>6, <2>2, <2>5, <2>6, <2>7, <2>8 DEF c
<1> QED
  BY <1>5, <1>6

\* What is decrypted once get_vault() has returned is the cached object's.
LEMMA LoadedData ==
    ASSUME TInv
    PROVE  /\ Loaded[Current].data \in Data \cup {None}
           /\ Cached => Loaded[Current].data = object[vault].data
           /\ ~Cached => Loaded[Current].data = None
           /\ Unlocked => Cached /\ object[vault].data # None
<1>1. /\ vault \in Objects \cup {None} /\ None \notin Objects
      /\ object \in [Objects -> [name : Names, data : Data \cup {None}]]
  BY KeyHandoverAssumption DEF TInv, Types, SharedTypes, Objects
<1>2. CASE Cached
  BY <1>1, <1>2 DEF Cached, Loaded, Current, Unlocked
<1>3. CASE ~Cached
  <2>1. \E o : o \in Objects \ InUse
    BY FreeObject
  <2>2. (CHOOSE o \in Objects \ InUse : TRUE) \in Objects \ InUse
    BY <2>1
  <2>3. Current \in Objects
    BY <1>3, <2>2 DEF Current
  <2>4. Loaded[Current].data = None
    BY <1>3, <2>3 DEF Loaded
  <2> QED
    BY <1>3, <2>4 DEF Unlocked
<1> QED
  BY <1>2, <1>3


----------------------------------------------------------------------------
(* Types                                                                   *)

\* What a step leaves alone: the names of objects in use, that a file exists, and that
\* nobody but a creation has a session with keys.
Steady ==
    /\ \A o \in Objects : o \in InUse => object'[o].name = object[o].name
    /\ \A n \in Names : file[n] # None => file'[n] # None
    /\ \A u \in Tasks : session'[u] = session[u] \/ session'[u] = None \/ Creator(u)

\* The place of a request that has begun is a number.
LEMMA PosInt == ASSUME TInv, NEW t \in Tasks, loc[t].kind # None PROVE Pos(t) \in Int
BY KindIs DEF TInv, Types, Pos, Locals

\* A request whose variables a step leaves alone keeps its plan and what its steps rely on.
LEMMA OthersReady ==
    ASSUME TInv, NEW t \in Tasks, Elsewhere(t), SharedTypes', Steady
    PROVE  \A u \in Tasks : u # t => Planned(u)' /\ Ready(u)'
<1> SUFFICES ASSUME NEW u \in Tasks, u # t PROVE Planned(u)' /\ Ready(u)'
  OBVIOUS
<1>1. loc'[u] = loc[u] /\ todo'[u] = todo[u] /\ Planned(u) /\ Ready(u)
  BY DEF Elsewhere, TInv
<1>2. /\ Planned(u)' /\ Going(u)' = Going(u) /\ Pos(u)' = Pos(u)
      /\ \A k : IsA(u, k)' = IsA(u, k)
  BY <1>1 DEF Planned, Going, Pos, IsA
<1>3. /\ Creator(u)' = Creator(u) /\ \A i, j : Creates(u, i, j)' = Creates(u, i, j)
      /\ \A i, j : Makes(u, i, j)' = Makes(u, i, j)
      /\ Reopens(u)' = Reopens(u)
  BY <1>2 DEF Creator, Creates, SetsUp, Makes, Reopens
<1>4. ~Creator(u) => session'[u] = None
  BY <1>1 DEF Ready, Steady
<1>5. ASSUME Makes(u, 7, 12) PROVE file'[object'[loc[u].v].name] # None
  <2>1. Makes(u, 5, 20)
    <3>1. loc[u].kind # None
      BY <1>5, KeyHandoverAssumption DEF TInv, Planned, PlanOf, Going, Makes, Creates, SetsUp
    <3> QED
      BY <1>5, <3>1, PosInt DEF Makes, Creates, SetsUp
  <2>2. loc[u].v \in Objects /\ loc[u].v \in InUse /\ file[object[loc[u].v].name] # None
    BY <1>1, <1>5, <2>1 DEF Ready, InUse
  <2>3. object[loc[u].v].name \in Names
    BY <2>2 DEF TInv, Types, SharedTypes
  <2> QED
    BY <2>2, <2>3 DEF Steady
<1> QED
  BY <1>1, <1>2, <1>3, <1>4, <1>5 DEF Ready

\* A step of a request that goes on, ...
LEMMA ProceedGoes ==
    ASSUME TInv, NEW t \in Tasks, Going(t), NEW l \in Locals, l.kind = loc[t].kind, Proceed(t, l),
           SharedTypes', Steady,
           l.name = loc[t].name, l.pw \in Keys,
           IsA(t, "setup") => l.shared = None /\ l.pw = t,
           ~Creator(t) => l.recovery = None,
           Creator(t) /\ Pos(t) >= 5 => l.v \in Objects,
           ~Creator(t) => Pos(t) \notin 4..5 \/ l.v \in Objects,
           IsA(t, "create") /\ Pos(t) = 14 => l.d \in Objects,
           Creator(t) /\ Pos(t) \in 7..11 => file'[object'[l.v].name] # None
    PROVE  TInv'
<1>1. /\ Elsewhere(t) /\ loc' \in [Tasks -> Locals] /\ todo' \in [Tasks -> Seq(StepNames)]
      /\ Planned(t)' /\ loc'[t].kind = loc[t].kind /\ Pos(t)' = Pos(t) + 1
      /\ Going(t)' => loc'[t] = l
      /\ ~Going(t)' => loc'[t] = Dropped(loc[t])
  BY ProceedMoves
<1>2. Pos(t) \in Int /\ Ready(t) /\ loc[t] \in Locals
  BY PosInt DEF TInv, Types, Planned, PlanOf, Going
<1>3. /\ IsA(t, "setup")' <=> IsA(t, "setup")
      /\ IsA(t, "create")' <=> IsA(t, "create")
      /\ Creator(t)' <=> Creator(t)
  BY <1>1 DEF IsA, Creator
<1>4. /\ loc'[t].name = loc[t].name /\ (Going(t)' => loc'[t].pw \in Keys)
      /\ IsA(t, "setup") => loc'[t].shared = None /\ loc'[t].pw = t
      /\ ~Creator(t) => loc'[t].recovery = None
  <2>1. CASE Going(t)'
    BY <1>1, <2>1
  <2>2. CASE ~Going(t)'
    BY <1>1, <1>2, <2>2, LocalsDropped DEF Ready
  <2> QED
    BY <2>1, <2>2
<1>5. Going(t) /\ loc[t].name \in Names
  BY <1>2 DEF Ready
<1>6. ~Creator(t) => session'[t] = None
  BY <1>2 DEF Ready, Steady
<1>7. Makes(t, 5, 20)' \/ Reopens(t)' => loc'[t].v \in Objects
  <2>1. Makes(t, 5, 20)' => loc'[t].v \in Objects
    BY <1>1, <1>2, <1>3 DEF Makes, Creates, SetsUp, Creator
  <2>2. Reopens(t)' => Going(t)' /\ ~Creator(t) /\ Pos(t) \in 4..5
    BY <1>1, <1>2, <1>3 DEF Reopens, Creator, IsA
  <2> QED
    BY <1>1, <2>1, <2>2
<1>8. Creates(t, 14, 15)' => loc'[t].d \in Objects
  BY <1>1, <1>2, <1>3 DEF Creates
<1>9. Makes(t, 7, 12)' => file'[object'[loc'[t].v].name] # None
  BY <1>1, <1>2, <1>3 DEF Makes, Creates, SetsUp, Creator
<1>10. Ready(t)'
  <2>1. (Going(t) => loc[t].name \in Names /\ loc[t].pw \in Keys)'
    BY <1>4, <1>5
  <2>2. (IsA(t, "setup") => loc[t].name = Default /\ loc[t].shared = None /\ loc[t].pw = t)'
    BY <1>2, <1>3, <1>4 DEF Ready
  <2>3. (~Creator(t) => session[t] = None /\ loc[t].recovery = None)'
    BY <1>3, <1>4, <1>6
  <2> QED
    BY <1>7, <1>8, <1>9, <2>1, <2>2, <2>3 DEF Ready
<1> QED
  BY <1>1, <1>10, OthersReady DEF TInv, Types

\* ... and of one that ends.
LEMMA DoneGoes ==
    ASSUME TInv, NEW t \in Tasks, Going(t), Done(t), SharedTypes', Steady
    PROVE  TInv'
<1>1. /\ Elsewhere(t) /\ loc' \in [Tasks -> Locals] /\ todo' \in [Tasks -> Seq(StepNames)]
      /\ Planned(t)' /\ ~Going(t)' /\ loc'[t] = Dropped(loc[t])
      /\ loc'[t].kind = loc[t].kind
  BY DoneMoves
<1>2. Ready(t) /\ loc[t] \in Locals
  BY DEF TInv, Types
<1>3. /\ IsA(t, "setup")' <=> IsA(t, "setup")
      /\ Creator(t)' <=> Creator(t)
  BY <1>1 DEF IsA, Creator
<1>4. ~Creator(t) => session'[t] = None
  BY <1>2 DEF Ready, Steady
<1>5. Ready(t)'
  BY <1>1, <1>2, <1>3, <1>4, LocalsDropped DEF Ready, Makes, Creates, SetsUp, Reopens
<1> QED
  BY <1>1, <1>5, OthersReady DEF TInv, Types


\* A step that leaves the locals of its request alone.
LEMMA OwnProceeds ==
    ASSUME TInv, NEW t \in Tasks, Going(t), Proceed(t, loc[t]), SharedTypes', Steady,
           Creator(t) => Pos(t) # 5 /\ Pos(t) # 7, IsA(t, "create") => Pos(t) # 14,
           ~Creator(t) => Pos(t) # 4
    PROVE  TInv'
<1>1. Ready(t) /\ loc[t] \in Locals /\ loc[t].kind \in Kinds /\ PlanOf(loc[t].kind, todo[t])
  BY DEF TInv, Types, Planned, PlanOf, Going, Locals
<1>2. Pos(t) \in Int /\ (Creator(t) => Pos(t) <= 20)
  <2>1. Len(todo[t]) \in Nat
    BY DEF TInv, Types
  <2>2. Creator(t) => End(loc[t].kind) \in Int /\ End(loc[t].kind) <= 20
    BY Ends DEF Creator, IsA
  <2> QED
    BY <1>1, <2>1, <2>2, PosInt, KindIs DEF Pos
<1>3. Creator(t) /\ Pos(t) >= 5 => loc[t].v \in Objects
  BY <1>1, <1>2 DEF Ready, Makes, Creates, SetsUp, Creator
<1>4. IsA(t, "create") /\ Pos(t) = 14 => loc[t].d \in Objects
  OBVIOUS
<1>5. Creator(t) /\ Pos(t) \in 7..11 => file'[object'[loc[t].v].name] # None
  <2> SUFFICES ASSUME Creator(t), Pos(t) \in 8..11 PROVE file'[object'[loc[t].v].name] # None
    BY <1>2
  <2>1. Makes(t, 7, 12)
    BY <1>2 DEF Makes, Creates, SetsUp, Creator
  <2>2. loc[t].v \in Objects /\ loc[t].v \in InUse /\ file[object[loc[t].v].name] # None
    BY <1>1, <1>3, <2>1 DEF Ready, InUse
  <2>3. object[loc[t].v].name \in Names
    BY <2>2 DEF TInv, Types, SharedTypes
  <2> QED
    BY <2>2, <2>3 DEF Steady
<1>6. /\ loc[t].pw \in Keys /\ (IsA(t, "setup") => loc[t].shared = None /\ loc[t].pw = t)
      /\ (~Creator(t) => loc[t].recovery = None)
  BY <1>1 DEF Ready
<1>7. ~Creator(t) => Pos(t) \notin 4..5 \/ loc[t].v \in Objects
  <2> SUFFICES ASSUME ~Creator(t), Pos(t) = 5 PROVE loc[t].v \in Objects
    BY <1>2
  <2>1. loc[t].kind \in {"use", "lock", "auto_lock"}
    BY <1>1, KeyHandoverAssumption DEF Creator, IsA
  <2>2. Len(todo[t]) \in Nat /\ Len(todo[t]) >= 1
    BY DEF TInv, Types, Going
  <2>3. IsA(t, "use")
    BY <2>1, <2>2, Ends DEF IsA, Pos
  <2> QED
    BY <1>1, <2>3 DEF Ready, Reopens
<1> QED
  BY <1>1, <1>3, <1>4, <1>5, <1>6, <1>7, ProceedGoes

\* A step that may also end its request.
LEMMA OwnGoes ==
    ASSUME TInv, NEW t \in Tasks, Going(t), Proceed(t, loc[t]) \/ Done(t), SharedTypes', Steady,
           Creator(t) => Pos(t) # 5 /\ Pos(t) # 7, IsA(t, "create") => Pos(t) # 14,
           ~Creator(t) => Pos(t) # 4
    PROVE  TInv'
BY OwnProceeds, DoneGoes

\* A step that touches no file, object or session is steady.
LEMMA StillSteady == ASSUME UNCHANGED <<file, object, session>> PROVE Steady
BY DEF Steady

\* Looking the vault up is steady.
LEMMA GotSteady ==
    ASSUME TInv, NEW data \in Data \cup {None}, GetVault(data), UNCHANGED <<file, session>>
    PROVE  Steady
BY GotVault DEF Steady

\* Looking the vault up leaves an object of its type.
LEMMA GotTypes ==
    ASSUME TInv, NEW data \in Data \cup {None}, GetVault(data)
    PROVE  /\ vault' \in Objects \cup {None}
           /\ object' \in [Objects -> [name : Names, data : Data \cup {None}]]
BY GotVault

\* Request keeps the types and plans.
LEMMA BeginTypes == ASSUME TInv, NEW t \in Tasks, Request(t) PROVE TInv'
<1>1. PICK k \in Kinds, n \in Names : (k \in {"setup", "lock", "auto_lock"} => n = Default) /\ Begin(t, k, n)
  BY DEF Request
<1>2. /\ Elsewhere(t) /\ loc' \in [Tasks -> Locals] /\ todo' \in [Tasks -> Seq(StepNames)]
      /\ Planned(t)' /\ Going(t)' /\ Pos(t)' = First(k)
      /\ loc'[t].kind = k /\ loc'[t].name = n /\ loc'[t].pw = t
      /\ loc'[t].shared = None /\ loc'[t].recovery = None
      /\ loc[t].kind = None /\ ~Going(t)
  BY <1>1, BeginMoves
<1>3. UNCHANGED <<disk, memory, sessions, history>>
  BY <1>1 DEF Begin
<1>4. SharedTypes' /\ Steady
  BY <1>3 DEF TInv, Types, SharedTypes, Steady, disk, memory, sessions, history
<1>5. session[t] = None
  BY <1>2, KeyHandoverAssumption DEF TInv, Ready, Creator, IsA
<1>6. ~Makes(t, 5, 20)' /\ ~Makes(t, 7, 12)' /\ ~Creates(t, 14, 15)' /\ ~Reopens(t)'
  BY <1>2, Ends DEF Makes, Creates, SetsUp, IsA, Reopens
<1>7. Ready(t)'
  <2>1. t \in Keys
    BY DEF Keys
  <2>2. (Going(t) => loc[t].name \in Names /\ loc[t].pw \in Keys)'
    BY <1>2, <2>1
  <2>3. (IsA(t, "setup") => loc[t].name = Default /\ loc[t].shared = None /\ loc[t].pw = t)'
    BY <1>1, <1>2 DEF IsA
  <2>4. (~Creator(t) => session[t] = None /\ loc[t].recovery = None)'
    BY <1>2, <1>3, <1>5 DEF sessions
  <2> QED
    BY <1>6, <2>2, <2>3, <2>4 DEF Ready
<1> QED
  BY <1>2, <1>4, <1>7, OthersReady DEF TInv, Types

\* Fresh keeps the types and plans.
LEMMA FreshTypes == ASSUME TInv, NEW t \in Tasks, Fresh(t) PROVE TInv'
<1>1. Going(t) /\ IsA(t, "setup") /\ Pos(t) = 4
  BY Where DEF Fresh
<1>2. UNCHANGED <<disk, memory, sessions, history>> /\ (Proceed(t, loc[t]) \/ Done(t))
  BY DEF Fresh
<1>3. SharedTypes' /\ Steady
  BY <1>2 DEF TInv, Types, SharedTypes, Steady, disk, memory, sessions, history
<1> QED
  BY <1>1, <1>2, <1>3, OwnGoes DEF IsA, Creator

\* Admit keeps the types and plans.
LEMMA AdmitTypes == ASSUME TInv, NEW t \in Tasks, Admit(t) PROVE TInv'
<1>1. Going(t) /\ IsA(t, "create") /\ Pos(t) = 1
  BY Where DEF Admit
<1>2. LookUp /\ UNCHANGED <<disk, master, pending, sessions, history>>
  BY DEF Admit
<1>3. SharedTypes' /\ Steady
  BY <1>2, LoadedData, GotTypes, GotSteady
     DEF LookUp, TInv, Types, SharedTypes, disk, sessions, history
<1>4. CASE Done(t)
  BY <1>1, <1>3, <1>4, DoneGoes
<1>5. CASE ~Done(t)
  <2> DEFINE l == [loc[t] EXCEPT !.pw = master]
  <2>1. master # None /\ Proceed(t, l)
    BY <1>5 DEF Admit
  <2>2. loc[t] \in Locals /\ Ready(t) /\ master \in Keys
    BY <2>1 DEF TInv, Types, SharedTypes, Keyed
  <2>3. /\ l \in Locals /\ l.kind = loc[t].kind /\ l.name = loc[t].name /\ l.pw = master
        /\ l.shared = loc[t].shared /\ l.recovery = loc[t].recovery
    BY <2>2 DEF Locals, Keyed
  <2> HIDE DEF l
  <2>4. Creator(t) /\ ~IsA(t, "setup")
    BY <1>1 DEF Creator, IsA
  <2> QED
    BY <1>1, <1>3, <2>1, <2>2, <2>3, <2>4, ProceedGoes
<1> QED
  BY <1>4, <1>5

\* CurrentSharedAgent keeps the types and plans.
LEMMA SharedTypesKept == ASSUME TInv, NEW t \in Tasks, CurrentSharedAgent(t) PROVE TInv'
<1>1. Going(t) /\ IsA(t, "create") /\ Pos(t) = 2
  BY Where DEF CurrentSharedAgent
<1>2. LookUp /\ UNCHANGED <<disk, master, pending, sessions, seen, audited>> /\ crossed' \in BOOLEAN
  BY DEF CurrentSharedAgent, Cross
<1>3. SharedTypes' /\ Steady
  BY <1>2, LoadedData, GotTypes, GotSteady
     DEF LookUp, TInv, Types, SharedTypes, disk, sessions
<1> DEFINE l == [loc[t] EXCEPT !.shared = Loaded[Current].data.agent]
<1>4. CASE Proceed(t, loc[t])
  BY <1>1, <1>3, <1>4, OwnProceeds DEF IsA, Creator
<1>5. CASE Unlocked /\ Proceed(t, l)
  <2>1. Loaded[Current].data.agent \in Keys
    BY <1>5, LoadedData DEF Unlocked, Data
  <2>2. loc[t] \in Locals /\ Ready(t)
    BY DEF TInv, Types
  <2>3. /\ l \in Locals /\ l.kind = loc[t].kind /\ l.name = loc[t].name /\ l.pw = loc[t].pw
        /\ l.recovery = loc[t].recovery
    BY <2>1, <2>2 DEF Locals, Keyed
  <2> HIDE DEF l
  <2>4. Creator(t) /\ ~IsA(t, "setup") /\ loc[t].pw \in Keys
    BY <1>1, <2>2 DEF Creator, IsA, Ready
  <2> QED
    BY <1>1, <1>3, <1>5, <2>2, <2>3, <2>4, ProceedGoes
<1> QED
  BY <1>4, <1>5 DEF CurrentSharedAgent

\* A step that leads elsewhere in the plan.
LEMMA JumpMoves ==
    ASSUME TInv, NEW t \in Tasks, NEW s \in Seq(StepNames), Len(s) \in 1..3, PlanOf(loc[t].kind, s),
           loc[t].kind \in Kinds, todo' = [todo EXCEPT ![t] = s], UNCHANGED loc
    PROVE  /\ Elsewhere(t) /\ loc' \in [Tasks -> Locals] /\ todo' \in [Tasks -> Seq(StepNames)]
           /\ Planned(t)' /\ Going(t)' /\ Pos(t)' = End(loc[t].kind) - Len(s) /\ loc'[t] = loc[t]
<1>1. loc \in [Tasks -> Locals] /\ todo \in [Tasks -> Seq(StepNames)]
  BY DEF TInv, Types
<1>2. todo'[t] = s /\ todo' \in [Tasks -> Seq(StepNames)] /\ Elsewhere(t) /\ loc' \in [Tasks -> Locals]
  BY <1>1 DEF Elsewhere
<1>3. s # <<>>
  <2> SUFFICES ASSUME s = <<>> PROVE FALSE
    OBVIOUS
  <2>1. Len(<<>>) = 0
    OBVIOUS
  <2> QED
    BY <2>1
<1> QED
  BY <1>2, <1>3 DEF Planned, Going, Pos

\* Compare keeps the types and plans.
LEMMA CompareTypes == ASSUME TInv, NEW t \in Tasks, Compare(t) PROVE TInv'
<1>1. Going(t) /\ IsA(t, "use") /\ Pos(t) = 1 /\ loc[t].kind \in Kinds
  BY Where DEF Compare
<1>2. UNCHANGED <<disk, memory, sessions, history>>
  BY DEF Compare
<1>3. SharedTypes' /\ Steady
  BY <1>2 DEF TInv, Types, SharedTypes, Steady, disk, memory, sessions, history
<1>4. CASE Proceed(t, loc[t]) \/ Done(t)
  BY <1>1, <1>3, <1>4, OwnGoes DEF IsA, Creator
<1>5. CASE /\ todo' = [todo EXCEPT ![t] = <<"reopen", "decrypt", "restore">>]
           /\ UNCHANGED loc
  <2> DEFINE s == <<"reopen", "decrypt", "restore">>
  <2>1. /\ s \in Seq(StepNames) /\ Len(s) = 3 /\ Len(s) \in 1..3
        /\ PlanOf(loc[t].kind, s)
    BY <1>1, PlanJumps DEF IsA
  <2>2. todo' = [todo EXCEPT ![t] = s] /\ UNCHANGED loc
    BY <1>5
  <2> HIDE DEF s
  <2>3. /\ Elsewhere(t) /\ loc' \in [Tasks -> Locals] /\ todo' \in [Tasks -> Seq(StepNames)]
        /\ Planned(t)' /\ loc'[t] = loc[t] /\ Pos(t)' = 4
    <3>1. /\ Elsewhere(t) /\ loc' \in [Tasks -> Locals] /\ todo' \in [Tasks -> Seq(StepNames)]
          /\ Planned(t)' /\ loc'[t] = loc[t] /\ Pos(t)' = End(loc[t].kind) - 3
      BY <1>1, <2>1, <2>2, JumpMoves
    <3>2. End(loc[t].kind) = 7
      BY <1>1, Ends DEF IsA
    <3> QED
      BY <3>1, <3>2
  <2>4. IsA(t, "use") /\ ~Creator(t) /\ ~Creator(t)' /\ Ready(t)
    BY <1>1, <2>3 DEF IsA, Creator, TInv
  <2>5. session'[t] = session[t]
    BY <1>2 DEF sessions
  <2>6. Ready(t)'
    BY <1>1, <2>3, <2>4, <2>5 DEF Ready, Creator, IsA, Makes, Creates, SetsUp, Reopens
  <2> QED
    BY <1>3, <2>3, <2>6, OthersReady DEF TInv, Types
<1> QED
  BY <1>4, <1>5 DEF Compare

\* Point keeps the types and plans.
LEMMA PointTypes == ASSUME TInv, NEW t \in Tasks, Point(t) PROVE TInv'
<1>1. Going(t) /\ Pos(t) \in {2, 3} /\ Ready(t)
  BY Where DEF Point, TInv
<1>2. /\ UNCHANGED <<file, bundle, memory, sessions, seen, audited>> /\ crossed' \in BOOLEAN
      /\ pointer' \in Names /\ Proceed(t, loc[t])
  BY <1>1 DEF Point, Cross, Ready
<1>3. SharedTypes' /\ Steady
  BY <1>2 DEF TInv, Types, SharedTypes, Steady, memory, sessions
<1> QED
  BY <1>1, <1>2, <1>3, OwnProceeds

\* Reset keeps the types and plans.
LEMMA ResetTypes == ASSUME TInv, NEW t \in Tasks, Reset(t) PROVE TInv'
<1>1. Going(t) /\ Pos(t) \in {3, 4} /\ (~Creator(t) => Pos(t) # 4)
  BY Where DEF Reset, Creator
<1>2. /\ UNCHANGED <<disk, object, master, pending, sessions, seen, audited>>
      /\ crossed' \in BOOLEAN /\ vault' = None /\ Proceed(t, loc[t])
  BY <1>1 DEF Reset, Cross
<1>3. SharedTypes' /\ Steady
  BY <1>2 DEF TInv, Types, SharedTypes, Steady, disk, sessions
<1> QED
  BY <1>1, <1>2, <1>3, OwnProceeds

\* Reopen keeps the types and plans.
LEMMA ReopenTypes == ASSUME TInv, NEW t \in Tasks, Reopen(t) PROVE TInv'
<1>1. Going(t) /\ IsA(t, "use") /\ Pos(t) = 4
  BY Where DEF Reopen
<1>2. LookUp /\ UNCHANGED <<disk, master, pending, sessions, history>>
  BY DEF Reopen
<1>3. SharedTypes' /\ Steady /\ Current \in Objects
  BY <1>2, LoadedData, GotTypes, GotSteady, GotVault
     DEF LookUp, TInv, Types, SharedTypes, disk, sessions, history
<1>4. CASE Done(t)
  BY <1>1, <1>3, <1>4, DoneGoes
<1>5. CASE ~Done(t)
  <2> DEFINE l == [loc[t] EXCEPT !.v = Current, !.pw = master]
  <2>1. master # None /\ Proceed(t, l)
    BY <1>5 DEF Reopen
  <2>2. loc[t] \in Locals /\ Ready(t) /\ master \in Keys /\ Current \in Objects
    BY <1>3, <2>1 DEF TInv, Types, SharedTypes, Keyed
  <2>3. /\ l \in Locals /\ l.kind = loc[t].kind /\ l.name = loc[t].name /\ l.pw = master
        /\ l.recovery = loc[t].recovery /\ l.v \in Objects
    BY <2>2 DEF Locals, Keyed
  <2> HIDE DEF l
  <2>4. ~Creator(t) /\ ~IsA(t, "setup") /\ ~IsA(t, "create")
    BY <1>1 DEF Creator, IsA
  <2>5. l.recovery = None
    BY <2>2, <2>3, <2>4 DEF Ready
  <2> QED
    BY <1>1, <1>3, <2>1, <2>2, <2>3, <2>4, <2>5, ProceedGoes
<1> QED
  BY <1>4, <1>5

\* Get keeps the types and plans.
LEMMA GetTypes == ASSUME TInv, NEW t \in Tasks, Get(t) PROVE TInv'
<1>1. Going(t) /\ Creator(t) /\ Pos(t) = 5
  BY Where DEF Get
<1>2. LookUp /\ UNCHANGED <<disk, master, pending, sessions, history>>
  BY DEF Get
<1>3. SharedTypes' /\ Steady /\ Current \in Objects
  BY <1>2, LoadedData, GotTypes, GotSteady, GotVault
     DEF LookUp, TInv, Types, SharedTypes, disk, sessions, history
<1>4. CASE Done(t)
  BY <1>1, <1>3, <1>4, DoneGoes
<1>5. CASE ~Done(t)
  <2> DEFINE l == [loc[t] EXCEPT !.v = Current]
  <2>1. Proceed(t, l)
    BY <1>5 DEF Get
  <2>2. loc[t] \in Locals /\ Ready(t) /\ Current \in Objects
    BY <1>3 DEF TInv, Types
  <2>3. /\ l \in Locals /\ l.kind = loc[t].kind /\ l.name = loc[t].name /\ l.pw = loc[t].pw
        /\ l.shared = loc[t].shared /\ l.recovery = loc[t].recovery /\ l.v \in Objects
    BY <2>2 DEF Locals
  <2> HIDE DEF l
  <2> QED
    BY <1>1, <1>3, <2>1, <2>2, <2>3, ProceedGoes DEF Ready
<1> QED
  BY <1>4, <1>5

\* The object a creation works on.
LEMMA MineIs ==
    ASSUME TInv, NEW t \in Tasks, Going(t), Creator(t), Pos(t) \in 6..12
    PROVE  /\ loc[t].v \in Objects /\ loc[t].v \in InUse /\ Mine(t) = object[loc[t].v]
           /\ Mine(t).name \in Names /\ Mine(t).data \in Data \cup {None}
           /\ Ready(t) /\ loc[t] \in Locals /\ loc[t].pw \in Keys
           /\ Pos(t) > 7 => file[Mine(t).name] # None
<1>1. Ready(t) /\ loc[t] \in Locals /\ Pos(t) \in Int
  BY DEF TInv, Types
<1>2. Makes(t, 5, 20) /\ (Pos(t) > 7 => Makes(t, 7, 12))
  BY DEF Makes, Creates, SetsUp, Creator
<1>3. loc[t].v \in Objects /\ (Pos(t) > 7 => file[object[loc[t].v].name] # None) /\ loc[t].pw \in Keys
  BY <1>1, <1>2 DEF Ready
<1>4. object[loc[t].v].name \in Names /\ object[loc[t].v].data \in Data \cup {None}
  BY <1>3 DEF TInv, Types, SharedTypes
<1> QED
  BY <1>1, <1>3, <1>4 DEF Mine, InUse

\* Mint keeps the types and plans.
LEMMA MintTypes == ASSUME TInv, NEW t \in Tasks, Mint(t) PROVE TInv'
<1>1. Going(t) /\ Creator(t) /\ Pos(t) = 6
  BY Where DEF Mint
<1>2. UNCHANGED <<disk, vault, master, pending, sessions, seen, audited>>
  BY DEF Mint
<1>3. /\ loc[t].v \in Objects /\ loc[t] \in Locals /\ Ready(t) /\ loc[t].pw \in Keys
  BY <1>1, MineIs
<1>4. CASE file[Mine(t).name] = None
  <2> DEFINE new == [pw |-> loc[t].pw, agent |-> t, form |-> None]
             l == [loc[t] EXCEPT !.agent = t]
  <2>1. new \in Data /\ object' = [object EXCEPT ![loc[t].v].data = new] /\ crossed' \in BOOLEAN
    BY <1>3, <1>4 DEF Mint, Change, Cross, Data, Keys
  <2>2. Proceed(t, l)
    BY <1>4 DEF Mint
  <2>3. /\ l \in Locals /\ l.kind = loc[t].kind /\ l.name = loc[t].name /\ l.pw = loc[t].pw
        /\ l.shared = loc[t].shared /\ l.recovery = loc[t].recovery /\ l.v = loc[t].v
    BY <1>3 DEF Locals, Keyed, Keys
  <2> HIDE DEF new, l
  <2>4. /\ object' \in [Objects -> [name : Names, data : Data \cup {None}]]
        /\ \A o \in Objects : object'[o].name = object[o].name
    BY <1>3, <2>1 DEF TInv, Types, SharedTypes
  <2>5. SharedTypes' /\ Steady
    BY <1>2, <2>1, <2>4 DEF TInv, Types, SharedTypes, Steady, disk, sessions
  <2> QED
    BY <1>1, <1>3, <2>2, <2>3, <2>5, ProceedGoes DEF Ready
<1>5. CASE Done(t) /\ UNCHANGED <<object, crossed>>
  <2>1. SharedTypes' /\ Steady
    BY <1>2, <1>5 DEF TInv, Types, SharedTypes, Steady, disk, sessions
  <2> QED
    BY <1>1, <1>5, <2>1, DoneGoes
<1> QED
  BY <1>4, <1>5 DEF Mint

\* Vault.save() of an object a creation works on.
LEMMA WriteTypes ==
    ASSUME TInv, NEW t \in Tasks, loc[t].v \in Objects, Mine(t).name \in Names, NEW data \in Data,
           Write(t, data),
           UNCHANGED <<bundle, pointer, vault, master, pending, sessions, history>>
    PROVE  /\ SharedTypes' /\ Steady /\ file'[object'[loc[t].v].name] # None
           /\ file' = [file EXCEPT ![Mine(t).name] = data]
           /\ \A n \in Names : file'[n] = IF n = Mine(t).name THEN data ELSE file[n]
           /\ \A o \in Objects : object'[o].name = object[o].name
           /\ object'[loc[t].v].data = data
           /\ \A o \in Objects : o # loc[t].v => object'[o] = object[o]
<1>1. object' = [object EXCEPT ![loc[t].v].data = data] /\ file' = [file EXCEPT ![Mine(t).name] = data]
  BY DEF Write, Change
<1>2. /\ file \in [Names -> Data \cup {None}]
      /\ object \in [Objects -> [name : Names, data : Data \cup {None}]]
  BY DEF TInv, Types, SharedTypes
<1>3. data # None
  BY KeyHandoverAssumption
<1>4. /\ \A o \in Objects : object'[o].name = object[o].name
      /\ object'[loc[t].v].data = data
      /\ \A o \in Objects : o # loc[t].v => object'[o] = object[o]
      /\ object' \in [Objects -> [name : Names, data : Data \cup {None}]]
  BY <1>1, <1>2
<1>5. /\ file' \in [Names -> Data \cup {None}]
      /\ \A n \in Names : file'[n] = IF n = Mine(t).name THEN data ELSE file[n]
  BY <1>1, <1>2
<1>6. SharedTypes'
  BY <1>4, <1>5 DEF TInv, Types, SharedTypes, sessions, history
<1>7. Steady
  BY <1>3, <1>4, <1>5 DEF Steady, sessions
<1>8. file'[object'[loc[t].v].name] # None
  BY <1>3, <1>4, <1>5 DEF Mine
<1> QED
  BY <1>1, <1>4, <1>5, <1>6, <1>7, <1>8

\* Save keeps the types and plans.
LEMMA SaveTypes == ASSUME TInv, NEW t \in Tasks, Save(t) PROVE TInv'
<1>1. Going(t) /\ Creator(t) /\ Pos(t) = 7
  BY Where DEF Save
<1>2. UNCHANGED <<bundle, pointer, vault, master, pending, sessions, history>>
  BY DEF Save
<1>3. /\ loc[t].v \in Objects /\ loc[t] \in Locals /\ Ready(t) /\ loc[t].pw \in Keys
      /\ Mine(t).name \in Names /\ Mine(t).data \in Data \cup {None}
  BY <1>1, MineIs
<1>4. CASE Mine(t).data # None
  <2> DEFINE d == [Mine(t).data EXCEPT !.pw = loc[t].pw]
  <2>1. d \in Data
    BY <1>3, <1>4 DEF Data
  <2>2. Write(t, d) /\ Proceed(t, loc[t])
    BY <1>4 DEF Save
  <2> HIDE DEF d
  <2>3. SharedTypes' /\ Steady /\ file'[object'[loc[t].v].name] # None
    BY <1>2, <1>3, <2>1, <2>2, WriteTypes
  <2> QED
    BY <1>1, <1>3, <2>2, <2>3, ProceedGoes DEF Ready
<1>5. CASE Done(t) /\ UNCHANGED <<file, object>>
  <2>1. SharedTypes' /\ Steady
    BY <1>2, <1>5 DEF TInv, Types, SharedTypes, Steady, sessions, history
  <2> QED
    BY <1>1, <1>5, <2>1, DoneGoes
<1> QED
  BY <1>4, <1>5 DEF Save

\* Adopt keeps the types and plans.
LEMMA AdoptTypes == ASSUME TInv, NEW t \in Tasks, Adopt(t) PROVE TInv'
<1>1. Going(t) /\ Creator(t) /\ Pos(t) = 8
  BY Where DEF Adopt
<1>2. UNCHANGED <<bundle, pointer, vault, master, pending, sessions, history>>
  BY DEF Adopt
<1>3. /\ loc[t].v \in Objects /\ loc[t] \in Locals /\ Ready(t) /\ loc[t].pw \in Keys
      /\ Mine(t).name \in Names /\ Mine(t).data \in Data \cup {None}
  BY <1>1, MineIs
<1>4. CASE loc[t].shared # None /\ Mine(t).data # None
  <2> DEFINE d == [Mine(t).data EXCEPT !.agent = loc[t].shared]
             l == [loc[t] EXCEPT !.agent = None]
  <2>1. d \in Data
    BY <1>3, <1>4 DEF Data, Locals, Keyed
  <2>2. Write(t, d) /\ Proceed(t, l)
    BY <1>4 DEF Adopt
  <2>3. /\ l \in Locals /\ l.kind = loc[t].kind /\ l.name = loc[t].name /\ l.pw = loc[t].pw
        /\ l.shared = loc[t].shared /\ l.recovery = loc[t].recovery /\ l.v = loc[t].v
    BY <1>3 DEF Locals, Keyed
  <2> HIDE DEF d, l
  <2>4. SharedTypes' /\ Steady /\ file'[object'[loc[t].v].name] # None
    BY <1>2, <1>3, <2>1, <2>2, WriteTypes
  <2> QED
    BY <1>1, <1>3, <2>2, <2>3, <2>4, ProceedGoes DEF Ready
<1>5. CASE (Proceed(t, loc[t]) \/ Done(t)) /\ UNCHANGED <<file, object>>
  <2>1. SharedTypes' /\ Steady
    BY <1>2, <1>5 DEF TInv, Types, SharedTypes, Steady, sessions, history
  <2> QED
    BY <1>1, <1>5, <2>1, OwnGoes
<1> QED
  BY <1>4, <1>5 DEF Adopt

\* Unlock keeps the types and plans.
LEMMA UnlockTypes == ASSUME TInv, NEW t \in Tasks, Unlock(t) PROVE TInv'
<1>1. Going(t) /\ Creator(t) /\ Pos(t) = 9
  BY Where DEF Unlock
<1>2. UNCHANGED <<disk, vault, master, pending, sessions, history>>
  BY DEF Unlock
<1>3. /\ loc[t].v \in Objects /\ Mine(t).name \in Names
  BY <1>1, MineIs
<1>4. Proceed(t, loc[t]) \/ Done(t)
  BY DEF Unlock
<1>5. \/ UNCHANGED object
      \/ object' = [object EXCEPT ![loc[t].v].data = file[Mine(t).name]]
  BY DEF Unlock, Change
<1>6. /\ object' \in [Objects -> [name : Names, data : Data \cup {None}]]
      /\ \A o \in Objects : object'[o].name = object[o].name
  <2>1. /\ object \in [Objects -> [name : Names, data : Data \cup {None}]]
        /\ file[Mine(t).name] \in Data \cup {None}
    BY <1>3 DEF TInv, Types, SharedTypes
  <2> DEFINE d == file[Mine(t).name]
  <2> HIDE DEF d
  <2>2. UNCHANGED object \/ object' = [object EXCEPT ![loc[t].v].data = d]
    BY <1>5 DEF d
  <2>3. d \in Data \cup {None}
    BY <2>1 DEF d
  <2> QED
    BY <1>3, <2>1, <2>2, <2>3
<1>7. SharedTypes' /\ Steady
  BY <1>2, <1>6 DEF TInv, Types, SharedTypes, Steady, disk, sessions, history
<1> QED
  BY <1>1, <1>4, <1>7, OwnGoes

\* Install keeps the types and plans.
LEMMA InstallTypes == ASSUME TInv, NEW t \in Tasks, Install(t) PROVE TInv'
<1>1. Going(t) /\ Creator(t) /\ Pos(t) = 10
  BY Where DEF Install
<1>2. /\ UNCHANGED <<disk, vault, object, pending, sessions, history>>
      /\ master' = loc[t].pw /\ Proceed(t, loc[t])
  BY DEF Install
<1>3. loc[t].pw \in Keys
  BY <1>1, MineIs
<1>4. SharedTypes' /\ Steady
  BY <1>2, <1>3 DEF TInv, Types, SharedTypes, Steady, disk, sessions, history, Keyed
<1> QED
  BY <1>1, <1>2, <1>4, OwnProceeds

\* The object a request reopens.
LEMMA ReopenedIs ==
    ASSUME TInv, NEW t \in Tasks, Reopens(t)
    PROVE  /\ loc[t].v \in Objects /\ loc[t].v \in InUse /\ Mine(t) = object[loc[t].v]
           /\ Mine(t).name \in Names /\ Mine(t).data \in Data \cup {None}
           /\ Ready(t) /\ loc[t] \in Locals /\ loc[t].pw \in Keys
<1>1. Ready(t) /\ loc[t] \in Locals
  BY DEF TInv, Types
<1>2. loc[t].v \in Objects /\ loc[t].pw \in Keys
  BY <1>1 DEF Ready, Reopens
<1>3. object[loc[t].v].name \in Names /\ object[loc[t].v].data \in Data \cup {None}
  BY <1>2 DEF TInv, Types, SharedTypes
<1> QED
  BY <1>1, <1>2, <1>3 DEF Mine, InUse

\* Decrypt keeps the types and plans.
LEMMA DecryptTypes == ASSUME TInv, NEW t \in Tasks, Decrypt(t) PROVE TInv'
<1>1. Going(t) /\ IsA(t, "use") /\ Pos(t) = 5 /\ Reopens(t)
  BY Where DEF Decrypt, Reopens
<1>2. /\ UNCHANGED <<disk, vault, master, pending, sessions, seen, audited>>
      /\ crossed' \in BOOLEAN
  BY DEF Decrypt, Cross
<1>3. /\ loc[t].v \in Objects /\ Mine(t).name \in Names
  BY <1>1, ReopenedIs
<1>4. Proceed(t, loc[t]) \/ Done(t)
  BY DEF Decrypt
<1>5. \/ UNCHANGED object
      \/ object' = [object EXCEPT ![loc[t].v].data = file[Mine(t).name]]
  BY DEF Decrypt, Change
<1>6. /\ object' \in [Objects -> [name : Names, data : Data \cup {None}]]
      /\ \A o \in Objects : object'[o].name = object[o].name
  <2>1. /\ object \in [Objects -> [name : Names, data : Data \cup {None}]]
        /\ file[Mine(t).name] \in Data \cup {None}
    BY <1>3 DEF TInv, Types, SharedTypes
  <2> DEFINE d == file[Mine(t).name]
  <2> HIDE DEF d
  <2>2. UNCHANGED object \/ object' = [object EXCEPT ![loc[t].v].data = d]
    BY <1>5 DEF d
  <2>3. d \in Data \cup {None}
    BY <2>1 DEF d
  <2> QED
    BY <1>3, <2>1, <2>2, <2>3
<1>7. SharedTypes' /\ Steady
  BY <1>2, <1>6 DEF TInv, Types, SharedTypes, Steady, disk, sessions
<1>8. ~Creator(t) /\ ~IsA(t, "create")
  BY <1>1 DEF Creator, IsA
<1> QED
  BY <1>1, <1>4, <1>7, <1>8, OwnGoes

\* Restore keeps the types and plans.
LEMMA RestoreTypes == ASSUME TInv, NEW t \in Tasks, Restore(t) PROVE TInv'
<1>1. Going(t) /\ IsA(t, "use") /\ Pos(t) = 6 /\ Reopens(t)
  BY Where DEF Restore, Reopens
<1>2. /\ UNCHANGED <<disk, vault, object, pending, sessions, history>>
      /\ master' = loc[t].pw /\ Proceed(t, loc[t])
  BY DEF Restore
<1>3. loc[t].pw \in Keys
  BY <1>1, ReopenedIs
<1>4. SharedTypes' /\ Steady
  BY <1>2, <1>3 DEF TInv, Types, SharedTypes, Steady, disk, sessions, history, Keyed
<1>5. ~Creator(t) /\ ~IsA(t, "create")
  BY <1>1 DEF Creator, IsA
<1> QED
  BY <1>1, <1>2, <1>4, <1>5, OwnProceeds

\* WriteRecoveryBundle keeps the types and plans.
LEMMA BundleTypes == ASSUME TInv, NEW t \in Tasks, WriteRecoveryBundle(t) PROVE TInv'
<1>1. Going(t) /\ Creator(t) /\ Pos(t) = 11
  BY Where DEF WriteRecoveryBundle
<1> DEFINE l == [loc[t] EXCEPT !.recovery = t]
<1>2. /\ UNCHANGED <<file, pointer, memory, sessions, history>>
      /\ bundle' = [bundle EXCEPT ![Mine(t).name] = t] /\ Proceed(t, l)
  BY DEF WriteRecoveryBundle
<1>3. /\ loc[t].v \in Objects /\ loc[t] \in Locals /\ Ready(t) /\ loc[t].pw \in Keys
      /\ Mine(t).name \in Names /\ file[Mine(t).name] # None
  BY <1>1, MineIs
<1>4. /\ l \in Locals /\ l.kind = loc[t].kind /\ l.name = loc[t].name /\ l.pw = loc[t].pw
      /\ l.shared = loc[t].shared /\ l.v = loc[t].v
  BY <1>3 DEF Locals, Keyed, Keys
<1> HIDE DEF l
<1>5. bundle' \in [Names -> Keyed]
  BY <1>2 DEF TInv, Types, SharedTypes, Keyed, Keys
<1>6. SharedTypes' /\ Steady
  BY <1>2, <1>5 DEF TInv, Types, SharedTypes, Steady, memory, sessions, history
<1>7. file'[object'[l.v].name] # None
  BY <1>2, <1>3, <1>4 DEF Mine, memory
<1> QED
  BY <1>1, <1>2, <1>3, <1>4, <1>6, <1>7, ProceedGoes DEF Ready

\* Pend keeps the types and plans.
LEMMA PendTypes == ASSUME TInv, NEW t \in Tasks, Pend(t) PROVE TInv'
<1>1. Going(t) /\ Creator(t) /\ Pos(t) = 12
  BY Where DEF Pend
<1> DEFINE l == [loc[t] EXCEPT !.recovery = None]
<1>2. /\ UNCHANGED <<disk, vault, object, master, sessions, seen, audited>>
      /\ pending' = loc[t].recovery /\ crossed' \in BOOLEAN /\ Proceed(t, l)
  BY DEF Pend, Cross
<1>3. /\ loc[t].v \in Objects /\ loc[t] \in Locals /\ Ready(t) /\ loc[t].pw \in Keys
  BY <1>1, MineIs
<1>4. /\ l \in Locals /\ l.kind = loc[t].kind /\ l.name = loc[t].name /\ l.pw = loc[t].pw
      /\ l.shared = loc[t].shared /\ l.v = loc[t].v /\ loc[t].recovery \in Keyed
  BY <1>3 DEF Locals, Keyed
<1> HIDE DEF l
<1>5. SharedTypes' /\ Steady
  BY <1>2, <1>4 DEF TInv, Types, SharedTypes, Steady, disk, sessions
<1> QED
  BY <1>1, <1>2, <1>3, <1>4, <1>5, ProceedGoes DEF Ready

\* ConsumePendingRecoveryKey keeps the types and plans.
LEMMA ConsumeTypes == ASSUME TInv, NEW t \in Tasks, ConsumePendingRecoveryKey(t) PROVE TInv'
<1>1. Going(t) /\ Creator(t) /\ Pos(t) \in {13, 15} /\ (IsA(t, "create") => Pos(t) = 13)
  BY Where DEF ConsumePendingRecoveryKey, Creator, IsA
<1> DEFINE l == [loc[t] EXCEPT !.recovery = pending]
<1>2. /\ UNCHANGED <<disk, vault, object, master, sessions, seen, audited>>
      /\ pending' = None /\ crossed' \in BOOLEAN /\ Proceed(t, l)
  BY DEF ConsumePendingRecoveryKey, Cross
<1>3. loc[t] \in Locals /\ Ready(t) /\ pending \in Keyed
  BY DEF TInv, Types, SharedTypes
<1>4. /\ l \in Locals /\ l.kind = loc[t].kind /\ l.name = loc[t].name /\ l.pw = loc[t].pw
      /\ l.shared = loc[t].shared /\ l.v = loc[t].v
  BY <1>3 DEF Locals
<1> HIDE DEF l
<1>5. SharedTypes' /\ Steady
  BY <1>2, <1>4 DEF TInv, Types, SharedTypes, Steady, disk, sessions, Keyed
<1>6. loc[t].v \in Objects
  BY <1>1, <1>3 DEF Ready, Makes, Creates, SetsUp, Creator
<1> QED
  BY <1>1, <1>2, <1>3, <1>4, <1>5, <1>6, ProceedGoes DEF Ready

\* GetVaultData keeps the types and plans.
LEMMA DataTypes == ASSUME TInv, NEW t \in Tasks, GetVaultData(t) PROVE TInv'
<1>1. Going(t) /\ IsA(t, "create") /\ Creator(t) /\ Pos(t) = 14
  BY Where DEF GetVaultData, Creator
<1>2. LookUp /\ UNCHANGED <<disk, master, pending, sessions, history>>
  BY DEF GetVaultData
<1>3. SharedTypes' /\ Steady /\ Current \in Objects
  BY <1>2, LoadedData, GotTypes, GotSteady, GotVault
     DEF LookUp, TInv, Types, SharedTypes, disk, sessions, history
<1>4. CASE Done(t)
  BY <1>1, <1>3, <1>4, DoneGoes
<1>5. CASE ~Done(t)
  <2> DEFINE l == [loc[t] EXCEPT !.d = Current]
  <2>1. Proceed(t, l)
    BY <1>5 DEF GetVaultData
  <2>2. loc[t] \in Locals /\ Ready(t) /\ Current \in Objects
    BY <1>3 DEF TInv, Types
  <2>3. /\ l \in Locals /\ l.kind = loc[t].kind /\ l.name = loc[t].name /\ l.pw = loc[t].pw
        /\ l.shared = loc[t].shared /\ l.recovery = loc[t].recovery /\ l.v = loc[t].v
        /\ l.d \in Objects
    BY <2>2 DEF Locals
  <2> HIDE DEF l
  <2>4. loc[t].v \in Objects
    BY <1>1, <2>2 DEF Ready, Makes, Creates
  <2> QED
    BY <1>1, <1>3, <2>1, <2>2, <2>3, <2>4, ProceedGoes DEF Ready
<1> QED
  BY <1>4, <1>5

\* ApplyDefinitionForm keeps the types and plans.
LEMMA ApplyTypes == ASSUME TInv, NEW t \in Tasks, ApplyDefinitionForm(t) PROVE TInv'
<1>1. Going(t) /\ IsA(t, "create") /\ Pos(t) = 15
  BY Where DEF ApplyDefinitionForm
<1>2. UNCHANGED <<disk, vault, master, pending, sessions, history>> /\ Proceed(t, loc[t])
  BY DEF ApplyDefinitionForm
<1>3. Ready(t) /\ loc[t].d \in Objects /\ loc[t].name \in Names
  BY <1>1 DEF TInv, Ready, Creates
<1>4. \/ UNCHANGED object
      \/ /\ object[loc[t].d].data # None
         /\ object' = [object EXCEPT ![loc[t].d].data.form = loc[t].name]
  BY DEF ApplyDefinitionForm
<1>5. /\ object' \in [Objects -> [name : Names, data : Data \cup {None}]]
      /\ \A o \in Objects : object'[o].name = object[o].name
  <2>1. object \in [Objects -> [name : Names, data : Data \cup {None}]]
    BY DEF TInv, Types, SharedTypes
  <2>2. CASE UNCHANGED object
    BY <2>1, <2>2
  <2>3. CASE /\ object[loc[t].d].data # None
             /\ object' = [object EXCEPT ![loc[t].d].data.form = loc[t].name]
    <3> DEFINE o == object[loc[t].d]
               new == [o.data EXCEPT !.form = loc[t].name]
    <3>1. o.data \in Data
      BY <1>3, <2>1, <2>3
    <3>2. new \in Data
      BY <1>3, <3>1 DEF Data
    <3>3. object' = [object EXCEPT ![loc[t].d].data = new]
      BY <2>3
    <3> HIDE DEF new
    <3> QED
      BY <1>3, <2>1, <3>2, <3>3
  <2> QED
    BY <1>4, <2>2, <2>3
<1>6. SharedTypes' /\ Steady
  BY <1>2, <1>5 DEF TInv, Types, SharedTypes, Steady, disk, sessions, history
<1> QED
  BY <1>1, <1>2, <1>6, OwnProceeds

\* SaveVault keeps the types and plans.
LEMMA SaveVaultTypes == ASSUME TInv, NEW t \in Tasks, SaveVault(t) PROVE TInv'
<1>1. Going(t) /\ IsA(t, "create") /\ Pos(t) = 16
  BY Where DEF SaveVault
<1>2. LookUp /\ UNCHANGED <<bundle, pointer, master, pending, sessions, history>>
  BY DEF SaveVault
<1>3. Proceed(t, loc[t]) \/ Done(t)
  BY DEF SaveVault
<1>4. \/ UNCHANGED file
      \/ Unlocked /\ file' = [file EXCEPT ![pointer] = Loaded[Current].data]
  BY DEF SaveVault
<1>5. Loaded[Current].data \in Data \cup {None} /\ (Unlocked => Loaded[Current].data # None)
  BY LoadedData DEF Unlocked
<1>6. file' \in [Names -> Data \cup {None}] /\ \A n \in Names : file[n] # None => file'[n] # None
  BY <1>4, <1>5 DEF TInv, Types, SharedTypes
<1>7. /\ \A o \in Objects : o \in InUse => object'[o].name = object[o].name
      /\ vault' \in Objects \cup {None}
      /\ object' \in [Objects -> [name : Names, data : Data \cup {None}]]
  BY <1>2, <1>5, GotVault DEF LookUp
<1>8. SharedTypes' /\ Steady
  BY <1>2, <1>6, <1>7 DEF TInv, Types, SharedTypes, Steady, sessions, history
<1> QED
  BY <1>1, <1>3, <1>8, OwnGoes

\* AdminAudit keeps the types and plans.
LEMMA AuditTypes == ASSUME TInv, NEW t \in Tasks, AdminAudit(t) PROVE TInv'
<1>1. Going(t) /\ Pos(t) = 17
  BY Where DEF AdminAudit
<1>2. /\ UNCHANGED <<disk, memory, sessions, seen, crossed>> /\ Proceed(t, loc[t])
      /\ audited' = audited \cup {loc[t].name}
  BY DEF AdminAudit
<1>3. loc[t].name \in Names
  BY <1>1 DEF TInv, Ready
<1>4. SharedTypes' /\ Steady
  BY <1>2, <1>3 DEF TInv, Types, SharedTypes, Steady, disk, memory, sessions
<1> QED
  BY <1>1, <1>2, <1>4, OwnProceeds

\* A session of a creation may change.
LEMMA SessionTypes ==
    ASSUME TInv, NEW t \in Tasks, Creator(t), UNCHANGED <<file, object>>,
           session' = session \/ \E s \in Shows : session' = [session EXCEPT ![t] = s]
    PROVE  session' \in [Tasks -> Shows \cup {None}] /\ Steady
<1>1. session \in [Tasks -> Shows \cup {None}]
  BY DEF TInv, Types, SharedTypes
<1> QED
  BY <1>1 DEF Steady

\* CreateSession keeps the types and plans.
LEMMA OpenSessionTypes == ASSUME TInv, NEW t \in Tasks, CreateSession(t) PROVE TInv'
<1>1. Going(t) /\ Creator(t) /\ Pos(t) \in {13, 18} /\ (IsA(t, "create") => Pos(t) = 18)
  BY Where DEF CreateSession, Creator, IsA
<1> DEFINE s == [agent |-> None, recovery |-> None]
<1>2. /\ UNCHANGED <<disk, memory, history>> /\ Proceed(t, loc[t])
      /\ session' = [session EXCEPT ![t] = s] /\ signed' = TRUE
  BY DEF CreateSession
<1>3. s \in Shows
  BY DEF Shows
<1> HIDE DEF s
<1>4. session' \in [Tasks -> Shows \cup {None}] /\ Steady
  BY <1>1, <1>2, <1>3, SessionTypes DEF disk, memory
<1>5. SharedTypes'
  BY <1>2, <1>4 DEF TInv, Types, SharedTypes, disk, memory, history
<1> QED
  BY <1>1, <1>2, <1>4, <1>5, OwnProceeds

\* Find keeps the types and plans.
LEMMA FindTypes == ASSUME TInv, NEW t \in Tasks, Find(t) PROVE TInv'
<1>1. Going(t) /\ IsA(t, "setup") /\ Pos(t) = 14 /\ loc[t].kind \in Kinds
  BY Where DEF Find
<1>2. UNCHANGED <<disk, memory, sessions, history>>
  BY DEF Find
<1>3. SharedTypes' /\ Steady
  BY <1>2 DEF TInv, Types, SharedTypes, Steady, disk, memory, sessions, history
<1>4. CASE Proceed(t, loc[t])
  BY <1>1, <1>3, <1>4, OwnProceeds DEF IsA, Creator
<1>5. CASE todo' = [todo EXCEPT ![t] = <<"audit">>] /\ UNCHANGED loc
  <2> DEFINE s == <<"audit">>
  <2>1. /\ s \in Seq(StepNames) /\ Len(s) = 1 /\ Len(s) \in 1..3
        /\ PlanOf(loc[t].kind, s)
    BY <1>1, PlanJumps DEF IsA
  <2>2. todo' = [todo EXCEPT ![t] = s] /\ UNCHANGED loc
    BY <1>5
  <2> HIDE DEF s
  <2>3. /\ Elsewhere(t) /\ loc' \in [Tasks -> Locals] /\ todo' \in [Tasks -> Seq(StepNames)]
        /\ Planned(t)' /\ loc'[t] = loc[t] /\ Going(t)' /\ Pos(t)' = 17
    <3>1. /\ Elsewhere(t) /\ loc' \in [Tasks -> Locals] /\ todo' \in [Tasks -> Seq(StepNames)]
          /\ Planned(t)' /\ loc'[t] = loc[t] /\ Going(t)' /\ Pos(t)' = End(loc[t].kind) - 1
      BY <1>1, <2>1, <2>2, JumpMoves
    <3>2. End(loc[t].kind) = 18
      BY <1>1, Ends DEF IsA
    <3> QED
      BY <3>1, <3>2
  <2>4. Ready(t) /\ Makes(t, 5, 20) /\ Creator(t)' /\ IsA(t, "setup")
    BY <1>1, <2>3 DEF TInv, Makes, SetsUp, Creator, IsA
  <2>5. ~Creates(t, 14, 15)' /\ ~Makes(t, 7, 12)'
    BY <2>3 DEF Makes, SetsUp, Creates
  <2>6. Ready(t)'
    BY <1>1, <2>3, <2>4, <2>5 DEF Ready, IsA, Reopens
  <2> QED
    BY <1>3, <2>3, <2>6, OthersReady DEF TInv, Types
<1> QED
  BY <1>4, <1>5 DEF Find

\* Show keeps the types and plans.
LEMMA ShowTypes == ASSUME TInv, NEW t \in Tasks, Show(t) PROVE TInv'
<1>1. Going(t) /\ Creator(t) /\ Pos(t) \in {16, 19}
  BY Where DEF Show, Creator, IsA
<1> DEFINE s == [agent |-> loc[t].agent, recovery |-> loc[t].recovery]
<1>2. /\ UNCHANGED <<disk, memory, signed, history>> /\ Proceed(t, loc[t])
      /\ session' = session \/ session' = [session EXCEPT ![t] = s]
  BY DEF Show
<1>3. s \in Shows
  <2>1. loc[t] \in Locals
    BY DEF TInv, Types
  <2> QED
    BY <2>1 DEF Locals, Keyed, Shows
<1> HIDE DEF s
<1>4. session' \in [Tasks -> Shows \cup {None}] /\ Steady
  BY <1>1, <1>2, <1>3, SessionTypes DEF disk, memory
<1>5. SharedTypes'
  BY <1>2, <1>4 DEF TInv, Types, SharedTypes, disk, memory, history
<1> QED
  BY <1>1, <1>2, <1>4, <1>5, OwnProceeds

\* A step that belongs to no request under way.
LEMMA NobodyMoves ==
    ASSUME TInv, UNCHANGED <<loc, todo>>, SharedTypes', Steady
    PROVE  TInv'
<1>1. ASSUME NEW u \in Tasks, \E t \in Tasks : t # u PROVE Planned(u)' /\ Ready(u)'
  BY <1>1, OthersReady DEF Elsewhere
<1>2. ASSUME NEW u \in Tasks PROVE Planned(u)' /\ Ready(u)'
  <2>1. loc'[u] = loc[u] /\ todo'[u] = todo[u] /\ Planned(u) /\ Ready(u)
    BY DEF TInv
  <2>2. /\ Planned(u)' /\ Going(u)' = Going(u) /\ Pos(u)' = Pos(u)
        /\ \A k : IsA(u, k)' = IsA(u, k)
    BY <2>1 DEF Planned, Going, Pos, IsA
  <2>3. /\ Creator(u)' = Creator(u) /\ \A i, j : Creates(u, i, j)' = Creates(u, i, j)
        /\ \A i, j : Makes(u, i, j)' = Makes(u, i, j)
        /\ Reopens(u)' = Reopens(u)
    BY <2>2 DEF Creator, Creates, SetsUp, Makes, Reopens
  <2>4. ~Creator(u) => session'[u] = None
    BY <2>1 DEF Ready, Steady
  <2>5. ASSUME Makes(u, 7, 12) PROVE file'[object'[loc[u].v].name] # None
    <3>1. loc[u].kind # None
      BY <2>5, KeyHandoverAssumption DEF TInv, Planned, PlanOf, Going, Makes, Creates, SetsUp
    <3>2. Makes(u, 5, 20)
      BY <2>5, <3>1, PosInt DEF Makes, Creates, SetsUp
    <3>3. loc[u].v \in Objects /\ loc[u].v \in InUse /\ file[object[loc[u].v].name] # None
      BY <2>1, <2>5, <3>2 DEF Ready, InUse
    <3>4. object[loc[u].v].name \in Names
      BY <3>3 DEF TInv, Types, SharedTypes
    <3> QED
      BY <3>3, <3>4 DEF Steady
  <2> QED
    BY <2>1, <2>2, <2>3, <2>4, <2>5 DEF Ready
<1> QED
  BY <1>2 DEF TInv, Types

\* AgentPage keeps the types and plans.
LEMMA PageTypes == ASSUME TInv, NEW t \in Tasks, AgentPage(t) PROVE TInv'
<1> DEFINE s == [agent |-> None, recovery |-> None]
<1>1. /\ LookUp /\ UNCHANGED <<disk, master, pending, signed, todo, loc, audited, crossed>>
      /\ session[t] # None /\ session[t].recovery # None
      /\ session' = [session EXCEPT ![t] = s] /\ seen' = seen \cup {session[t].recovery}
  BY DEF AgentPage
<1>2. s \in Shows
  BY DEF Shows
<1> HIDE DEF s
<1>3. Creator(t) /\ session[t] \in Shows /\ session \in [Tasks -> Shows \cup {None}]
  BY <1>1 DEF TInv, Types, SharedTypes, Ready
<1>4. session' \in [Tasks -> Shows \cup {None}] /\ seen' \subseteq Keys
  BY <1>1, <1>2, <1>3 DEF TInv, Types, SharedTypes, Shows
<1>5. /\ \A o \in Objects : o \in InUse => object'[o].name = object[o].name
      /\ vault' \in Objects \cup {None}
      /\ object' \in [Objects -> [name : Names, data : Data \cup {None}]]
  BY <1>1, LoadedData, GotVault DEF LookUp
<1>6. SharedTypes' /\ Steady
  BY <1>1, <1>3, <1>4, <1>5 DEF TInv, Types, SharedTypes, Steady, disk
<1> QED
  BY <1>1, <1>6, NobodyMoves

\* Lock keeps the types and plans.
LEMMA LockTypes == ASSUME TInv, NEW t \in Tasks, Lock(t) PROVE TInv'
<1>1. Going(t) /\ Pos(t) = 1
  BY Where DEF Lock
<1>2. /\ UNCHANGED <<disk, master, pending, sessions, seen, audited>>
      /\ crossed' \in BOOLEAN /\ Proceed(t, loc[t]) /\ GetVault(None)
  BY DEF Lock, Cross
<1>3. SharedTypes' /\ Steady
  BY <1>2, GotTypes, GotSteady DEF TInv, Types, SharedTypes, disk, sessions
<1> QED
  BY <1>1, <1>2, <1>3, OwnProceeds

\* ClearAllSessions keeps the types and plans.
LEMMA ClearTypes == ASSUME TInv, NEW t \in Tasks, ClearAllSessions(t) PROVE TInv'
<1>1. Going(t) /\ Pos(t) = 2
  BY Where DEF ClearAllSessions
<1>2. /\ UNCHANGED <<disk, memory, seen, audited>> /\ crossed' \in BOOLEAN
      /\ Proceed(t, loc[t]) /\ session' = [u \in Tasks |-> None] /\ signed' = FALSE
  BY DEF ClearAllSessions, Cross
<1>3. SharedTypes' /\ Steady
  BY <1>2 DEF TInv, Types, SharedTypes, Steady, disk, memory
<1> QED
  BY <1>1, <1>2, <1>3, OwnProceeds

\* Forget keeps the types and plans.
LEMMA ForgetTypes == ASSUME TInv, NEW t \in Tasks, Forget(t) PROVE TInv'
<1>1. Going(t) /\ Pos(t) = 3 /\ ~Creator(t)
  BY Where DEF Forget, Creator, IsA
<1>2. /\ UNCHANGED <<disk, vault, object, pending, sessions, seen, audited>>
      /\ crossed' \in BOOLEAN /\ Proceed(t, loc[t]) /\ master' = None
  BY DEF Forget, Cross
<1>3. SharedTypes' /\ Steady
  BY <1>2 DEF TInv, Types, SharedTypes, Steady, disk, sessions, Keyed
<1> QED
  BY <1>1, <1>2, <1>3, OwnProceeds DEF Creator

\* The invariant of types and plans holds at the start.
LEMMA TInit == Init => TInv
<1> SUFFICES ASSUME Init PROVE TInv
  OBVIOUS
<1>1. Running \in Data /\ Default \in Names /\ Old \in Keys
  BY KeyHandoverAssumption DEF Running, Data, Keys
<1>2. 1 \in Objects
  <2>1. Cardinality(Tasks) \in Nat
    BY KeyHandoverAssumption, FS_CardinalityType
  <2> QED
    BY <2>1 DEF Objects
<1>3. PICK data \in {Running, None} :
        LET old == IF data = None THEN None ELSE Old IN
        /\ file = [n \in Names |-> IF n = Default THEN data ELSE None]
        /\ bundle = [n \in Names |-> IF n = Default THEN old ELSE None]
        /\ vault = 1
        /\ object = [o \in Objects |-> IF o = 1 THEN [Unborn EXCEPT !.data = data] ELSE Unborn]
        /\ master = old
        /\ signed = (data # None)
        /\ audited = IF data = None THEN {} ELSE {Default}
  BY DEF Init
<1>4. data \in Data \cup {None}
  BY <1>1
<1>5. object \in [Objects -> [name : Names, data : Data \cup {None}]]
  BY <1>1, <1>3, <1>4 DEF Unborn
<1>6. SharedTypes
  BY <1>1, <1>2, <1>3, <1>4, <1>5 DEF SharedTypes, Init, Keyed
<1>7. loc \in [Tasks -> Locals] /\ todo \in [Tasks -> Seq(StepNames)]
  <2>1. NotBegun \in Locals
    BY DEF NotBegun, Locals, Keyed
  <2>2. <<>> \in Seq(StepNames)
    OBVIOUS
  <2> QED
    BY <2>1, <2>2 DEF Init
<1>8. ASSUME NEW t \in Tasks PROVE Planned(t) /\ Ready(t)
  <2>1. loc[t].kind = None /\ todo[t] = <<>> /\ session[t] = None /\ loc[t].recovery = None
    BY DEF Init, NotBegun
  <2>2. ~Going(t) /\ ~IsA(t, "setup") /\ ~Creator(t)
    BY <2>1, KeyHandoverAssumption DEF Going, IsA, Creator
  <2> QED
    BY <2>1, <2>2 DEF Planned, PlanOf, Ready, Makes, Creates, SetsUp, Reopens
<1> QED
  BY <1>6, <1>7, <1>8 DEF TInv, Types

\* Every step keeps the invariant of types and plans.
LEMMA TNext == TInv /\ [Next]_vars => TInv'
<1> SUFFICES ASSUME TInv, [Next]_vars PROVE TInv'
  OBVIOUS
<1>1. CASE UNCHANGED vars
  <2>1. UNCHANGED <<loc, todo>> /\ SharedTypes' /\ Steady
    BY <1>1 DEF TInv, Types, SharedTypes, Steady, vars, disk, memory, sessions, history
  <2> QED
    BY <2>1, NobodyMoves
<1>2. CASE Next
  <2>1. PICK t \in Tasks :
        \/ Request(t)
        \/ Fresh(t) \/ Admit(t) \/ CurrentSharedAgent(t)
        \/ Compare(t) \/ Point(t) \/ Reset(t)
        \/ Reopen(t) \/ Decrypt(t) \/ Restore(t)
        \/ Get(t) \/ Mint(t) \/ Save(t) \/ Adopt(t) \/ Unlock(t) \/ Install(t)
        \/ WriteRecoveryBundle(t) \/ Pend(t) \/ ConsumePendingRecoveryKey(t)
        \/ GetVaultData(t) \/ ApplyDefinitionForm(t) \/ SaveVault(t) \/ AdminAudit(t)
        \/ CreateSession(t) \/ Find(t) \/ Show(t) \/ AgentPage(t)
        \/ Lock(t) \/ ClearAllSessions(t) \/ Forget(t)
    BY <1>2 DEF Next
  <2> QED
    BY <2>1, BeginTypes, FreshTypes, AdmitTypes, SharedTypesKept, CompareTypes, PointTypes,
       ResetTypes, ReopenTypes, DecryptTypes, RestoreTypes, GetTypes, MintTypes, SaveTypes, AdoptTypes, UnlockTypes,
       InstallTypes, BundleTypes, PendTypes, ConsumeTypes, DataTypes, ApplyTypes,
       SaveVaultTypes, AuditTypes, OpenSessionTypes, FindTypes, ShowTypes, PageTypes,
       LockTypes, ClearTypes, ForgetTypes
<1> QED
  BY <1>1, <1>2

\* A request between two of its steps.
LEMMA BetweenIs ==
    ASSUME TInv, NEW u \in Tasks
    PROVE  /\ Between(u, "mint", "adopt") <=> Makes(u, 6, 8)
           /\ Between(u, "get", "pend") <=> Makes(u, 5, 12)
           /\ Between(u, "bundle", "pend") <=> Makes(u, 11, 12)
           /\ Between(u, "admit", "shared") <=> Creates(u, 1, 2)
           /\ Between(u, "admit", "save_form") <=> Creates(u, 1, 16)
           /\ Between(u, "point", "save_form") <=> Creates(u, 3, 16)
           /\ Between(u, "fresh", "get") <=> SetsUp(u, 4, 5)
           /\ Between(u, "fresh", "install") <=> SetsUp(u, 4, 10)
           /\ Between(u, "lock", "forget") <=> IsA(u, "lock") /\ Going(u) /\ Pos(u) \in 2..3
           /\ Between(u, "pend", "consume") <=> Creates(u, 12, 13) \/ SetsUp(u, 12, 15)
           /\ Between(u, "open_session", "show") <=> Creates(u, 18, 19) \/ SetsUp(u, 13, 16)
           /\ Reopening(u) <=> Reopens(u)
<1> DEFINE k == loc[u].kind
           s == todo[u]
           p == End(k) - Len(s)
<1>1. k \in Kinds \cup {None} /\ s \in Seq(StepNames) /\ PlanOf(k, s) /\ (s # <<>> => k # None)
  BY DEF TInv, Types, Locals, Planned, PlanOf
<1>2. \A f, l : Between(u, f, l) <=> After(k, s, f, l)
  BY DEF Between, After
<1>3. s # <<>> => p \in Int
  BY <1>1, PosInt DEF Pos
<1>4. /\ Going(u) <=> s # <<>>
      /\ Pos(u) = p
      /\ IsA(u, "create") <=> k = "create"
      /\ IsA(u, "setup") <=> k = "setup"
      /\ IsA(u, "lock") <=> k = "lock"
      /\ IsA(u, "use") <=> k = "use"
  BY DEF Going, Pos, IsA
<1>5. p = End(k) - Len(s)
  OBVIOUS
<1> HIDE DEF k, s, p
<1>6. Between(u, "mint", "adopt") <=> Makes(u, 6, 8)
  <2>1. After(k, s, "mint", "adopt") <=> k \in {"create", "setup"} /\ s # <<>> /\ p \in 7..8
    BY <1>1, <1>5, Spans DEF Spanned
  <2> QED
    BY <1>2, <1>3, <1>4, <2>1 DEF Makes, Creates, SetsUp
<1>7. Between(u, "get", "pend") <=> Makes(u, 5, 12)
  <2>1. After(k, s, "get", "pend") <=> k \in {"create", "setup"} /\ s # <<>> /\ p \in 6..12
    BY <1>1, <1>5, Spans DEF Spanned
  <2> QED
    BY <1>2, <1>3, <1>4, <2>1 DEF Makes, Creates, SetsUp
<1>8. Between(u, "bundle", "pend") <=> Makes(u, 11, 12)
  <2>1. After(k, s, "bundle", "pend") <=> k \in {"create", "setup"} /\ s # <<>> /\ p = 12
    BY <1>1, <1>5, Spans DEF Spanned
  <2> QED
    BY <1>2, <1>3, <1>4, <2>1 DEF Makes, Creates, SetsUp
<1>9. Between(u, "admit", "shared") <=> Creates(u, 1, 2)
  <2>1. After(k, s, "admit", "shared") <=> k = "create" /\ s # <<>> /\ p = 2
    BY <1>1, <1>5, Spans DEF Spanned
  <2> QED
    BY <1>2, <1>3, <1>4, <2>1 DEF Makes, Creates, SetsUp
<1>10. Between(u, "admit", "save_form") <=> Creates(u, 1, 16)
  <2>1. After(k, s, "admit", "save_form") <=> k = "create" /\ s # <<>> /\ p \in 2..16
    BY <1>1, <1>5, Spans DEF Spanned
  <2> QED
    BY <1>2, <1>3, <1>4, <2>1 DEF Makes, Creates, SetsUp
<1>11. Between(u, "point", "save_form") <=> Creates(u, 3, 16)
  <2>1. After(k, s, "point", "save_form") <=> k = "create" /\ s # <<>> /\ p \in 4..16
    BY <1>1, <1>5, Spans DEF Spanned
  <2> QED
    BY <1>2, <1>3, <1>4, <2>1 DEF Makes, Creates, SetsUp
<1>12. Between(u, "fresh", "get") <=> SetsUp(u, 4, 5)
  <2>1. After(k, s, "fresh", "get") <=> k = "setup" /\ s # <<>> /\ p = 5
    BY <1>1, <1>5, Spans DEF Spanned
  <2> QED
    BY <1>2, <1>3, <1>4, <2>1 DEF Makes, Creates, SetsUp
<1>13. Between(u, "fresh", "install") <=> SetsUp(u, 4, 10)
  <2>1. After(k, s, "fresh", "install") <=> k = "setup" /\ s # <<>> /\ p \in 5..10
    BY <1>1, <1>5, Spans DEF Spanned
  <2> QED
    BY <1>2, <1>3, <1>4, <2>1 DEF Makes, Creates, SetsUp
<1>14. Between(u, "lock", "forget") <=> IsA(u, "lock") /\ Going(u) /\ Pos(u) \in 2..3
  <2>1. After(k, s, "lock", "forget") <=> k = "lock" /\ s # <<>> /\ p \in 2..3
    BY <1>1, <1>5, Spans DEF Spanned
  <2> QED
    BY <1>2, <1>3, <1>4, <2>1 DEF Makes, Creates, SetsUp
<1>15. Between(u, "pend", "consume") <=> Creates(u, 12, 13) \/ SetsUp(u, 12, 15)
  <2>1. After(k, s, "pend", "consume") <=> (k = "create" /\ s # <<>> /\ p = 13) \/ (k = "setup" /\ s # <<>> /\ p \in 13..15)
    BY <1>1, <1>5, Spans DEF Spanned
  <2> QED
    BY <1>2, <1>3, <1>4, <2>1 DEF Makes, Creates, SetsUp
<1>16. Between(u, "open_session", "show") <=> Creates(u, 18, 19) \/ SetsUp(u, 13, 16)
  <2>1. After(k, s, "open_session", "show") <=> (k = "create" /\ s # <<>> /\ p = 19) \/ (k = "setup" /\ s # <<>> /\ p \in 14..16)
    BY <1>1, <1>5, Spans DEF Spanned
  <2> QED
    BY <1>2, <1>3, <1>4, <2>1 DEF Makes, Creates, SetsUp
<1>17. Reopening(u) <=> Reopens(u)
  <2>1. After(k, s, "reopen", "restore") <=> k = "use" /\ s # <<>> /\ p \in 5..6
    BY <1>1, <1>5, Spans DEF Spanned
  <2> QED
    BY <1>2, <1>4, <2>1 DEF Reopening, Reopens
<1> QED
  BY <1>6, <1>7, <1>8, <1>9, <1>10, <1>11, <1>12, <1>13, <1>14, <1>15, <1>16, <1>17

\* The invariant of types and plans is stronger than TypeOK.
LEMMA TInvIsTypeOK == TInv => TypeOK
<1> SUFFICES ASSUME TInv PROVE TypeOK
  OBVIOUS
<1>1. ASSUME NEW t \in Tasks
      PROVE  /\ Between(t, "get", "pend") \/ Reopening(t) => loc[t].v # None /\ loc[t].pw # None
             /\ Between(t, "bundle", "pend") => file[Mine(t).name] # None
  <2>1. Makes(t, 5, 12) => Makes(t, 5, 20) /\ Going(t) /\ loc[t].kind # None
    <3> SUFFICES ASSUME Makes(t, 5, 12) PROVE Makes(t, 5, 20) /\ Going(t) /\ loc[t].kind # None
      OBVIOUS
    <3>1. Going(t) /\ loc[t].kind # None
      BY KeyHandoverAssumption DEF Makes, Creates, SetsUp, IsA
    <3> QED
      BY <3>1, PosInt DEF Makes, Creates, SetsUp
  <2>2. Makes(t, 11, 12) => Makes(t, 7, 12)
    BY PosInt, KeyHandoverAssumption DEF Makes, Creates, SetsUp, IsA
  <2>3. Ready(t) /\ None \notin Objects /\ None \notin Keys
    BY KeyHandoverAssumption DEF TInv, Objects, Keys
  <2>4. Reopens(t) => loc[t].v # None /\ loc[t].pw # None
    BY <2>3 DEF Ready, Reopens
  <2> QED
    BY <2>1, <2>2, <2>3, <2>4, BetweenIs DEF Ready, Mine
<1> QED
  BY <1>1 DEF TypeOK, TInv, Types, SharedTypes, Keyed

\* At every step a request has the end of its plan left, and what its further steps rely
\* on: a vault object, a password, the file of the definition it has saved.
THEOREM SpecTypes == Spec => []TInv
  BY TInit, TNext, PTL DEF Spec

\* Every variable stays in its domain, and a creation or a reopening goes on only with
\* a vault object and a password.
THEOREM SpecTypeOK == Spec => []TypeOK
  BY SpecTypes, TInvIsTypeOK, PTL

----------------------------------------------------------------------------
(* What holds as long as no two requests met where they can harm each other *)

\* Nothing exists without the default definition, whose bundle a sign-in needs.
Founded ==
    /\ file[Default] = None =>
        (\A n \in Names : file[n] = None) /\ pointer = Default /\ master = None
    /\ signed => bundle[Default] # None
    /\ \A n \in Names : bundle[n] # None => file[n] # None

\* How far a request has got with the definition it names.
Standing(t) ==
    LET n == loc[t].name IN
    /\ Creates(t, 1, 20) => n # Default /\ bundle[Default] # None
    /\ Creates(t, 3, 16) => pointer = n
    /\ SetsUp(t, 4, 5) => pointer = Default
    /\ IsA(t, "use") /\ Going(t) /\ Pos(t) = 2 => file[n] # None
    /\ Makes(t, 6, 7) => file[n] = None
    /\ Makes(t, 6, 11) => bundle[n] = None
    /\ Makes(t, 7, 20) => file[n] # None
    /\ Makes(t, 11, 20) => bundle[n] = t

\* The object it works on.
Holding(t) ==
    LET v == loc[t].v IN
    /\ Makes(t, 5, 12) \/ Creates(t, 5, 16) => object[v].name = loc[t].name
    /\ Creates(t, 5, 16) => vault = v
    /\ Creates(t, 6, 16) \/ SetsUp(t, 6, 10) => object[v].data # None
    /\ SetsUp(t, 6, 7) => loc[t].agent = t /\ object[v].data.agent = t
    /\ Creates(t, 14, 15) => loc[t].d = v
    /\ Creates(t, 15, 16) => object[v].data.form = loc[t].name

\* One creation at a time has its definition active, one first run makes a vault.
Alone ==
    \A t, u \in Tasks :
        \/ Creates(t, 3, 16) /\ Creates(u, 3, 16)
        \/ SetsUp(t, 6, 12) /\ SetsUp(u, 6, 12)
        => t = u

Locked == vault = None \/ object[vault].data = None

\* A lock is about to forget the password.
Forgetting(t) == IsA(t, "lock") /\ Going(t) /\ Pos(t) \in 2..3

\* What a lock under way, and a vault without a password, exclude.
Shut ==
    /\ \A t \in Tasks :
        /\ Forgetting(t) => Locked /\ \A u \in Tasks : ~Creates(u, 1, 16) /\ ~SetsUp(u, 6, 10)
        /\ Creates(t, 1, 16) => master # None
        /\ Creates(t, 1, 2) => Cached /\ ~Locked
    /\ master = None => Locked \/ \E t \in Tasks : SetsUp(t, 6, 10)

\* A definition that may still have the agent key minted for it.
Adopting(t) == Creates(t, 6, 8)

\* One password and one agent key.  An object that is cached no longer may be opened with
\* the agent key that its definition had until it adopted the shared one.
OneKey(a, p) ==
    /\ master \in {p, None}
    /\ \A n \in Names : file[n] # None =>
        /\ file[n].pw = p
        /\ file[n].agent = a \/ \E t \in Tasks : Adopting(t) /\ loc[t].name = n
    /\ \A o \in Objects : object[o].data # None =>
        /\ object[o].data.pw = p
        /\ \/ o # vault \/ object[o].data.agent = a
           \/ \E t \in Tasks : Adopting(t) /\ loc[t].v = o
    /\ \A t \in Tasks :
        /\ Creates(t, 2, 20) => loc[t].shared = a
        /\ Creates(t, 1, 16) \/ SetsUp(t, 6, 10) => loc[t].pw = p
        /\ SetsUp(t, 6, 7) => a = t

\* What is decrypted is on the disk, or about to be.
Kept ==
    \A o \in Objects : object[o].data # None =>
        \/ file[object[o].name] # None
        \/ \E t \in Tasks : Makes(t, 6, 7) /\ loc[t].v = o

\* The slot for the recovery key is a request's from filling to emptying it.
Awaiting(t) == Creates(t, 12, 13) \/ SetsUp(t, 12, 15)

Blank == [agent |-> None, recovery |-> None]

\* The way of the keys from the request that mints them to its session.
Carrying(t) ==
    LET l == loc[t] IN
    /\ Makes(t, 0, 11) => l.recovery = None
    /\ Makes(t, 11, 12) => l.recovery = t
    /\ Awaiting(t) => l.recovery = None /\ pending = t
    /\ SetsUp(t, 15, 17) \/ Creates(t, 13, 20) => l.recovery = t
    /\ Creates(t, 8, 20) => l.agent = None
    /\ SetsUp(t, 7, 17) => l.agent = t /\ file[Default].agent = t
    /\ SetsUp(t, 0, 13) \/ Creates(t, 0, 18) => session[t] = None
    /\ SetsUp(t, 13, 16) \/ Creates(t, 18, 20) => session[t] = Blank
    /\ SetsUp(t, 16, 17) => t \in seen \/ (session[t] # None /\ session[t].recovery = t)

\* The keys in a session are those of the definition.
Showing(t) ==
    session[t] # None =>
        /\ loc[t].name \in Names
        /\ session[t].recovery # None => session[t].recovery = bundle[loc[t].name]
        /\ session[t].agent # None =>
            /\ bundle[loc[t].name] # None
            /\ session[t].agent = file[loc[t].name].agent

Recorded ==
    /\ \A n \in audited : bundle[n] # None /\ (n # Default => file[n].form = n)
    /\ \A n \in Names : file[n] # None /\ n \notin audited =>
        \E t \in Tasks : loc[t].name = n /\ Makes(t, 7, 17)
    /\ \A t \in Tasks : Creates(t, 16, 17) => file[loc[t].name].form = loc[t].name

\* Where the recovery key of a definition may be.
Reaches(n) ==
    bundle[n] # None =>
        \/ bundle[n] \in seen
        \/ \E t \in Tasks : loc[t].recovery = bundle[n] /\ Going(t)
        \/ \E t \in Tasks : session[t] # None /\ session[t].recovery = bundle[n]
        \/ bundle[n] = pending /\ \E t \in Tasks : Awaiting(t)

Each(t) == Standing(t) /\ Holding(t) /\ Carrying(t) /\ Showing(t)

Safe ==
    /\ Founded /\ Alone /\ Shut /\ Kept /\ Recorded
    /\ \A t \in Tasks : Each(t)
    /\ \E a, p \in Keys : OneKey(a, p)
    /\ \A n \in Names : Reaches(n)

\* A request that is to write the password back has read the one in memory.
Reopened == \A t \in Tasks : Reopens(t) => master # None /\ loc[t].pw = master

CInv == crossed \/ (Safe /\ Reopened)

----------------------------------------------------------------------------
(* What the other requests keep                                            *)

\* Requests that do not move stay where they are.
LEMMA OthersStay ==
    ASSUME NEW t \in Tasks, Elsewhere(t)
    PROVE  \A u \in Tasks \ {t} :
             /\ loc'[u] = loc[u] /\ Pos(u)' = Pos(u)
             /\ Going(u)' <=> Going(u)
             /\ \A k : IsA(u, k)' <=> IsA(u, k)
             /\ \A i, j : Creates(u, i, j)' <=> Creates(u, i, j)
             /\ \A i, j : SetsUp(u, i, j)' <=> SetsUp(u, i, j)
             /\ \A i, j : Makes(u, i, j)' <=> Makes(u, i, j)
             /\ Forgetting(u)' <=> Forgetting(u)
             /\ Reopens(u)' <=> Reopens(u)
             /\ Adopting(u)' <=> Adopting(u)
             /\ Awaiting(u)' <=> Awaiting(u)
<1> SUFFICES ASSUME NEW u \in Tasks \ {t}
             PROVE  /\ loc'[u] = loc[u] /\ Pos(u)' = Pos(u)
                    /\ Going(u)' <=> Going(u)
                    /\ \A k : IsA(u, k)' <=> IsA(u, k)
                    /\ \A i, j : Creates(u, i, j)' <=> Creates(u, i, j)
                    /\ \A i, j : SetsUp(u, i, j)' <=> SetsUp(u, i, j)
                    /\ \A i, j : Makes(u, i, j)' <=> Makes(u, i, j)
                    /\ Forgetting(u)' <=> Forgetting(u)
                    /\ Reopens(u)' <=> Reopens(u)
                    /\ Adopting(u)' <=> Adopting(u)
                    /\ Awaiting(u)' <=> Awaiting(u)
  OBVIOUS
<1>1. loc'[u] = loc[u] /\ todo'[u] = todo[u]
  BY DEF Elsewhere
<1>2. /\ Going(u)' <=> Going(u)
      /\ Pos(u)' = Pos(u)
      /\ \A k : IsA(u, k)' <=> IsA(u, k)
  BY <1>1 DEF Going, Pos, IsA
<1>3. \A i, j : Creates(u, i, j)' <=> Creates(u, i, j)
  BY <1>2 DEF Creates
<1>4. \A i, j : SetsUp(u, i, j)' <=> SetsUp(u, i, j)
  BY <1>2 DEF SetsUp
<1>5. \A i, j : Makes(u, i, j)' <=> Makes(u, i, j)
  BY <1>3, <1>4 DEF Makes
<1> QED
  BY <1>1, <1>2, <1>3, <1>4, <1>5 DEF Forgetting, Reopens, Adopting, Awaiting

\* Ranges of places.
LEMMA Ranges ==
    ASSUME TInv, NEW t \in Tasks
    PROVE  /\ Going(t) => Pos(t) \in Int /\ loc[t].kind \in Kinds /\ loc[t].name \in Names
           /\ \A i, j, k, l \in Int : i <= k /\ l <= j =>
                /\ Creates(t, k, l) => Creates(t, i, j)
                /\ SetsUp(t, k, l) => SetsUp(t, i, j)
                /\ Makes(t, k, l) => Makes(t, i, j)
           /\ \A i, j : Creates(t, i, j) => Going(t) /\ IsA(t, "create") /\ Makes(t, i, j)
           /\ \A i, j : SetsUp(t, i, j) => Going(t) /\ IsA(t, "setup") /\ Makes(t, i, j)
                                           /\ loc[t].name = Default
           /\ \A i, j : Makes(t, i, j) => Going(t) /\ (Creates(t, i, j) \/ SetsUp(t, i, j))
           /\ ~(IsA(t, "create") /\ IsA(t, "setup"))
<1>1. Going(t) => Pos(t) \in Int /\ loc[t].kind \in Kinds /\ loc[t].name \in Names
  BY PosInt DEF TInv, Planned, PlanOf, Going, Ready, Types, Locals
<1>2. \A i, j, k, l \in Int : i <= k /\ l <= j =>
        /\ Creates(t, k, l) => Creates(t, i, j)
        /\ SetsUp(t, k, l) => SetsUp(t, i, j)
  BY <1>1 DEF Creates, SetsUp
<1>3. \A i, j : SetsUp(t, i, j) => loc[t].name = Default
  BY DEF SetsUp, TInv, Ready
<1>4. ~(IsA(t, "create") /\ IsA(t, "setup"))
  BY DEF IsA
<1> QED
  BY <1>1, <1>2, <1>3, <1>4 DEF Makes, Creates, SetsUp

\* The definitions of the other requests stand as they did, if the pointer keeps still
\* for those that rely on it and no file or bundle goes or turns up under their hands.
LEMMA StandingOthers ==
    ASSUME TInv, Safe, NEW t \in Tasks, Elsewhere(t),
           \A u \in Tasks \ {t} : Creates(u, 3, 16) \/ SetsUp(u, 4, 5) => pointer' = pointer,
           \A n \in Names : file[n] # None => file'[n] # None,
           \A u \in Tasks \ {t} : Makes(u, 6, 7) => file'[loc[u].name] = None,
           \A n \in Names : bundle[n] # None => bundle'[n] # None,
           \A u \in Tasks \ {t} : Makes(u, 6, 20) => bundle'[loc[u].name] = bundle[loc[u].name]
    PROVE  \A u \in Tasks \ {t} : Standing(u)'
<1> SUFFICES ASSUME NEW u \in Tasks \ {t} PROVE Standing(u)'
  OBVIOUS
<1>1. Standing(u) /\ Default \in Names /\ (Going(u) => loc[u].name \in Names)
  BY Ranges, KeyHandoverAssumption DEF Safe, Each
<1>2. Makes(u, 6, 11) \/ Makes(u, 11, 20) => Makes(u, 6, 20)
  BY Ranges
<1>3. Makes(u, 7, 20) => Going(u)
  BY Ranges
<1> QED
  BY <1>1, <1>2, <1>3, OthersStay DEF Standing

\* The other requests hold their objects as they did, if the step leaves the name, the
\* place in the cache and the contents they rely on.
LEMMA HoldingOthers ==
    ASSUME TInv, Safe, NEW t \in Tasks, Elsewhere(t),
           \A o \in Objects : o \in InUse => object'[o].name = object[o].name,
           \A u \in Tasks \ {t} : Creates(u, 5, 16) => vault' = vault,
           \A u \in Tasks \ {t} :
             Creates(u, 6, 16) \/ SetsUp(u, 6, 10) => object'[loc[u].v].data # None,
           \A u \in Tasks \ {t} :
             Creates(u, 15, 16) \/ SetsUp(u, 6, 7) => object'[loc[u].v].data = object[loc[u].v].data
    PROVE  \A u \in Tasks \ {t} : Holding(u)'
<1> SUFFICES ASSUME NEW u \in Tasks \ {t} PROVE Holding(u)'
  OBVIOUS
<1>1. Holding(u) /\ Ready(u)
  BY DEF Safe, Each, TInv
<1>2. Makes(u, 5, 12) \/ Creates(u, 5, 16) => Makes(u, 5, 20)
  BY Ranges
<1>3. Makes(u, 5, 20) => loc[u].v \in Objects /\ loc[u].v \in InUse
  BY <1>1 DEF Ready, InUse
<1> QED
  BY <1>1, <1>2, <1>3, OthersStay DEF Holding

\* The keys of the other requests are carried on, if the step leaves the slot of the one
\* that awaits its key, and the sessions that are to be given keys.
LEMMA CarryingOthers ==
    ASSUME TInv, Safe, NEW t \in Tasks, Elsewhere(t),
           \A u \in Tasks \ {t} : Awaiting(u) => pending' = pending,
           \A u \in Tasks \ {t} : SetsUp(u, 7, 17) => file'[Default].agent = file[Default].agent,
           \A u \in Tasks \ {t} :
             \/ session'[u] = session[u]
             \/ /\ session'[u] = None /\ ~Creates(u, 18, 20) /\ ~SetsUp(u, 13, 16)
                /\ session[u] # None => session[u].recovery = None,
           seen \subseteq seen'
    PROVE  \A u \in Tasks \ {t} : Carrying(u)'
<1> SUFFICES ASSUME NEW u \in Tasks \ {t} PROVE Carrying(u)'
  OBVIOUS
<1>1. Carrying(u) /\ u \in Tasks /\ u # None
  BY KeyHandoverAssumption DEF Safe, Each
<1>2. Blank' = Blank
  BY DEF Blank
<1> QED
  BY <1>1, <1>2, OthersStay DEF Carrying

\* The sessions of the other requests still fit their definitions, if bundles and agent
\* keys stay where there is a bundle.
LEMMA ShowingOthers ==
    ASSUME TInv, Safe, NEW t \in Tasks, Elsewhere(t),
           \A u \in Tasks \ {t} : session'[u] = session[u] \/ session'[u] = None,
           \A n \in Names : bundle[n] # None =>
             bundle'[n] = bundle[n] /\ file'[n].agent = file[n].agent
    PROVE  \A u \in Tasks \ {t} : Showing(u)'
<1> SUFFICES ASSUME NEW u \in Tasks \ {t} PROVE Showing(u)'
  OBVIOUS
<1>1. Showing(u) /\ loc'[u] = loc[u]
  BY OthersStay DEF Safe, Each
<1> QED
  BY <1>1 DEF Showing

----------------------------------------------------------------------------
(* What no step of one request changes                                     *)

\* A step that leaves files, bundles, pointer and password leaves Founded.
LEMMA FoundedStays ==
    ASSUME Safe, UNCHANGED <<file, bundle, pointer, master>>, signed' => signed
    PROVE  Founded'
BY DEF Safe, Founded

\* A step keeps requests apart if it takes its own into no stretch kept for one.
LEMMA AloneStays ==
    ASSUME Safe, NEW t \in Tasks, Elsewhere(t),
           Creates(t, 3, 16)' =>
             Creates(t, 3, 16) \/ \A u \in Tasks \ {t} : ~Creates(u, 3, 16),
           SetsUp(t, 6, 12)' =>
             SetsUp(t, 6, 12) \/ \A u \in Tasks \ {t} : ~SetsUp(u, 6, 12)
    PROVE  Alone'
<1>1. ASSUME NEW x \in Tasks, NEW y \in Tasks, Creates(x, 3, 16)' /\ Creates(y, 3, 16)'
      PROVE  x = y
  BY <1>1, OthersStay DEF Safe, Alone
<1>2. ASSUME NEW x \in Tasks, NEW y \in Tasks, SetsUp(x, 6, 12)' /\ SetsUp(y, 6, 12)'
      PROVE  x = y
  BY <1>2, OthersStay DEF Safe, Alone
<1> QED
  BY <1>1, <1>2 DEF Alone

\* A step keeps what a lock excludes, if it opens nothing and forgets nothing.
LEMMA ShutStays ==
    ASSUME TInv, Safe, NEW t \in Tasks, Elsewhere(t), master' = master,
           Locked => Locked',
           \A u \in Tasks \ {t} : Creates(u, 1, 2) => Cached' /\ ~Locked',
           Creates(t, 1, 2)' => Cached' /\ ~Locked',
           Forgetting(t)' => Forgetting(t),
           Creates(t, 1, 16)' =>
             Creates(t, 1, 16) \/ (master # None /\ \A u \in Tasks \ {t} : ~Forgetting(u)),
           SetsUp(t, 6, 10)' => SetsUp(t, 6, 10) \/ \A u \in Tasks \ {t} : ~Forgetting(u),
           SetsUp(t, 6, 10) => SetsUp(t, 6, 10)' \/ master # None
    PROVE  Shut'
<1>1. ASSUME NEW x \in Tasks, Forgetting(x)' PROVE Locked'
  BY <1>1, OthersStay DEF Safe, Shut
<1>2. ASSUME NEW x \in Tasks, Forgetting(x)', NEW u \in Tasks
      PROVE  ~Creates(u, 1, 16)' /\ ~SetsUp(u, 6, 10)'
  <2>1. Forgetting(x) /\ ~Creates(u, 1, 16) /\ ~SetsUp(u, 6, 10)
    BY <1>2, OthersStay DEF Safe, Shut
  <2>2. CASE u # t
    BY <2>1, <2>2, OthersStay
  <2>3. CASE u = t
    <3>1. x # t \/ (~IsA(t, "create") /\ ~IsA(t, "setup"))
      BY <2>1 DEF Forgetting, IsA
    <3>2. x # t => ~Creates(t, 1, 16)' /\ ~SetsUp(t, 6, 10)'
      BY <2>1, <2>3
    <3>3. x = t => ~Creates(t, 1, 16)' /\ ~SetsUp(t, 6, 10)'
      BY <1>2 DEF Forgetting, Creates, SetsUp, IsA
    <3> QED
      BY <2>3, <3>2, <3>3
  <2> QED
    BY <2>2, <2>3
<1>3. ASSUME NEW x \in Tasks, Creates(x, 1, 16)' PROVE master' # None
  BY <1>3, OthersStay DEF Safe, Shut
<1>4. ASSUME NEW x \in Tasks, Creates(x, 1, 2)' PROVE Cached' /\ ~Locked'
  BY <1>4, OthersStay
<1>5. ASSUME master' = None PROVE Locked' \/ \E x \in Tasks : SetsUp(x, 6, 10)'
  BY <1>5, OthersStay DEF Safe, Shut
<1> QED
  BY <1>1, <1>2, <1>3, <1>4, <1>5 DEF Shut

\* A step that decrypts nothing and removes no file leaves what is decrypted on the
\* disk, or about to be.
LEMMA KeptStays ==
    ASSUME TInv, TInv', Safe, NEW t \in Tasks, Elsewhere(t),
           \A o \in Objects : object'[o].data # None =>
             object[o].data # None /\ object'[o].name = object[o].name,
           \A n \in Names : file[n] # None => file'[n] # None,
           Makes(t, 6, 7) => Makes(t, 6, 7)' /\ loc'[t].v = loc[t].v
    PROVE  Kept'
<1> SUFFICES ASSUME NEW o \in Objects, object'[o].data # None
             PROVE  \/ file'[object'[o].name] # None
                    \/ \E u \in Tasks : Makes(u, 6, 7)' /\ loc'[u].v = o
  BY DEF Kept
<1>1. object[o].data # None /\ object'[o].name = object[o].name /\ object[o].name \in Names
  BY DEF TInv, Types, SharedTypes
<1>2. CASE file[object[o].name] # None
  BY <1>1, <1>2
<1>3. CASE \E u \in Tasks : Makes(u, 6, 7) /\ loc[u].v = o
  BY <1>3, OthersStay
<1> QED
  BY <1>1, <1>2, <1>3 DEF Safe, Kept

\* A step that leaves files and the audit log, and removes no bundle, leaves Recorded.
LEMMA RecordedStays ==
    ASSUME TInv, Safe, NEW t \in Tasks, Elsewhere(t),
           UNCHANGED <<file, audited>>,
           \A n \in Names : bundle[n] # None => bundle'[n] # None,
           Makes(t, 7, 17) => Makes(t, 7, 17)' /\ loc'[t].name = loc[t].name,
           Creates(t, 16, 17)' => file[loc'[t].name].form = loc'[t].name
    PROVE  Recorded'
<1>1. audited \subseteq Names
  BY DEF TInv, Types, SharedTypes
<1>2. ASSUME NEW n \in Names, file'[n] # None, n \notin audited'
      PROVE  \E u \in Tasks : loc'[u].name = n /\ Makes(u, 7, 17)'
  <2>1. PICK u \in Tasks : loc[u].name = n /\ Makes(u, 7, 17)
    BY <1>2 DEF Safe, Recorded
  <2>2. loc'[u].name = n /\ Makes(u, 7, 17)'
    BY <2>1, OthersStay
  <2> QED
    BY <2>2
<1>3. ASSUME NEW u \in Tasks, Creates(u, 16, 17)' PROVE file'[loc'[u].name].form = loc'[u].name
  BY <1>3, OthersStay DEF Safe, Recorded
<1> QED
  BY <1>1, <1>2, <1>3 DEF Safe, Recorded

\* A step that leaves the files, decrypts nothing and at most forgets the password leaves the
\* one key and password.
LEMMA OneKeyStays ==
    ASSUME NEW a, NEW p, OneKey(a, p), NEW t \in Tasks, Elsewhere(t),
           UNCHANGED file, master' \in {master, None},
           \A o \in Objects : object'[o].data # None => object'[o].data = object[o].data,
           Adopting(t) => Adopting(t)' /\ loc'[t].v = loc[t].v /\ loc'[t].name = loc[t].name,
           Creates(t, 2, 20)' => loc'[t].shared = a,
           Creates(t, 1, 16)' \/ SetsUp(t, 6, 10)' => loc'[t].pw = p,
           SetsUp(t, 6, 7)' => a = t,
           vault' = vault \/ vault' = None \/ object'[vault'].data = None
    PROVE  OneKey(a, p)'
<1>1. \A u \in Tasks : Adopting(u) =>
        Adopting(u)' /\ loc'[u].v = loc[u].v /\ loc'[u].name = loc[u].name
  BY OthersStay
<1>2. ASSUME NEW n \in Names, file'[n] # None
      PROVE  /\ file'[n].pw = p
             /\ file'[n].agent = a \/ \E u \in Tasks : Adopting(u)' /\ loc'[u].name = n
  BY <1>1, <1>2 DEF OneKey
<1>3. ASSUME NEW o \in Objects, object'[o].data # None
      PROVE  /\ object'[o].data.pw = p
             /\ \/ o # vault' \/ object'[o].data.agent = a
                \/ \E u \in Tasks : Adopting(u)' /\ loc'[u].v = o
  <2>1. o # vault' \/ o = vault
    BY <1>3, KeyHandoverAssumption DEF Objects
  <2> QED
    BY <1>1, <1>3, <2>1 DEF OneKey
<1>4. ASSUME NEW u \in Tasks
      PROVE  /\ Creates(u, 2, 20)' => loc'[u].shared = a
             /\ Creates(u, 1, 16)' \/ SetsUp(u, 6, 10)' => loc'[u].pw = p
             /\ SetsUp(u, 6, 7)' => a = u
  BY <1>4, OthersStay DEF OneKey
<1>5. master' \in {p, None}
  BY DEF OneKey
<1> QED
  BY <1>2, <1>3, <1>4, <1>5 DEF OneKey

\* The one key and password stay, if every file and object the step changes gets them or
\* is the one its request is creating.
LEMMA OneKeyMoves ==
    ASSUME NEW a, NEW p, OneKey(a, p), NEW t \in Tasks, Elsewhere(t),
           master' \in {master, p, None},
           \A n \in Names : file'[n] # None =>
             \/ file'[n].pw = p /\ file'[n].agent = a
             \/ file'[n].pw = p /\ Adopting(t)' /\ loc'[t].name = n
             \/ file'[n] = file[n] /\ ~(Adopting(t) /\ loc[t].name = n),
           \A o \in Objects : object'[o].data # None =>
             \/ object'[o].data.pw = p /\ object'[o].data.agent = a
             \/ object'[o].data.pw = p /\ Adopting(t)' /\ loc'[t].v = o
             \/ object'[o].data.pw = p /\ o # vault'
             \/ object'[o].data = object[o].data /\ ~(Adopting(t) /\ loc[t].v = o),
           Creates(t, 2, 20)' => loc'[t].shared = a,
           Creates(t, 1, 16)' \/ SetsUp(t, 6, 10)' => loc'[t].pw = p,
           SetsUp(t, 6, 7)' => a = t,
           vault' = vault \/ vault' = None \/ object'[vault'].data = None
    PROVE  OneKey(a, p)'
<1>1. \A u \in Tasks \ {t} : (Adopting(u)' <=> Adopting(u)) /\ loc'[u] = loc[u]
  BY OthersStay
<1>2. ASSUME NEW n \in Names, file'[n] # None
      PROVE  /\ file'[n].pw = p
             /\ file'[n].agent = a \/ \E u \in Tasks : Adopting(u)' /\ loc'[u].name = n
  <2>1. CASE file'[n] = file[n] /\ ~(Adopting(t) /\ loc[t].name = n)
    BY <1>1, <1>2, <2>1 DEF OneKey
  <2> QED
    BY <1>2, <2>1
<1>3. ASSUME NEW o \in Objects, object'[o].data # None
      PROVE  /\ object'[o].data.pw = p
             /\ \/ o # vault' \/ object'[o].data.agent = a
                \/ \E u \in Tasks : Adopting(u)' /\ loc'[u].v = o
  <2>1. CASE object'[o].data = object[o].data /\ ~(Adopting(t) /\ loc[t].v = o)
    <3>1. o # vault' \/ o = vault
      BY <1>3, KeyHandoverAssumption DEF Objects
    <3> QED
      BY <1>1, <1>3, <2>1, <3>1 DEF OneKey
  <2> QED
    BY <1>3, <2>1
<1>4. ASSUME NEW u \in Tasks
      PROVE  /\ Creates(u, 2, 20)' => loc'[u].shared = a
             /\ Creates(u, 1, 16)' \/ SetsUp(u, 6, 10)' => loc'[u].pw = p
             /\ SetsUp(u, 6, 7)' => a = u
  BY <1>4, OthersStay DEF OneKey
<1>5. master' \in {p, None}
  BY DEF OneKey
<1> QED
  BY <1>2, <1>3, <1>4, <1>5 DEF OneKey

\* A step that hides no recovery key leaves every one of them in reach.
LEMMA ReachesStays ==
    ASSUME Safe, NEW t \in Tasks, Elsewhere(t), UNCHANGED <<bundle, pending>>, seen \subseteq seen',
           \A u \in Tasks : session[u] # None /\ session[u].recovery # None =>
             \/ session'[u] # None /\ session'[u].recovery = session[u].recovery
             \/ session[u].recovery \in seen',
           Going(t) /\ loc[t].recovery # None =>
             \/ Going(t)' /\ loc'[t].recovery = loc[t].recovery
             \/ session'[t] # None /\ session'[t].recovery = loc[t].recovery
             \/ loc[t].recovery \in seen',
           Awaiting(t) => Awaiting(t)'
    PROVE  \A n \in Names : Reaches(n)'
<1> SUFFICES ASSUME NEW n \in Names, bundle'[n] # None
             PROVE  \/ bundle'[n] \in seen'
                    \/ \E u \in Tasks : loc'[u].recovery = bundle'[n] /\ Going(u)'
                    \/ \E u \in Tasks : session'[u] # None /\ session'[u].recovery = bundle'[n]
                    \/ bundle'[n] = pending' /\ \E u \in Tasks : Awaiting(u)'
  BY DEF Reaches
<1>1. Reaches(n) /\ bundle'[n] = bundle[n] /\ bundle[n] # None
  BY DEF Safe
<1>2. CASE bundle[n] \in seen
  BY <1>1, <1>2
<1>3. CASE \E u \in Tasks : loc[u].recovery = bundle[n] /\ Going(u)
  BY <1>1, <1>3, OthersStay
<1>4. CASE \E u \in Tasks : session[u] # None /\ session[u].recovery = bundle[n]
  BY <1>1, <1>4
<1>5. CASE bundle[n] = pending /\ \E u \in Tasks : Awaiting(u)
  BY <1>1, <1>5, OthersStay
<1> QED
  BY <1>1, <1>2, <1>3, <1>4, <1>5 DEF Reaches

----------------------------------------------------------------------------
(* Steps that look at the vault at most                                    *)

\* What looking the vault up, or not looking it up, leaves of the objects.
Gentle ==
    /\ \A o \in Objects : o \in InUse => object'[o] = object[o]
    /\ \A o \in Objects : object'[o].data # None => object'[o] = object[o]
    /\ Cached => vault' = vault
    /\ vault' = vault \/ (vault' \in Objects /\ object'[vault'].data = None)

\* Looking the vault up is gentle, and makes an object of the active definition current.
LEMMA LookUpGentle ==
    ASSUME TInv, LookUp
    PROVE  /\ Gentle /\ vault' = Current /\ Current \in Objects
           /\ object'[Current].name = pointer
<1> DEFINE d == Loaded[Current].data
<1>1. d \in Data \cup {None} /\ (~Cached => d = None) /\ GetVault(d)
  BY LoadedData DEF LookUp
<1>2. /\ Current \in Objects /\ vault' = Current
      /\ object'[Current].name = pointer /\ object'[Current].data = d
      /\ \A o \in Objects : o \in InUse /\ o # Current => object'[o] = object[o]
      /\ \A o \in Objects : o \notin InUse /\ o # Current => object'[o].data = None \/ object'[o] = object[o]
      /\ Cached => Current = vault /\ vault \in Objects
      /\ ~Cached => Current \notin InUse
  BY <1>1, GotVault
<1>3. CASE Cached
  <2>1. Loaded = object /\ Current = vault /\ vault \in Objects
    BY <1>2, <1>3 DEF Loaded
  <2>2. object' = [object EXCEPT ![vault].data = object[vault].data]
    BY <1>1, <2>1 DEF GetVault
  <2>3. object \in [Objects -> [name : Names, data : Data \cup {None}]]
    BY DEF TInv, Types, SharedTypes
  <2>4. object'[vault] = object[vault]
    BY <2>1, <2>2, <2>3
  <2> QED
    BY <1>2, <2>1, <2>4 DEF Gentle
<1>4. CASE ~Cached
  <2> HIDE DEF d
  <2> QED
    BY <1>1, <1>2, <1>4 DEF Gentle
<1> QED
  BY <1>3, <1>4

\* Not looking it up is gentle.
LEMMA NoLookGentle == ASSUME UNCHANGED <<vault, object>> PROVE Gentle
BY DEF Gentle

\* A creation that works on an object has it cached.
LEMMA HoldersCached ==
    ASSUME TInv, Safe, NEW u \in Tasks
    PROVE  /\ Creates(u, 5, 16) => Cached /\ vault = loc[u].v
           /\ Creates(u, 6, 16) => Cached /\ ~Locked /\ Unlocked /\ Current = loc[u].v
                                   /\ Loaded = object
           /\ Makes(u, 5, 20) => loc[u].v \in Objects /\ loc[u].v \in InUse
<1>1. Makes(u, 5, 20) => loc[u].v \in Objects /\ loc[u].v \in InUse
  BY DEF TInv, Ready, InUse
<1>2. Standing(u) /\ Holding(u)
  BY DEF Safe, Each
<1>3. /\ Creates(u, 6, 16) => Creates(u, 5, 16)
      /\ Creates(u, 5, 16) => Creates(u, 3, 16) /\ Makes(u, 5, 20)
  BY Ranges
<1>4. None \notin Objects
  BY KeyHandoverAssumption DEF Objects
<1>5. Creates(u, 5, 16) => Cached /\ vault = loc[u].v
  BY <1>1, <1>2, <1>3, <1>4 DEF Standing, Holding, Cached
<1>6. Creates(u, 6, 16) => object[vault].data # None
  BY <1>2, <1>3 DEF Holding
<1>7. Creates(u, 6, 16) => Loaded = object /\ Current = vault
  BY <1>3, <1>5 DEF Loaded, Current
<1>8. Creates(u, 6, 16) => vault # None
  BY <1>1, <1>3, <1>4, <1>5
<1> QED
  BY <1>1, <1>3, <1>5, <1>6, <1>7, <1>8 DEF Unlocked, Locked

\* What a gentle step keeps for every request.
LEMMA GentleKeeps ==
    ASSUME TInv, Safe, Gentle, UNCHANGED pointer
    PROVE  /\ \A o \in Objects : o \in InUse => object'[o].name = object[o].name
           /\ \A u \in Tasks : Creates(u, 5, 16) => vault' = vault
           /\ \A u \in Tasks : Creates(u, 6, 16) \/ SetsUp(u, 6, 10) => object'[loc[u].v].data # None
           /\ \A u \in Tasks : Makes(u, 5, 20) => object'[loc[u].v] = object[loc[u].v]
           /\ \A u \in Tasks :
                Creates(u, 15, 16) \/ SetsUp(u, 6, 7) => object'[loc[u].v].data = object[loc[u].v].data
           /\ Locked => Locked'
           /\ Cached /\ ~Locked => Cached' /\ ~Locked'
           /\ \A u \in Tasks : Creates(u, 1, 2) => Cached' /\ ~Locked'
           /\ \A o \in Objects : object'[o].data # None =>
                object[o].data # None /\ object'[o].name = object[o].name
<1>1. \A u \in Tasks : Creates(u, 5, 16) => vault' = vault
  BY HoldersCached DEF Gentle
<1>2. \A u \in Tasks : Makes(u, 5, 20) => object'[loc[u].v] = object[loc[u].v]
  BY HoldersCached DEF Gentle
<1>3. \A u \in Tasks : Creates(u, 6, 16) \/ SetsUp(u, 6, 10) =>
        object'[loc[u].v].data # None
  <2> SUFFICES ASSUME NEW u \in Tasks, Creates(u, 6, 16) \/ SetsUp(u, 6, 10)
               PROVE  object'[loc[u].v].data # None
    OBVIOUS
  <2>1. Makes(u, 5, 20)
    BY Ranges
  <2> QED
    BY <1>2, <2>1 DEF Safe, Each, Holding
<1>4. \A u \in Tasks :
        Creates(u, 15, 16) \/ SetsUp(u, 6, 7) => object'[loc[u].v].data = object[loc[u].v].data
  <2> SUFFICES ASSUME NEW u \in Tasks, Creates(u, 15, 16) \/ SetsUp(u, 6, 7)
               PROVE  object'[loc[u].v].data = object[loc[u].v].data
    OBVIOUS
  <2>1. Makes(u, 5, 20)
    BY Ranges
  <2> QED
    BY <1>2, <2>1
<1>5. vault \in Objects \cup {None} /\ vault \in InUse /\ None \notin Objects
  BY KeyHandoverAssumption DEF TInv, Types, SharedTypes, InUse, Objects
<1>6. Locked => Locked'
  BY <1>5 DEF Gentle, Locked
<1>7. Cached /\ ~Locked => Cached' /\ ~Locked'
  BY <1>5 DEF Gentle, Locked, Cached
<1>8. \A u \in Tasks : Creates(u, 1, 2) => Cached' /\ ~Locked'
  BY <1>7 DEF Safe, Shut
<1>9. /\ \A o \in Objects : o \in InUse => object'[o].name = object[o].name
      /\ \A o \in Objects : object'[o].data # None =>
           object[o].data # None /\ object'[o].name = object[o].name
  BY DEF Gentle
<1> QED
  BY <1>1, <1>2, <1>3, <1>4, <1>6, <1>7, <1>8, <1>9

\* A step that changes no more than where its request stands and what it has noted.
LEMMA QuietSafe ==
    ASSUME TInv, TInv', Safe, NEW t \in Tasks, Elsewhere(t), Gentle,
           UNCHANGED <<disk, master, pending, sessions, seen, audited>>,
           Alone', Shut', Each(t)',
           Makes(t, 6, 7) => Makes(t, 6, 7)' /\ loc'[t].v = loc[t].v,
           Makes(t, 7, 17) => Makes(t, 7, 17)' /\ loc'[t].name = loc[t].name,
           Creates(t, 16, 17)' => file[loc'[t].name].form = loc'[t].name,
           Adopting(t) => Adopting(t)' /\ loc'[t].v = loc[t].v /\ loc'[t].name = loc[t].name,
           \A a, p \in Keys : OneKey(a, p) => (Creates(t, 2, 20)' => loc'[t].shared = a),
           \A a, p \in Keys : OneKey(a, p) =>
             (Creates(t, 1, 16)' \/ SetsUp(t, 6, 10)' => loc'[t].pw = p),
           Going(t) /\ loc[t].recovery # None => Going(t)' /\ loc'[t].recovery = loc[t].recovery,
           Awaiting(t) => Awaiting(t)', ~SetsUp(t, 6, 7)'
    PROVE  Safe'
<1>0. UNCHANGED <<file, bundle, pointer, session, signed>> /\ Default \in Names
  BY KeyHandoverAssumption DEF disk, sessions
<1>1. Founded'
  BY <1>0, FoundedStays
<1>2. Kept'
  BY <1>0, KeptStays, GentleKeeps
<1>3. Recorded'
  BY <1>0, RecordedStays
<1>4. \E a, p \in Keys : OneKey(a, p)'
  <2>1. PICK a \in Keys, p \in Keys : OneKey(a, p)
    BY DEF Safe
  <2>2. \A o \in Objects : object'[o].data # None => object'[o].data = object[o].data
    BY DEF Gentle
  <2>3. /\ Creates(t, 2, 20)' => loc'[t].shared = a
        /\ Creates(t, 1, 16)' \/ SetsUp(t, 6, 10)' => loc'[t].pw = p
    BY <2>1
  <2>4. OneKey(a, p)'
    BY <1>0, <2>1, <2>2, <2>3, OneKeyStays DEF Gentle
  <2> QED
    BY <2>4
<1>5. \A n \in Names : Reaches(n)'
  BY <1>0, ReachesStays
<1>6. \A u \in Tasks \ {t} : Standing(u)'
  <2>1. \A u \in Tasks \ {t} : Makes(u, 6, 7) => file'[loc[u].name] = None
    BY <1>0 DEF Safe, Each, Standing
  <2> QED
    BY <1>0, <2>1, StandingOthers
<1>7. \A u \in Tasks \ {t} : Holding(u)'
  BY <1>0, GentleKeeps, HoldingOthers
<1>8. \A u \in Tasks \ {t} : Carrying(u)'
  BY <1>0, CarryingOthers
<1>9. \A u \in Tasks \ {t} : Showing(u)'
  BY <1>0, ShowingOthers
<1>10. \A u \in Tasks : Each(u)'
  BY <1>6, <1>7, <1>8, <1>9 DEF Each
<1>11. (\A n \in Names : Reaches(n))' /\ (\A u \in Tasks : Each(u))'
       /\ (\E a, p \in Keys : OneKey(a, p))'
  BY <1>4, <1>5, <1>10
<1> QED
  BY <1>1, <1>2, <1>3, <1>11 DEF Safe

\* Where a step takes its request, ...
LEMMA Moved ==
    ASSUME TInv, NEW t \in Tasks, Going(t), NEW l \in Locals, l.kind = loc[t].kind,
           l.name = loc[t].name, Proceed(t, l)
    PROVE  /\ Elsewhere(t) /\ Pos(t) \in Int /\ Pos(t)' = Pos(t) + 1
           /\ loc[t].name \in Names /\ loc'[t].name = loc[t].name
           /\ \A k : IsA(t, k)' <=> IsA(t, k)
           /\ Going(t)' => loc'[t] = l
           /\ IsA(t, "create") => (Going(t)' <=> Pos(t) < 19)
           /\ IsA(t, "setup") => (Going(t)' <=> Pos(t) < 17)
           /\ IsA(t, "use") => (Going(t)' <=> Pos(t) < 6)
           /\ IsA(t, "lock") => (Going(t)' <=> Pos(t) < 3)
           /\ IsA(t, "auto_lock") => (Going(t)' <=> Pos(t) < 2)
<1>1. /\ Elsewhere(t) /\ loc'[t].kind = loc[t].kind /\ Pos(t)' = Pos(t) + 1
      /\ Going(t)' <=> Pos(t) + 1 < End(loc[t].kind)
      /\ Going(t)' => loc'[t] = l
      /\ ~Going(t)' => loc'[t] = Dropped(loc[t])
  BY ProceedMoves
<1>2. Pos(t) \in Int /\ loc[t].name \in Names /\ loc[t] \in Locals
  BY Ranges DEF TInv, Types
<1>3. loc'[t].name = loc[t].name
  BY <1>1, <1>2, LocalsDropped
<1>4. \A k : IsA(t, k)' <=> IsA(t, k)
  BY <1>1 DEF IsA
<1>5. /\ IsA(t, "create") => End(loc[t].kind) = 20
      /\ IsA(t, "setup") => End(loc[t].kind) = 18
      /\ IsA(t, "use") => End(loc[t].kind) = 7
      /\ IsA(t, "lock") => End(loc[t].kind) = 4
      /\ IsA(t, "auto_lock") => End(loc[t].kind) = 3
  BY Ends DEF IsA
<1> QED
  BY <1>1, <1>2, <1>3, <1>4, <1>5

\* ... if it has nothing to note, ...
LEMMA MovedOn ==
    ASSUME TInv, NEW t \in Tasks, Going(t), Proceed(t, loc[t])
    PROVE  /\ Elsewhere(t) /\ Pos(t) \in Int /\ Pos(t)' = Pos(t) + 1
           /\ loc[t].name \in Names /\ loc'[t].name = loc[t].name
           /\ \A k : IsA(t, k)' <=> IsA(t, k)
           /\ Going(t)' => loc'[t] = loc[t]
           /\ IsA(t, "create") => (Going(t)' <=> Pos(t) < 19)
           /\ IsA(t, "setup") => (Going(t)' <=> Pos(t) < 17)
           /\ IsA(t, "use") => (Going(t)' <=> Pos(t) < 6)
           /\ IsA(t, "lock") => (Going(t)' <=> Pos(t) < 3)
           /\ IsA(t, "auto_lock") => (Going(t)' <=> Pos(t) < 2)
<1>1. loc[t] \in Locals
  BY DEF TInv, Types
<1> QED
  BY <1>1, Moved

\* ... and if it ends it.
LEMMA Ended ==
    ASSUME TInv, NEW t \in Tasks, Going(t), Done(t)
    PROVE  /\ Elsewhere(t) /\ ~Going(t)' /\ loc'[t].name = loc[t].name
           /\ \A i, j : ~Creates(t, i, j)' /\ ~SetsUp(t, i, j)' /\ ~Makes(t, i, j)'
           /\ ~Adopting(t)' /\ ~Awaiting(t)' /\ ~Forgetting(t)'
<1>1. Elsewhere(t) /\ ~Going(t)' /\ loc'[t] = Dropped(loc[t]) /\ loc[t] \in Locals
  BY DoneMoves DEF TInv, Types
<1>2. loc'[t].name = loc[t].name
  BY <1>1, LocalsDropped
<1>3. \A i, j : ~Creates(t, i, j)' /\ ~SetsUp(t, i, j)' /\ ~Makes(t, i, j)'
  BY <1>1 DEF Creates, SetsUp, Makes
<1> QED
  BY <1>1, <1>2, <1>3 DEF Adopting, Awaiting, Forgetting

\* A request may end where it has not minted a key yet.
LEMMA EndedSafe ==
    ASSUME TInv, TInv', Safe, NEW t \in Tasks, Going(t), Done(t), Gentle,
           UNCHANGED <<disk, master, pending, sessions, seen, audited>>,
           Creator(t) => Pos(t) <= 6
    PROVE  Safe'
<1>1. /\ Elsewhere(t) /\ ~Going(t)' /\ loc'[t].name = loc[t].name
      /\ \A i, j : ~Creates(t, i, j)' /\ ~SetsUp(t, i, j)' /\ ~Makes(t, i, j)'
      /\ ~Adopting(t)' /\ ~Awaiting(t)' /\ ~Forgetting(t)'
  BY Ended
<1>2. /\ ~Makes(t, 6, 7) /\ ~Makes(t, 7, 17) /\ ~Adopting(t) /\ ~Awaiting(t)
      /\ ~SetsUp(t, 6, 10)
  BY Ranges DEF Makes, Creates, SetsUp, Adopting, Awaiting, Creator
<1>3. UNCHANGED <<file, bundle, pointer, session>>
  BY DEF disk, sessions
<1>4. Alone'
  BY <1>1, AloneStays
<1>5. Shut'
  BY <1>1, <1>2, <1>3, GentleKeeps, ShutStays
<1>6. loc[t].recovery = None
  <2>1. CASE Creator(t)
    <3>1. Pos(t) \in Int /\ Pos(t) > 0
      BY <2>1, Ranges, Ends DEF TInv, Planned, PlanOf, Pos, Creator, IsA
    <3>2. Makes(t, 0, 11)
      BY <2>1, <3>1 DEF Makes, Creates, SetsUp, Creator
    <3> QED
      BY <3>2 DEF Safe, Each, Carrying
  <2>2. CASE ~Creator(t)
    BY <2>2 DEF TInv, Ready
  <2> QED
    BY <2>1, <2>2
<1>7. Each(t)'
  <2>1. Standing(t)' /\ Holding(t)' /\ Carrying(t)'
    BY <1>1 DEF Standing, Holding, Carrying
  <2>2. Showing(t)'
    BY <1>1, <1>3 DEF Safe, Each, Showing
  <2> QED
    BY <2>1, <2>2 DEF Each
<1> QED
  BY <1>1, <1>2, <1>4, <1>5, <1>6, <1>7, QuietSafe

\* A first run goes on only where nothing is set up.
LEMMA FreshSafe == ASSUME TInv, TInv', Safe, NEW t \in Tasks, Fresh(t) PROVE Safe'
<1>1. Going(t) /\ IsA(t, "setup") /\ Pos(t) = 4
  BY Where DEF Fresh
<1>2. UNCHANGED <<disk, memory, sessions, history>>
  BY DEF Fresh
<1>3. Gentle /\ UNCHANGED <<disk, master, pending, sessions, seen, audited, file, bundle, pointer, session>>
  BY <1>2, NoLookGentle DEF memory, history, disk, sessions
<1>4. CASE Done(t)
  BY <1>1, <1>3, <1>4, EndedSafe
<1>5. CASE Proceed(t, loc[t]) /\ \A n \in Names : file[n] = None
  <2>1. /\ Elsewhere(t) /\ Pos(t)' = 5 /\ loc[t].name \in Names /\ loc'[t] = loc[t]
        /\ \A k : IsA(t, k)' <=> IsA(t, k)
        /\ Going(t)'
    BY <1>1, <1>5, MovedOn
  <2>2. ~IsA(t, "create") /\ ~IsA(t, "create")' /\ ~IsA(t, "use")' /\ ~IsA(t, "lock")'
    BY <1>1, <2>1 DEF IsA
  <2>3. Standing(t)'
    <3>1. pointer' = Default
      BY <1>3, <1>5, KeyHandoverAssumption DEF Safe, Founded
    <3> QED
      BY <2>1, <2>2, <3>1 DEF Standing, Makes, Creates, SetsUp
  <2>4. Holding(t)'
    BY <2>1, <2>2 DEF Holding, Makes, Creates, SetsUp
  <2>5. Carrying(t)'
    <3>1. SetsUp(t, 0, 13) /\ Makes(t, 0, 11)
      BY <1>1 DEF Makes, SetsUp
    <3>2. loc'[t].recovery = None /\ session'[t] = None
      BY <1>3, <2>1, <3>1 DEF Safe, Each, Carrying
    <3> QED
      BY <2>1, <2>2, <3>2 DEF Carrying, Awaiting, Makes, Creates, SetsUp
  <2>6. Showing(t)'
    BY <1>3, <2>1 DEF Safe, Each, Showing
  <2>7. Alone'
    BY <2>1, <2>2, AloneStays DEF Creates, SetsUp
  <2>8. Shut'
    BY <1>1, <1>3, <2>1, <2>2, GentleKeeps, ShutStays DEF Creates, SetsUp, Forgetting
  <2>9. ~Makes(t, 6, 7) /\ ~Makes(t, 7, 17) /\ ~Adopting(t) /\ ~Awaiting(t)
    BY <1>1, <2>2 DEF Makes, Creates, SetsUp, Adopting, Awaiting
  <2>10. ~Creates(t, 16, 17)' /\ ~Creates(t, 2, 20)' /\ ~Creates(t, 1, 16)' /\ ~SetsUp(t, 6, 10)'
         /\ ~SetsUp(t, 6, 7)'
    BY <2>1, <2>2 DEF Creates, SetsUp
  <2> QED
    BY <1>3, <2>1, <2>3, <2>4, <2>5, <2>6, <2>7, <2>8, <2>9, <2>10, QuietSafe DEF Each
<1> QED
  BY <1>4, <1>5 DEF Fresh

\* A request that creates nothing has nothing to keep but the file it switches to.
LEMMA BystanderEach ==
    ASSUME TInv', NEW t \in Tasks, ~IsA(t, "create")', ~IsA(t, "setup")',
           IsA(t, "use")' /\ Going(t)' /\ Pos(t)' = 2 => file'[loc'[t].name] # None
    PROVE  /\ Each(t)'
           /\ \A i, j : ~Creates(t, i, j)' /\ ~SetsUp(t, i, j)' /\ ~Makes(t, i, j)'
           /\ ~Adopting(t)' /\ ~Awaiting(t)'
<1>1. /\ \A i, j : ~Creates(t, i, j)' /\ ~SetsUp(t, i, j)' /\ ~Makes(t, i, j)'
      /\ ~Adopting(t)' /\ ~Awaiting(t)'
  BY DEF Creates, SetsUp, Makes, Adopting, Awaiting
<1>2. Standing(t)' /\ Holding(t)' /\ Carrying(t)'
  BY <1>1 DEF Standing, Holding, Carrying
<1>3. session'[t] = None
  BY DEF TInv, Ready, Creator
<1>4. Showing(t)'
  BY <1>3 DEF Showing
<1> QED
  BY <1>1, <1>2, <1>4 DEF Each

\* A request that creates nothing is in no stretch of a creation and has no key.
LEMMA BystanderIs ==
    ASSUME TInv, NEW t \in Tasks, ~IsA(t, "create"), ~IsA(t, "setup")
    PROVE  /\ \A i, j : ~Creates(t, i, j) /\ ~SetsUp(t, i, j) /\ ~Makes(t, i, j)
           /\ ~Adopting(t) /\ ~Awaiting(t) /\ loc[t].recovery = None /\ session[t] = None
BY DEF Creates, SetsUp, Makes, Adopting, Awaiting, TInv, Ready, Creator

\* A new request has nothing yet.
LEMMA RequestSafe == ASSUME TInv, TInv', Safe, NEW t \in Tasks, Request(t) PROVE Safe'
<1>1. PICK k \in Kinds, n \in Names : Begin(t, k, n)
  BY DEF Request
<1>2. /\ Elsewhere(t) /\ Going(t)' /\ Pos(t)' = First(k)
      /\ loc'[t].kind = k /\ loc'[t].name = n /\ loc'[t].recovery = None
      /\ loc[t].kind = None /\ ~Going(t)
  BY <1>1, BeginMoves
<1>3. UNCHANGED <<disk, memory, sessions, history>>
  BY <1>1 DEF Begin
<1>4. Gentle /\ UNCHANGED <<disk, master, pending, sessions, seen, audited, file, bundle, pointer, session>>
  BY <1>3, NoLookGentle DEF memory, history, disk, sessions
<1>5. ~IsA(t, "create") /\ ~IsA(t, "setup")
  BY <1>2, KeyHandoverAssumption DEF IsA
<1>6. /\ \A i, j : ~Creates(t, i, j) /\ ~SetsUp(t, i, j) /\ ~Makes(t, i, j)
      /\ ~Adopting(t) /\ ~Awaiting(t) /\ loc[t].recovery = None /\ session[t] = None
  BY <1>5, BystanderIs
<1>7. Pos(t)' \in {1, 4} /\ (IsA(t, "setup")' => Pos(t)' = 4) /\ (IsA(t, "create")' => Pos(t)' = 1)
      /\ (IsA(t, "use")' => Pos(t)' = 1) /\ (IsA(t, "lock")' => Pos(t)' = 1)
      /\ ~(IsA(t, "create")' /\ IsA(t, "setup")')
  BY <1>2, Ends, KeyHandoverAssumption DEF IsA
<1>8. /\ Standing(t)' /\ Holding(t)'
  BY <1>7 DEF Standing, Holding, Makes, Creates, SetsUp
<1>9. Carrying(t)'
  BY <1>2, <1>4, <1>6, <1>7 DEF Carrying, Awaiting, Makes, Creates, SetsUp
<1>10. Showing(t)'
  BY <1>4, <1>6 DEF Showing
<1>11. /\ ~Creates(t, 3, 16)' /\ ~SetsUp(t, 6, 12)' /\ ~Creates(t, 1, 2)' /\ ~Forgetting(t)'
       /\ ~Creates(t, 16, 17)' /\ ~Creates(t, 2, 20)' /\ ~Creates(t, 1, 16)' /\ ~SetsUp(t, 6, 10)'
       /\ ~SetsUp(t, 6, 7)'
  BY <1>7 DEF Creates, SetsUp, Forgetting
<1>12. Alone'
  BY <1>2, <1>11, AloneStays
<1>13. Shut'
  BY <1>2, <1>4, <1>6, <1>11, GentleKeeps, ShutStays
<1> QED
  BY <1>2, <1>4, <1>6, <1>8, <1>9, <1>10, <1>11, <1>12, <1>13, QuietSafe DEF Each

\* A switch goes on only to a definition that exists.
LEMMA CompareSafe == ASSUME TInv, TInv', Safe, NEW t \in Tasks, Compare(t) PROVE Safe'
<1>1. Going(t) /\ IsA(t, "use") /\ Pos(t) = 1 /\ loc[t].kind \in Kinds
  BY Where DEF Compare
<1>2. UNCHANGED <<disk, memory, sessions, history>>
  BY DEF Compare
<1>3. Gentle /\ UNCHANGED <<disk, master, pending, sessions, seen, audited, file, bundle, pointer, session>>
  BY <1>2, NoLookGentle DEF memory, history, disk, sessions
<1>4. ~IsA(t, "create") /\ ~IsA(t, "setup") /\ ~Creator(t) /\ ~IsA(t, "lock")
  BY <1>1 DEF IsA, Creator
<1>5. CASE Done(t)
  BY <1>1, <1>3, <1>4, <1>5, EndedSafe
<1>6. CASE ~Done(t)
  <2>1. /\ Elsewhere(t) /\ loc'[t].name = loc[t].name /\ \A k : IsA(t, k)' <=> IsA(t, k)
        /\ Pos(t)' = 2 => file'[loc'[t].name] # None
    <3>1. CASE Proceed(t, loc[t]) /\ file[loc[t].name] # None
      BY <1>1, <1>3, <3>1, MovedOn
    <3>2. CASE todo' = [todo EXCEPT ![t] = <<"reopen", "decrypt", "restore">>] /\ UNCHANGED loc
      <4> DEFINE s == <<"reopen", "decrypt", "restore">>
      <4>1. s \in Seq(StepNames) /\ Len(s) = 3 /\ Len(s) \in 1..3 /\ PlanOf(loc[t].kind, s)
        BY <1>1, PlanJumps DEF IsA
      <4>2. todo' = [todo EXCEPT ![t] = s] /\ UNCHANGED loc
        BY <3>2
      <4> HIDE DEF s
      <4>3. Elsewhere(t) /\ Pos(t)' = End(loc[t].kind) - 3 /\ loc'[t] = loc[t]
        BY <1>1, <4>1, <4>2, JumpMoves
      <4>4. End(loc[t].kind) = 7
        BY <1>1, Ends DEF IsA
      <4> QED
        BY <4>3, <4>4 DEF IsA
    <3> QED
      BY <1>6, <3>1, <3>2 DEF Compare
  <2>2. /\ Each(t)'
        /\ \A i, j : ~Creates(t, i, j)' /\ ~SetsUp(t, i, j)' /\ ~Makes(t, i, j)'
        /\ ~Adopting(t)' /\ ~Awaiting(t)'
    BY <1>4, <2>1, BystanderEach
  <2>3. /\ \A i, j : ~Creates(t, i, j) /\ ~SetsUp(t, i, j) /\ ~Makes(t, i, j)
        /\ ~Adopting(t) /\ ~Awaiting(t) /\ loc[t].recovery = None
    BY <1>4, BystanderIs
  <2>4. Alone'
    BY <2>1, <2>2, AloneStays
  <2>5. Shut'
    BY <1>3, <1>4, <2>1, <2>2, <2>3, GentleKeeps, ShutStays DEF Forgetting
  <2> QED
    BY <1>3, <2>1, <2>2, <2>3, <2>4, <2>5, QuietSafe
<1> QED
  BY <1>5, <1>6

\* The session it looks for is still there, or had nothing to show.
LEMMA FindSafe == ASSUME TInv, TInv', Safe, NEW t \in Tasks, Find(t) PROVE Safe'
<1>1. Going(t) /\ IsA(t, "setup") /\ Pos(t) = 14 /\ ~IsA(t, "create") /\ ~IsA(t, "use")
  BY Where DEF Find, IsA
<1>2. UNCHANGED <<disk, memory, sessions, history>>
  BY DEF Find
<1>3. Gentle /\ UNCHANGED <<disk, master, pending, sessions, seen, audited, file, bundle, pointer, session>>
  BY <1>2, NoLookGentle DEF memory, history, disk, sessions
<1>4. /\ SetsUp(t, 13, 16) /\ SetsUp(t, 12, 15) /\ Makes(t, 11, 20) /\ Makes(t, 7, 20)
      /\ SetsUp(t, 7, 17) /\ Makes(t, 7, 17)
  BY <1>1 DEF SetsUp, Makes
<1>5. session[t] # None
  <2>1. session[t] = Blank
    BY <1>4 DEF Safe, Each, Carrying
  <2>2. Blank \in Shows
    BY DEF Blank, Shows
  <2> QED
    BY <2>1, <2>2, KeyHandoverAssumption
<1>6. /\ Elsewhere(t) /\ Pos(t)' = 15 /\ loc[t].name \in Names /\ loc'[t] = loc[t]
      /\ \A k : IsA(t, k)' <=> IsA(t, k)
      /\ Going(t)'
  BY <1>1, <1>5, MovedOn DEF Find
<1>7. ~IsA(t, "create")' /\ ~IsA(t, "use")' /\ ~Forgetting(t)' /\ IsA(t, "setup")'
  BY <1>1, <1>6 DEF IsA, Forgetting
<1>8. Standing(t)'
  BY <1>3, <1>4, <1>6, <1>7 DEF Safe, Each, Standing, Makes, Creates, SetsUp
<1>9. Holding(t)'
  BY <1>6, <1>7 DEF Holding, Makes, Creates, SetsUp
<1>10. Carrying(t)'
  <2>1. /\ loc[t].recovery = None /\ pending = t /\ session[t] = Blank
        /\ loc[t].agent = t /\ file[Default].agent = t
    BY <1>4 DEF Safe, Each, Carrying, Awaiting
  <2>2. pending' = t /\ session'[t] = Blank /\ file'[Default].agent = t /\ Blank' = Blank
    BY <1>3, <2>1 DEF Blank
  <2> QED
    BY <1>6, <1>7, <2>1, <2>2 DEF Carrying, Awaiting, Makes, Creates, SetsUp
<1>11. Showing(t)'
  BY <1>3, <1>6 DEF Safe, Each, Showing
<1>12. /\ ~Creates(t, 3, 16)' /\ ~SetsUp(t, 6, 12)' /\ ~Creates(t, 1, 2)'
       /\ ~Creates(t, 16, 17)' /\ ~Creates(t, 2, 20)' /\ ~Creates(t, 1, 16)' /\ ~SetsUp(t, 6, 10)'
       /\ ~Makes(t, 6, 7) /\ ~Adopting(t) /\ ~SetsUp(t, 6, 10)
       /\ Makes(t, 7, 17)' /\ Awaiting(t)' /\ ~SetsUp(t, 6, 7)'
  BY <1>1, <1>6, <1>7 DEF Creates, SetsUp, Makes, Adopting, Awaiting
<1>13. Alone'
  BY <1>6, <1>12, AloneStays
<1>14. Shut'
  BY <1>3, <1>6, <1>7, <1>12, GentleKeeps, ShutStays
<1> QED
  BY <1>3, <1>6, <1>8, <1>9, <1>10, <1>11, <1>12, <1>13, <1>14, QuietSafe DEF Each

\* create_vault() gets an object of the definition it is to create, which has no file.
LEMMA GetSafe == ASSUME TInv, TInv', Safe, NEW t \in Tasks, Get(t) PROVE Safe'
<1>1. Going(t) /\ Creator(t) /\ Pos(t) = 5
  BY Where DEF Get
<1>2. LookUp /\ UNCHANGED <<disk, master, pending, sessions, history>>
  BY DEF Get
<1>3. /\ Gentle /\ vault' = Current /\ Current \in Objects /\ object'[Current].name = pointer
      /\ UNCHANGED <<disk, master, pending, sessions, seen, audited, file, bundle, pointer, session>>
  BY <1>2, LookUpGentle DEF history, disk, sessions
<1>4. CASE Done(t)
  BY <1>1, <1>3, <1>4, EndedSafe
<1>5. CASE ~Done(t)
  <2> DEFINE l == [loc[t] EXCEPT !.v = Current]
  <2>1. Proceed(t, l)
    BY <1>5 DEF Get
  <2>2. loc[t] \in Locals /\ Ready(t)
    BY <1>3 DEF TInv, Types
  <2>3. /\ l \in Locals /\ l.kind = loc[t].kind /\ l.name = loc[t].name /\ l.pw = loc[t].pw
        /\ l.shared = loc[t].shared /\ l.recovery = loc[t].recovery /\ l.v = Current
    BY <1>3, <2>2 DEF Locals
  <2> HIDE DEF l
  <2>4. /\ Elsewhere(t) /\ Pos(t)' = 6 /\ loc[t].name \in Names /\ loc'[t] = l
        /\ \A k : IsA(t, k)' <=> IsA(t, k)
        /\ Going(t)'
    BY <1>1, <2>1, <2>3, Moved DEF Creator
  <2>5. /\ IsA(t, "create") \/ IsA(t, "setup")
        /\ ~IsA(t, "use")' /\ ~IsA(t, "lock")' /\ ~Forgetting(t)'
        /\ ~(IsA(t, "create") /\ IsA(t, "setup"))
    BY <1>1, <2>4 DEF Creator, IsA, Forgetting
  <2>6. pointer = loc[t].name
    <3>1. CASE IsA(t, "create")
      <4>1. Creates(t, 3, 16)
        BY <1>1, <3>1 DEF Creates
      <4> QED
        BY <4>1 DEF Safe, Each, Standing
    <3>2. CASE IsA(t, "setup")
      <4>1. SetsUp(t, 4, 5)
        BY <1>1, <3>2 DEF SetsUp
      <4> QED
        BY <2>2, <3>2, <4>1 DEF Safe, Each, Standing, Ready
    <3> QED
      BY <2>5, <3>1, <3>2
  <2>7. Standing(t)'
    <3>1. IsA(t, "create") => loc[t].name # Default /\ bundle[Default] # None
      BY <1>1 DEF Creates, Safe, Each, Standing
    <3> QED
      BY <1>3, <2>3, <2>4, <2>5, <2>6, <3>1 DEF Standing, Makes, Creates, SetsUp
  <2>8. Holding(t)'
    BY <1>3, <2>3, <2>4, <2>5, <2>6 DEF Holding, Makes, Creates, SetsUp
  <2>9. Carrying(t)'
    <3>1. Makes(t, 0, 11) /\ (SetsUp(t, 0, 13) \/ Creates(t, 0, 18))
      BY <1>1, <2>5 DEF Makes, Creates, SetsUp
    <3>2. loc'[t].recovery = None /\ session'[t] = None
      BY <1>3, <2>3, <2>4, <3>1 DEF Safe, Each, Carrying
    <3> QED
      BY <2>4, <2>5, <3>2 DEF Carrying, Awaiting, Makes, Creates, SetsUp
  <2>10. Showing(t)'
    BY <1>3, <2>3, <2>4 DEF Safe, Each, Showing
  <2>11. /\ ~SetsUp(t, 6, 12)' /\ ~Creates(t, 1, 2)' /\ ~Creates(t, 16, 17)'
         /\ ~SetsUp(t, 6, 10)' /\ ~SetsUp(t, 6, 10) /\ ~Makes(t, 6, 7) /\ ~Makes(t, 7, 17)
         /\ ~Adopting(t) /\ ~Awaiting(t) /\ ~SetsUp(t, 6, 7)'
         /\ Creates(t, 3, 16)' => Creates(t, 3, 16)
         /\ Creates(t, 1, 16)' => Creates(t, 1, 16)
         /\ Creates(t, 2, 20)' => Creates(t, 2, 20)
    BY <1>1, <2>4, <2>5 DEF Creates, SetsUp, Makes, Adopting, Awaiting
  <2>12. Alone'
    BY <2>4, <2>11, AloneStays
  <2>13. Shut'
    BY <1>3, <2>4, <2>5, <2>11, GentleKeeps, ShutStays
  <2>14. \A a, p \in Keys : OneKey(a, p) => (Creates(t, 2, 20)' => loc'[t].shared = a)
    BY <2>3, <2>4, <2>11 DEF OneKey
  <2>15. \A a, p \in Keys : OneKey(a, p) =>
           (Creates(t, 1, 16)' \/ SetsUp(t, 6, 10)' => loc'[t].pw = p)
    BY <2>3, <2>4, <2>11 DEF OneKey
  <2> QED
    BY <1>3, <2>3, <2>4, <2>7, <2>8, <2>9, <2>10, <2>11, <2>12, <2>13, <2>14, <2>15,
       QuietSafe DEF Each
<1> QED
  BY <1>4, <1>5

\* Its own object is open already.
LEMMA UnlockSafe == ASSUME TInv, TInv', Safe, NEW t \in Tasks, Unlock(t) PROVE Safe'
<1>1. Going(t) /\ Creator(t) /\ Pos(t) = 9
  BY Where DEF Unlock
<1>2. Mine(t).data # None /\ Mine(t) = object[loc[t].v]
  <2>1. Creates(t, 6, 16) \/ SetsUp(t, 6, 10)
    BY <1>1 DEF Creates, SetsUp, Creator
  <2> QED
    BY <2>1 DEF Safe, Each, Holding, Mine
<1>3. Proceed(t, loc[t]) /\ UNCHANGED <<disk, vault, object, master, pending, sessions, history>>
  BY <1>2 DEF Unlock
<1>4. /\ Gentle
      /\ UNCHANGED <<disk, master, pending, sessions, seen, audited, file, bundle, pointer, session,
                     object, vault>>
  BY <1>3, NoLookGentle DEF history, disk, sessions
<1>5. /\ Elsewhere(t) /\ Pos(t)' = 10 /\ loc[t].name \in Names /\ loc'[t] = loc[t]
      /\ \A k : IsA(t, k)' <=> IsA(t, k)
      /\ Going(t)'
  BY <1>1, <1>3, MovedOn DEF Creator
<1>6. /\ ~IsA(t, "use") /\ ~IsA(t, "lock") /\ ~Forgetting(t)'
  BY <1>1, <1>5 DEF Creator, IsA, Forgetting
<1>7. /\ Standing(t) /\ Holding(t) /\ Carrying(t) /\ Showing(t)
  BY DEF Safe, Each
<1>8. Standing(t)'
  BY <1>1, <1>4, <1>5, <1>6, <1>7 DEF Standing, Makes, Creates, SetsUp
<1>9. Holding(t)'
  BY <1>1, <1>4, <1>5, <1>6, <1>7 DEF Holding, Makes, Creates, SetsUp
<1>10. Carrying(t)'
  BY <1>1, <1>4, <1>5, <1>6, <1>7 DEF Carrying, Awaiting, Makes, Creates, SetsUp, Blank
<1>11. Showing(t)'
  BY <1>4, <1>5, <1>7 DEF Showing
<1>12. /\ ~Creates(t, 1, 2)' /\ ~Makes(t, 6, 7) /\ ~Adopting(t) /\ ~Awaiting(t) /\ ~Creates(t, 16, 17)'
       /\ ~SetsUp(t, 6, 7)'
       /\ SetsUp(t, 6, 10) <=> SetsUp(t, 6, 10)'
       /\ SetsUp(t, 6, 12)' => SetsUp(t, 6, 12)
       /\ Makes(t, 7, 17) => Makes(t, 7, 17)'
       /\ Creates(t, 3, 16)' => Creates(t, 3, 16)
       /\ Creates(t, 1, 16)' => Creates(t, 1, 16)
       /\ Creates(t, 2, 20)' => Creates(t, 2, 20)
  BY <1>1, <1>5 DEF Creates, SetsUp, Makes, Adopting, Awaiting
<1>13. Alone'
  BY <1>5, <1>12, AloneStays
<1>14. Shut'
  BY <1>4, <1>5, <1>6, <1>12, GentleKeeps, ShutStays
<1>15. \A a, p \in Keys : OneKey(a, p) => (Creates(t, 2, 20)' => loc'[t].shared = a)
  BY <1>5, <1>12 DEF OneKey
<1>16. \A a, p \in Keys : OneKey(a, p) =>
         (Creates(t, 1, 16)' \/ SetsUp(t, 6, 10)' => loc'[t].pw = p)
  BY <1>5, <1>12 DEF OneKey
<1> QED
  BY <1>4, <1>5, <1>8, <1>9, <1>10, <1>11, <1>12, <1>13, <1>14, <1>15, <1>16, QuietSafe DEF Each

\* A creation is let in with the password in memory, which is the one there is.
LEMMA AdmitSafe == ASSUME TInv, TInv', Safe, NEW t \in Tasks, Admit(t) PROVE Safe'
<1>1. Going(t) /\ IsA(t, "create") /\ Pos(t) = 1
  BY Where DEF Admit
<1>2. LookUp /\ UNCHANGED <<disk, master, pending, sessions, history>>
  BY DEF Admit
<1>3. /\ Gentle
      /\ UNCHANGED <<disk, master, pending, sessions, seen, audited, file, bundle, pointer, session, signed>>
  BY <1>2, LookUpGentle DEF history, disk, sessions
<1>4. CASE Done(t)
  BY <1>1, <1>3, <1>4, EndedSafe
<1>5. CASE ~Done(t)
  <2> DEFINE l == [loc[t] EXCEPT !.pw = master]
  <2>1. Proceed(t, l) /\ signed /\ Unlocked /\ master # None /\ file[loc[t].name] = None
    BY <1>5 DEF Admit
  <2>2. loc[t] \in Locals /\ master \in Keyed
    BY DEF TInv, Types, SharedTypes
  <2>3. /\ l \in Locals /\ l.kind = loc[t].kind /\ l.name = loc[t].name /\ l.pw = master
        /\ l.recovery = loc[t].recovery
    BY <2>2 DEF Locals
  <2> HIDE DEF l
  <2>4. /\ Elsewhere(t) /\ Pos(t)' = 2 /\ loc[t].name \in Names /\ loc'[t] = l
        /\ \A k : IsA(t, k)' <=> IsA(t, k)
        /\ Going(t)'
    BY <1>1, <2>1, <2>3, Moved
  <2>5. /\ ~IsA(t, "use")' /\ ~IsA(t, "lock")' /\ ~Forgetting(t)' /\ ~IsA(t, "setup")'
        /\ ~IsA(t, "setup")
    BY <1>1, <2>4 DEF IsA, Forgetting
  <2>6. Standing(t)'
    <3>1. bundle[Default] # None /\ loc[t].name # Default
      BY <2>1, KeyHandoverAssumption DEF Safe, Founded
    <3> QED
      BY <1>3, <2>3, <2>4, <2>5, <3>1 DEF Standing, Makes, Creates, SetsUp
  <2>7. Holding(t)'
    BY <2>4, <2>5 DEF Holding, Makes, Creates, SetsUp
  <2>8. Carrying(t)'
    <3>1. Makes(t, 0, 11) /\ Creates(t, 0, 18)
      BY <1>1 DEF Makes, Creates
    <3>2. loc'[t].recovery = None /\ session'[t] = None
      BY <1>3, <2>3, <2>4, <3>1 DEF Safe, Each, Carrying
    <3> QED
      BY <2>4, <2>5, <3>2 DEF Carrying, Awaiting, Makes, Creates, SetsUp
  <2>9. Showing(t)'
    BY <1>3, <2>3, <2>4 DEF Safe, Each, Showing
  <2>10. Cached /\ ~Locked
    BY <2>1, LoadedData DEF Cached, Locked
  <2>11. \A u \in Tasks : ~Forgetting(u)
    BY <2>10 DEF Safe, Shut
  <2>12. /\ ~SetsUp(t, 6, 12)' /\ ~Creates(t, 3, 16)' /\ ~SetsUp(t, 6, 10)' /\ ~SetsUp(t, 6, 10)
         /\ ~Creates(t, 16, 17)' /\ ~Creates(t, 2, 20)' /\ ~SetsUp(t, 6, 7)'
         /\ ~Makes(t, 6, 7) /\ ~Makes(t, 7, 17) /\ ~Adopting(t) /\ ~Awaiting(t)
    BY <1>1, <2>4, <2>5 DEF Creates, SetsUp, Makes, Adopting, Awaiting
  <2>13. Alone'
    BY <2>4, <2>12, AloneStays
  <2>14. Shut'
    <3>1. Locked => Locked'
      BY <2>10
    <3>2. Cached' /\ ~Locked'
      BY <1>3, <2>10, GentleKeeps
    <3> QED
      BY <1>3, <2>1, <2>4, <2>5, <2>11, <2>12, <3>1, <3>2, ShutStays
  <2>15. \A a, p \in Keys : OneKey(a, p) => loc'[t].pw = p
    BY <2>1, <2>3, <2>4 DEF OneKey
  <2> QED
    BY <1>3, <2>3, <2>4, <2>6, <2>7, <2>8, <2>9, <2>12, <2>13, <2>14, <2>15, QuietSafe DEF Each
<1> QED
  BY <1>4, <1>5

\* A creation finds the one agent key, as nobody is adopting one.
LEMMA SharedSafe ==
    ASSUME TInv, TInv', Safe, NEW t \in Tasks, CurrentSharedAgent(t), ~crossed'
    PROVE  Safe'
<1>1. Going(t) /\ IsA(t, "create") /\ Pos(t) = 2
  BY Where DEF CurrentSharedAgent
<1>2. LookUp /\ UNCHANGED <<disk, master, pending, sessions, seen, audited>>
  BY DEF CurrentSharedAgent
<1>3. /\ Gentle
      /\ UNCHANGED <<disk, master, pending, sessions, seen, audited, file, bundle, pointer, session, signed>>
  BY <1>2, LookUpGentle DEF disk, sessions
<1>4. \A u \in Tasks \ {t} : ~Makes(u, 6, 8)
  BY BetweenIs DEF CurrentSharedAgent, Cross
<1>5. Cached /\ ~Locked /\ Unlocked /\ Loaded[Current].data = object[vault].data /\ vault \in Objects
  <2>1. Creates(t, 1, 2)
    BY <1>1 DEF Creates
  <2>2. Cached /\ ~Locked
    BY <2>1 DEF Safe, Shut
  <2>3. vault \in Objects
    BY <2>2 DEF Cached, TInv, Types, SharedTypes
  <2> QED
    BY <2>2, <2>3, LoadedData DEF Locked, Unlocked
<1> DEFINE g == object[vault].data.agent
           l == [loc[t] EXCEPT !.shared = g]
<1>6. Proceed(t, l)
  BY <1>5 DEF CurrentSharedAgent
<1>7. \A a, p \in Keys : OneKey(a, p) => g = a
  <2> SUFFICES ASSUME NEW a \in Keys, NEW p \in Keys, OneKey(a, p) PROVE g = a
    OBVIOUS
  <2>1. object[vault].data # None
    BY <1>5 DEF Locked
  <2>2. g = a \/ \E u \in Tasks : Adopting(u) /\ loc[u].v = vault
    BY <1>5, <2>1 DEF OneKey
  <2>3. \A u \in Tasks : ~Adopting(u)
    BY <1>1, <1>4 DEF Adopting, Makes, Creates
  <2> QED
    BY <2>2, <2>3
<1>8. g \in Keys
  <2>1. PICK a \in Keys, p \in Keys : OneKey(a, p)
    BY DEF Safe
  <2> QED
    BY <1>7, <2>1
<1> HIDE DEF g
<1>9. /\ l \in Locals /\ l.kind = loc[t].kind /\ l.name = loc[t].name /\ l.shared = g
      /\ l.recovery = loc[t].recovery /\ l.pw = loc[t].pw
  <2>1. loc[t] \in Locals
    BY DEF TInv, Types
  <2> QED
    BY <1>8, <2>1 DEF Locals, Keyed
<1> HIDE DEF l
<1>10. /\ Elsewhere(t) /\ Pos(t)' = 3 /\ loc[t].name \in Names /\ loc'[t] = l
       /\ \A k : IsA(t, k)' <=> IsA(t, k)
       /\ Going(t)'
  BY <1>1, <1>6, <1>9, Moved
<1>11. /\ ~IsA(t, "use")' /\ ~IsA(t, "lock")' /\ ~Forgetting(t)' /\ ~IsA(t, "setup")'
       /\ ~IsA(t, "setup") /\ ~IsA(t, "use")
  BY <1>1, <1>10 DEF IsA, Forgetting
<1>12. Standing(t) /\ Carrying(t) /\ Showing(t)
  BY DEF Safe, Each
<1>13. Standing(t)'
  BY <1>1, <1>3, <1>9, <1>10, <1>11, <1>12 DEF Standing, Makes, Creates, SetsUp
<1>14. Holding(t)'
  BY <1>10, <1>11 DEF Holding, Makes, Creates, SetsUp
<1>15. Carrying(t)'
  BY <1>1, <1>3, <1>9, <1>10, <1>11, <1>12 DEF Carrying, Awaiting, Makes, Creates, SetsUp
<1>16. Showing(t)'
  BY <1>3, <1>9, <1>10, <1>12 DEF Showing
<1>17. /\ ~SetsUp(t, 6, 12)' /\ ~Creates(t, 3, 16)' /\ ~SetsUp(t, 6, 10)' /\ ~SetsUp(t, 6, 10)
       /\ ~Creates(t, 16, 17)' /\ ~Creates(t, 1, 2)' /\ Creates(t, 1, 16) /\ ~SetsUp(t, 6, 7)'
       /\ ~Makes(t, 6, 7) /\ ~Makes(t, 7, 17) /\ ~Adopting(t) /\ ~Awaiting(t)
  BY <1>1, <1>10, <1>11 DEF Creates, SetsUp, Makes, Adopting, Awaiting
<1>18. Alone'
  BY <1>10, <1>17, AloneStays
<1>19. Shut'
  BY <1>3, <1>10, <1>11, <1>17, GentleKeeps, ShutStays
<1>20. \A a, p \in Keys : OneKey(a, p) => loc'[t].pw = p
  BY <1>9, <1>10, <1>17 DEF OneKey
<1>21. \A a, p \in Keys : OneKey(a, p) => loc'[t].shared = a
  BY <1>7, <1>9, <1>10
<1> QED
  BY <1>3, <1>9, <1>10, <1>13, <1>14, <1>15, <1>16, <1>17, <1>18, <1>19, <1>20, <1>21,
     QuietSafe DEF Each

\* It works on its own object again, which is still cached.
LEMMA DataSafe == ASSUME TInv, TInv', Safe, NEW t \in Tasks, GetVaultData(t) PROVE Safe'
<1>1. Going(t) /\ IsA(t, "create") /\ Pos(t) = 14
  BY Where DEF GetVaultData
<1>2. LookUp /\ UNCHANGED <<disk, master, pending, sessions, history>>
  BY DEF GetVaultData
<1>3. /\ Gentle
      /\ UNCHANGED <<disk, master, pending, sessions, seen, audited, file, bundle, pointer, session, signed>>
  BY <1>2, LookUpGentle DEF disk, sessions, history
<1>4. Unlocked /\ Current = loc[t].v /\ loc[t].v \in Objects /\ vault' = vault
      /\ object'[loc[t].v] = object[loc[t].v]
  <2>1. Creates(t, 6, 16) /\ Creates(t, 5, 16) /\ Makes(t, 5, 20)
    BY <1>1 DEF Creates, Makes
  <2> QED
    BY <1>3, <2>1, HoldersCached, GentleKeeps
<1> DEFINE l == [loc[t] EXCEPT !.d = Current]
<1>5. Proceed(t, l)
  BY <1>4 DEF GetVaultData
<1>6. /\ l \in Locals /\ l.kind = loc[t].kind /\ l.name = loc[t].name /\ l.shared = loc[t].shared
      /\ l.recovery = loc[t].recovery /\ l.pw = loc[t].pw /\ l.d = loc[t].v /\ l.v = loc[t].v
      /\ l.agent = loc[t].agent
  <2>1. loc[t] \in Locals
    BY DEF TInv, Types
  <2> QED
    BY <1>4, <2>1 DEF Locals
<1> HIDE DEF l
<1>7. /\ Elsewhere(t) /\ Pos(t)' = 15 /\ loc[t].name \in Names /\ loc'[t] = l
      /\ \A k : IsA(t, k)' <=> IsA(t, k)
      /\ Going(t)'
  BY <1>1, <1>5, <1>6, Moved
<1>8. /\ ~IsA(t, "use")' /\ ~IsA(t, "lock")' /\ ~Forgetting(t)' /\ ~IsA(t, "setup")'
      /\ ~IsA(t, "setup") /\ ~IsA(t, "use")
  BY <1>1, <1>7 DEF IsA, Forgetting
<1>9. Standing(t) /\ Carrying(t) /\ Showing(t) /\ Holding(t)
  BY DEF Safe, Each
<1>10. Standing(t)'
  BY <1>1, <1>3, <1>6, <1>7, <1>8, <1>9 DEF Standing, Makes, Creates, SetsUp
<1>11. Holding(t)'
  BY <1>1, <1>4, <1>6, <1>7, <1>8, <1>9 DEF Holding, Makes, Creates, SetsUp
<1>12. Carrying(t)'
  BY <1>1, <1>3, <1>6, <1>7, <1>8, <1>9 DEF Carrying, Awaiting, Makes, Creates, SetsUp
<1>13. Showing(t)'
  BY <1>3, <1>6, <1>7, <1>9 DEF Showing
<1>14. /\ ~SetsUp(t, 6, 12)' /\ ~SetsUp(t, 6, 10)' /\ ~SetsUp(t, 6, 10)
       /\ ~Creates(t, 16, 17)' /\ ~Creates(t, 1, 2)' /\ ~SetsUp(t, 6, 7)'
       /\ Creates(t, 1, 16) /\ Creates(t, 3, 16) /\ Creates(t, 2, 20)
       /\ Makes(t, 7, 17)' /\ ~Makes(t, 6, 7) /\ ~Adopting(t) /\ ~Awaiting(t)
  BY <1>1, <1>7, <1>8 DEF Creates, SetsUp, Makes, Adopting, Awaiting
<1>15. Alone'
  BY <1>7, <1>14, AloneStays
<1>16. Shut'
  BY <1>3, <1>7, <1>8, <1>14, GentleKeeps, ShutStays
<1>17. \A a, p \in Keys : OneKey(a, p) => loc'[t].pw = p /\ loc'[t].shared = a
  BY <1>6, <1>7, <1>14 DEF OneKey
<1> QED
  BY <1>3, <1>6, <1>7, <1>10, <1>11, <1>12, <1>13, <1>14, <1>15, <1>16, <1>17, QuietSafe DEF Each

\* The invariant put together from what the step does for its own request and for the others.
LEMMA Assembled ==
    ASSUME NEW t \in Tasks, Founded', Alone', Shut', Kept', Recorded', Each(t)',
           \A u \in Tasks \ {t} : Standing(u)', \A u \in Tasks \ {t} : Holding(u)',
           \A u \in Tasks \ {t} : Carrying(u)', \A u \in Tasks \ {t} : Showing(u)',
           \E a, p \in Keys : OneKey(a, p)', \A n \in Names : Reaches(n)'
    PROVE  Safe'
<1>1. \A u \in Tasks : Each(u)'
  BY DEF Each
<1>2. (\A n \in Names : Reaches(n))' /\ (\A u \in Tasks : Each(u))'
       /\ (\E a, p \in Keys : OneKey(a, p))'
  BY <1>1
<1> QED
  BY <1>2 DEF Safe

----------------------------------------------------------------------------
(* Switching definitions                                                   *)

\* Nobody relies on the active definition when another becomes active.
LEMMA NobodyRelies ==
    ASSUME TInv, NEW t \in Tasks, Cross(t, Relies), ~crossed'
    PROVE  \A u \in Tasks \ {t} : ~Creates(u, 1, 2) /\ ~Creates(u, 3, 16) /\ ~SetsUp(u, 4, 5)
                                  /\ ~Creates(u, 5, 16) /\ ~Creates(u, 6, 16)
                                  /\ ~Creates(u, 14, 15) /\ ~Creates(u, 15, 16)
<1>1. \A u \in Tasks \ {t} : ~Relies(u)
  BY DEF Cross
<1>2. \A u \in Tasks \ {t} : ~Creates(u, 1, 2) /\ ~Creates(u, 3, 16) /\ ~SetsUp(u, 4, 5)
  BY <1>1, BetweenIs DEF Relies
<1> QED
  BY <1>2, Ranges

\* Nobody relies on the definition that was active, but a creation that has just begun.
LEMMA PointSafe ==
    ASSUME TInv, TInv', Safe, NEW t \in Tasks, Point(t), ~crossed'
    PROVE  Safe'
<1>1. /\ Going(t)
      /\ (IsA(t, "create") /\ Pos(t) = 3) \/ (IsA(t, "use") /\ Pos(t) = 2)
      /\ ~IsA(t, "setup") /\ ~IsA(t, "lock")
  BY Where DEF Point, IsA
<1>2. /\ pointer' = loc[t].name /\ Cross(t, Relies) /\ Proceed(t, loc[t])
      /\ UNCHANGED <<file, bundle, memory, sessions, seen, audited>>
  BY DEF Point
<1>3. /\ UNCHANGED <<file, bundle, vault, object, master, pending, session, signed, seen, audited>>
      /\ Gentle
  BY <1>2, NoLookGentle DEF memory, sessions
<1>4. \A u \in Tasks \ {t} : ~Creates(u, 1, 2) /\ ~Creates(u, 3, 16) /\ ~SetsUp(u, 4, 5)
                             /\ ~Creates(u, 5, 16) /\ ~Creates(u, 6, 16)
                             /\ ~Creates(u, 14, 15) /\ ~Creates(u, 15, 16)
  BY <1>2, NobodyRelies
<1>5. /\ Elsewhere(t) /\ Pos(t)' = Pos(t) + 1 /\ loc[t].name \in Names /\ loc'[t] = loc[t]
      /\ \A k : IsA(t, k)' <=> IsA(t, k)
      /\ Going(t)' /\ Default \in Names
  BY <1>1, <1>2, MovedOn, KeyHandoverAssumption
<1>6. Standing(t) /\ Carrying(t) /\ Showing(t)
  BY DEF Safe, Each
<1>7. Founded'
  <2>1. file[Default] # None
    <3>1. CASE IsA(t, "create")
      BY <1>1, <1>5, <1>6, <3>1 DEF Standing, Creates, Safe, Founded
    <3>2. CASE IsA(t, "use")
      BY <1>1, <1>5, <1>6, <3>2 DEF Standing, Safe, Founded, IsA
    <3> QED
      BY <1>1, <3>1, <3>2
  <2> QED
    BY <1>3, <2>1 DEF Safe, Founded
<1>8. /\ ~SetsUp(t, 6, 12)' /\ ~SetsUp(t, 6, 10)' /\ ~SetsUp(t, 6, 10) /\ ~SetsUp(t, 6, 7)'
      /\ ~Creates(t, 16, 17)' /\ ~Creates(t, 1, 2)' /\ ~Forgetting(t)'
      /\ Creates(t, 1, 16)' => Creates(t, 1, 16)
      /\ Creates(t, 2, 20)' => Creates(t, 2, 20)
      /\ ~Makes(t, 7, 17) /\ ~Makes(t, 6, 7) /\ ~Adopting(t) /\ ~Awaiting(t)
  <2>1. /\ ~IsA(t, "setup")' /\ ~IsA(t, "lock")'
        /\ IsA(t, "create") => Pos(t) = 3 /\ Pos(t)' = 4
        /\ IsA(t, "create")' => IsA(t, "create")
    BY <1>1, <1>5 DEF IsA
  <2>2. /\ ~SetsUp(t, 6, 12)' /\ ~SetsUp(t, 6, 10)' /\ ~SetsUp(t, 6, 10) /\ ~Forgetting(t)'
        /\ ~SetsUp(t, 6, 7)'
    BY <1>1, <2>1 DEF SetsUp, Forgetting
  <2>3. /\ ~Creates(t, 16, 17)' /\ ~Creates(t, 1, 2)'
        /\ Creates(t, 1, 16)' => Creates(t, 1, 16)
        /\ Creates(t, 2, 20)' => Creates(t, 2, 20)
    BY <1>1, <2>1 DEF Creates
  <2>4. ~Makes(t, 7, 17) /\ ~Makes(t, 6, 7) /\ ~Adopting(t) /\ ~Awaiting(t)
    BY <1>1, <2>1 DEF Creates, SetsUp, Makes, Adopting, Awaiting
  <2> QED
    BY <2>2, <2>3, <2>4
<1>9. Alone'
  BY <1>4, <1>5, <1>8, AloneStays
<1>10. Shut'
  <2>1. Locked => Locked'
    BY <1>3 DEF Locked
  <2> QED
    BY <1>3, <1>4, <1>5, <1>8, <2>1, ShutStays
<1>11. Kept'
  BY <1>3, <1>5, <1>8, KeptStays DEF Gentle
<1>12. Recorded'
  BY <1>3, <1>5, <1>8, RecordedStays
<1>13. \E a, p \in Keys : OneKey(a, p)'
  <2>1. PICK a \in Keys, p \in Keys : OneKey(a, p)
    BY DEF Safe
  <2>2. /\ Creates(t, 2, 20)' => loc'[t].shared = a
        /\ Creates(t, 1, 16)' \/ SetsUp(t, 6, 10)' => loc'[t].pw = p
    BY <1>5, <1>8, <2>1 DEF OneKey
  <2>3. OneKey(a, p)'
    BY <1>3, <1>5, <1>8, <2>1, <2>2, OneKeyStays
  <2> QED
    BY <2>3
<1>14. \A n \in Names : Reaches(n)'
  BY <1>3, <1>5, <1>8, ReachesStays
<1>15. \A u \in Tasks \ {t} : Standing(u)'
  <2>1. \A u \in Tasks \ {t} : Makes(u, 6, 7) => file'[loc[u].name] = None
    BY <1>3 DEF Safe, Each, Standing
  <2> QED
    BY <1>3, <1>4, <1>5, <2>1, StandingOthers
<1>16. \A u \in Tasks \ {t} : Holding(u)'
  <2>1. \A u \in Tasks \ {t} : SetsUp(u, 6, 10) => object'[loc[u].v].data # None
    BY <1>3 DEF Safe, Each, Holding
  <2> QED
    BY <1>3, <1>4, <1>5, <2>1, HoldingOthers
<1>17. \A u \in Tasks \ {t} : Carrying(u)'
  BY <1>3, <1>5, CarryingOthers
<1>18. \A u \in Tasks \ {t} : Showing(u)'
  BY <1>3, <1>5, ShowingOthers
<1>19. Each(t)'
  <2>1. Standing(t)'
    BY <1>1, <1>2, <1>3, <1>5, <1>6 DEF Standing, Makes, Creates, SetsUp
  <2>2. Holding(t)'
    BY <1>1, <1>5 DEF Holding, Makes, Creates, SetsUp
  <2>3. Carrying(t)'
    BY <1>1, <1>3, <1>5, <1>6 DEF Carrying, Awaiting, Makes, Creates, SetsUp
  <2>4. Showing(t)'
    BY <1>3, <1>5, <1>6 DEF Showing
  <2> QED
    BY <2>1, <2>2, <2>3, <2>4 DEF Each
<1> QED
  BY <1>7, <1>9, <1>10, <1>11, <1>12, <1>13, <1>14, <1>15, <1>16, <1>17, <1>18, <1>19, Assembled

\* Nobody relies on the object that was cached.
LEMMA ResetSafe ==
    ASSUME TInv, TInv', Safe, NEW t \in Tasks, Reset(t), ~crossed'
    PROVE  Safe'
<1>1. /\ Going(t)
      /\ (IsA(t, "create") /\ Pos(t) = 4) \/ (IsA(t, "use") /\ Pos(t) = 3)
      /\ ~IsA(t, "setup") /\ ~IsA(t, "lock")
  BY Where DEF Reset, IsA
<1>2. /\ vault' = None /\ Cross(t, Relies) /\ Proceed(t, loc[t])
      /\ UNCHANGED <<disk, object, master, pending, sessions, seen, audited>>
  BY DEF Reset
<1>3. UNCHANGED <<file, bundle, pointer, object, master, pending, session, signed, seen, audited>>
  BY <1>2 DEF disk, sessions
<1>4. \A u \in Tasks \ {t} : ~Creates(u, 1, 2) /\ ~Creates(u, 3, 16) /\ ~SetsUp(u, 4, 5)
                             /\ ~Creates(u, 5, 16) /\ ~Creates(u, 6, 16)
                             /\ ~Creates(u, 14, 15) /\ ~Creates(u, 15, 16)
  BY <1>2, NobodyRelies
<1>5. /\ Elsewhere(t) /\ Pos(t)' = Pos(t) + 1 /\ loc[t].name \in Names /\ loc'[t].name = loc[t].name
      /\ \A k : IsA(t, k)' <=> IsA(t, k)
      /\ IsA(t, "create") => Going(t)' /\ loc'[t] = loc[t]
      /\ Going(t)' /\ loc'[t] = loc[t]
      /\ Default \in Names
  BY <1>1, <1>2, MovedOn, KeyHandoverAssumption
<1>6. Standing(t) /\ Carrying(t) /\ Showing(t)
  BY DEF Safe, Each
<1>7. Founded'
  BY <1>3, FoundedStays
<1>8. /\ ~SetsUp(t, 6, 12)' /\ ~SetsUp(t, 6, 10)' /\ ~SetsUp(t, 6, 10) /\ ~SetsUp(t, 6, 7)'
      /\ ~Creates(t, 16, 17)' /\ ~Creates(t, 1, 2)' /\ ~Forgetting(t)'
      /\ Creates(t, 1, 16)' => Creates(t, 1, 16)
      /\ Creates(t, 2, 20)' => Creates(t, 2, 20)
      /\ ~Makes(t, 7, 17) /\ ~Makes(t, 6, 7) /\ ~Adopting(t) /\ ~Awaiting(t)
  <2>1. /\ ~IsA(t, "setup")' /\ ~IsA(t, "lock")'
        /\ IsA(t, "create") => Pos(t) = 4 /\ Pos(t)' = 5
        /\ IsA(t, "create")' => IsA(t, "create")
    BY <1>1, <1>5 DEF IsA
  <2>2. /\ ~SetsUp(t, 6, 12)' /\ ~SetsUp(t, 6, 10)' /\ ~SetsUp(t, 6, 10) /\ ~Forgetting(t)'
        /\ ~SetsUp(t, 6, 7)'
    BY <1>1, <2>1 DEF SetsUp, Forgetting
  <2>3. /\ ~Creates(t, 16, 17)' /\ ~Creates(t, 1, 2)'
        /\ Creates(t, 1, 16)' => Creates(t, 1, 16)
        /\ Creates(t, 2, 20)' => Creates(t, 2, 20)
    BY <1>1, <2>1 DEF Creates
  <2>4. ~Makes(t, 7, 17) /\ ~Makes(t, 6, 7) /\ ~Adopting(t) /\ ~Awaiting(t)
    BY <1>1, <2>1 DEF Creates, SetsUp, Makes, Adopting, Awaiting
  <2> QED
    BY <2>2, <2>3, <2>4
<1>9. Alone'
  BY <1>4, <1>5, <1>8, AloneStays
<1>10. Shut'
  <2>1. Locked'
    BY <1>2 DEF Locked
  <2> QED
    BY <1>3, <1>4, <1>5, <1>8, <2>1, ShutStays
<1>11. Kept'
  BY <1>3, <1>5, <1>8, KeptStays
<1>12. Recorded'
  BY <1>3, <1>5, <1>8, RecordedStays
<1>13. \E a, p \in Keys : OneKey(a, p)'
  <2>1. PICK a \in Keys, p \in Keys : OneKey(a, p)
    BY DEF Safe
  <2>2. /\ Creates(t, 2, 20)' => loc'[t].shared = a
        /\ Creates(t, 1, 16)' \/ SetsUp(t, 6, 10)' => loc'[t].pw = p
    BY <1>5, <1>8, <2>1 DEF OneKey
  <2>3. OneKey(a, p)'
    BY <1>2, <1>3, <1>5, <1>8, <2>1, <2>2, OneKeyStays
  <2> QED
    BY <2>3
<1>14. \A n \in Names : Reaches(n)'
  BY <1>3, <1>5, <1>8, ReachesStays
<1>15. \A u \in Tasks \ {t} : Standing(u)'
  <2>1. \A u \in Tasks \ {t} : Makes(u, 6, 7) => file'[loc[u].name] = None
    BY <1>3 DEF Safe, Each, Standing
  <2> QED
    BY <1>3, <1>4, <1>5, <2>1, StandingOthers
<1>16. \A u \in Tasks \ {t} : Holding(u)'
  <2>1. \A u \in Tasks \ {t} : SetsUp(u, 6, 10) => object'[loc[u].v].data # None
    BY <1>3 DEF Safe, Each, Holding
  <2> QED
    BY <1>3, <1>4, <1>5, <2>1, HoldingOthers
<1>17. \A u \in Tasks \ {t} : Carrying(u)'
  BY <1>3, <1>5, CarryingOthers
<1>18. \A u \in Tasks \ {t} : Showing(u)'
  BY <1>3, <1>5, ShowingOthers
<1>19. Each(t)'
  <2>1. Standing(t)'
    <3>1. CASE IsA(t, "create")
      <4>1. /\ Creates(t, 3, 16) /\ Creates(t, 1, 20) /\ Pos(t)' = 5 /\ ~IsA(t, "use")'
            /\ ~IsA(t, "setup")'
        BY <1>1, <1>5, <3>1 DEF Creates, IsA
      <4> QED
        BY <1>3, <1>5, <1>6, <4>1 DEF Standing, Makes, Creates, SetsUp
    <3>2. CASE IsA(t, "use")
      <4>1. Pos(t)' = 4 /\ ~IsA(t, "create")' /\ ~IsA(t, "setup")'
        BY <1>1, <1>5, <3>2 DEF IsA
      <4> QED
        BY <4>1 DEF Standing, Makes, Creates, SetsUp
    <3> QED
      BY <1>1, <3>1, <3>2
  <2>2. Holding(t)'
    BY <1>1, <1>5 DEF Holding, Makes, Creates, SetsUp
  <2>3. Carrying(t)'
    BY <1>1, <1>3, <1>5, <1>6 DEF Carrying, Awaiting, Makes, Creates, SetsUp
  <2>4. Showing(t)'
    BY <1>3, <1>5, <1>6 DEF Showing
  <2> QED
    BY <2>1, <2>2, <2>3, <2>4 DEF Each
<1> QED
  BY <1>7, <1>9, <1>10, <1>11, <1>12, <1>13, <1>14, <1>15, <1>16, <1>17, <1>18, <1>19, Assembled

\* A request that finds its vault locked reads the password, and no more.
LEMMA ReopenSafe == ASSUME TInv, TInv', Safe, NEW t \in Tasks, Reopen(t) PROVE Safe'
<1>1. /\ Going(t) /\ IsA(t, "use") /\ Pos(t) = 4
      /\ ~IsA(t, "setup") /\ ~IsA(t, "lock") /\ ~IsA(t, "create") /\ ~Creator(t)
  BY Where DEF Reopen, IsA, Creator
<1>2. LookUp /\ UNCHANGED <<disk, master, pending, sessions, history>>
  BY DEF Reopen
<1>3. /\ Gentle /\ Current \in Objects
      /\ UNCHANGED <<disk, master, pending, sessions, seen, audited, file, bundle, pointer, session>>
  BY <1>2, LookUpGentle DEF history, disk, sessions
<1>4. CASE Done(t)
  BY <1>1, <1>3, <1>4, EndedSafe
<1>5. CASE ~Done(t)
  <2> DEFINE l == [loc[t] EXCEPT !.v = Current, !.pw = master]
  <2>1. Proceed(t, l)
    BY <1>5 DEF Reopen
  <2>2. l \in Locals /\ l.kind = loc[t].kind /\ l.name = loc[t].name
    <3>1. loc[t] \in Locals /\ master \in Keyed /\ Current \in Objects
      BY <1>3 DEF TInv, Types, SharedTypes
    <3> QED
      BY <3>1 DEF Locals
  <2> HIDE DEF l
  <2>3. /\ Elsewhere(t) /\ Pos(t)' = 5 /\ loc[t].name \in Names /\ loc'[t].name = loc[t].name
        /\ \A k : IsA(t, k)' <=> IsA(t, k)
    BY <1>1, <2>1, <2>2, Moved
  <2>4. /\ Each(t)'
        /\ \A i, j : ~Creates(t, i, j)' /\ ~SetsUp(t, i, j)' /\ ~Makes(t, i, j)'
        /\ ~Adopting(t)' /\ ~Awaiting(t)' /\ ~Forgetting(t)'
    BY <1>1, <2>3, BystanderEach DEF Forgetting
  <2>5. /\ \A i, j : ~Creates(t, i, j) /\ ~SetsUp(t, i, j) /\ ~Makes(t, i, j)
        /\ ~Adopting(t) /\ ~Awaiting(t) /\ loc[t].recovery = None
    BY <1>1, BystanderIs
  <2>6. Alone'
    BY <2>3, <2>4, AloneStays
  <2>7. Shut'
    BY <1>3, <2>3, <2>4, <2>5, GentleKeeps, ShutStays
  <2> QED
    BY <1>3, <2>3, <2>4, <2>5, <2>6, <2>7, QuietSafe
<1> QED
  BY <1>4, <1>5

\* A vault is opened with the one password, and no lock is about to forget it.
LEMMA DecryptSafe ==
    ASSUME TInv, TInv', Safe, Reopened, NEW t \in Tasks, Decrypt(t), ~crossed'
    PROVE  Safe'
<1>1. /\ Going(t) /\ IsA(t, "use") /\ Pos(t) = 5 /\ Reopens(t)
      /\ ~IsA(t, "setup") /\ ~IsA(t, "lock") /\ ~IsA(t, "create") /\ ~Creator(t)
  BY Where DEF Decrypt, Reopens, IsA, Creator
<1>2. /\ Cross(t, Locking)
      /\ UNCHANGED <<disk, vault, master, pending, sessions, seen, audited>>
      /\ UNCHANGED <<file, bundle, pointer, vault, master, pending, session, signed, seen, audited>>
  BY DEF Decrypt, disk, sessions
<1>3. \A u \in Tasks : ~Forgetting(u)
  <2>1. \A u \in Tasks \ {t} : ~Forgetting(u)
    BY <1>2, BetweenIs DEF Cross, Locking, Forgetting
  <2> QED
    BY <1>1, <2>1 DEF Forgetting
<1>4. CASE Done(t) /\ UNCHANGED object
  BY <1>1, <1>2, <1>4, NoLookGentle, EndedSafe
<1>5. CASE Proceed(t, loc[t])
  <2>1. /\ Elsewhere(t) /\ Pos(t)' = 6 /\ loc[t].name \in Names /\ loc'[t].name = loc[t].name
        /\ \A k : IsA(t, k)' <=> IsA(t, k)
    BY <1>1, <1>5, MovedOn
  <2>2. /\ Each(t)'
        /\ \A i, j : ~Creates(t, i, j)' /\ ~SetsUp(t, i, j)' /\ ~Makes(t, i, j)'
        /\ ~Adopting(t)' /\ ~Awaiting(t)' /\ ~Forgetting(t)'
    BY <1>1, <2>1, BystanderEach DEF Forgetting
  <2>3. /\ \A i, j : ~Creates(t, i, j) /\ ~SetsUp(t, i, j) /\ ~Makes(t, i, j)
        /\ ~Adopting(t) /\ ~Awaiting(t) /\ loc[t].recovery = None
    BY <1>1, BystanderIs
  <2>4. Alone'
    BY <2>1, <2>2, AloneStays
  <2>5. CASE UNCHANGED object
    <3>1. Gentle
      BY <1>2, <2>5, NoLookGentle
    <3>2. Shut'
      BY <1>2, <2>1, <2>2, <2>3, <3>1, GentleKeeps, ShutStays
    <3> QED
      BY <1>2, <2>1, <2>2, <2>3, <2>4, <3>1, <3>2, QuietSafe
  <2>6. CASE ~UNCHANGED object
    <3> DEFINE c == loc[t].v
               d == file[object[c].name]
    <3>1. /\ c \in Objects /\ c \in InUse /\ Mine(t) = object[c] /\ object[c].name \in Names
          /\ object \in [Objects -> [name : Names, data : Data \cup {None}]]
          /\ file \in [Names -> Data \cup {None}] /\ None \notin Objects
          /\ vault \in Objects \cup {None}
      BY <1>1, ReopenedIs, KeyHandoverAssumption DEF TInv, Types, SharedTypes, Objects
    <3>2. /\ object[c].data = None /\ d # None /\ d.pw = loc[t].pw
          /\ object' = [object EXCEPT ![c].data = d]
      BY <2>6, <3>1 DEF Decrypt, Change
    <3>3. d \in Data /\ master # None
      BY <1>1, <3>1, <3>2 DEF Reopened
    <3> HIDE DEF d
    <3>4. /\ object'[c].data = d /\ \A o \in Objects : o # c => object'[o] = object[o]
          /\ \A o \in Objects : object'[o].name = object[o].name
      BY <3>1, <3>2
    <3>5. c = vault => \A u \in Tasks : ~Creates(u, 6, 16) /\ ~Creates(u, 1, 2) /\ ~Adopting(u)
      <4> SUFFICES ASSUME c = vault, NEW u \in Tasks
                   PROVE  ~Creates(u, 6, 16) /\ ~Creates(u, 1, 2) /\ ~Adopting(u)
        OBVIOUS
      <4>1. Locked
        BY <3>2 DEF Locked
      <4>2. ~Creates(u, 6, 16) /\ ~Creates(u, 1, 2)
        BY <4>1, HoldersCached DEF Safe, Shut
      <4> QED
        BY <4>2, Ranges DEF Adopting
    <3>6. Founded'
      BY <1>2, FoundedStays
    <3>7. Shut'
      <4>1. ASSUME NEW x \in Tasks PROVE ~Forgetting(x)'
        BY <1>3, <2>1, <2>2, OthersStay
      <4>2. ASSUME NEW x \in Tasks, Creates(x, 1, 2)' PROVE Cached' /\ ~Locked'
        <5>1. Creates(x, 1, 2) /\ Cached /\ ~Locked
          BY <2>1, <2>2, <4>2, OthersStay DEF Safe, Shut
        <5>2. c # vault /\ vault \in Objects
          BY <3>1, <3>5, <5>1 DEF Locked
        <5>3. object'[vault] = object[vault]
          BY <3>4, <5>2
        <5> QED
          BY <1>2, <5>1, <5>3 DEF Cached, Locked
      <4> QED
        BY <1>2, <3>3, <4>1, <4>2 DEF Shut
    <3>8. Kept'
      <4> SUFFICES ASSUME NEW o \in Objects, object'[o].data # None
                   PROVE  \/ file'[object'[o].name] # None
                          \/ \E u \in Tasks : Makes(u, 6, 7)' /\ loc'[u].v = o
        BY DEF Kept
      <4>1. CASE o = c
        BY <1>2, <3>2, <3>4, <4>1 DEF d
      <4>2. CASE o # c
        <5>1. object'[o] = object[o]
          BY <3>4, <4>2
        <5>2. file[object[o].name] # None \/ \E u \in Tasks : Makes(u, 6, 7) /\ loc[u].v = o
          BY <5>1 DEF Safe, Kept
        <5> QED
          BY <1>2, <2>1, <2>3, <5>1, <5>2, OthersStay
      <4> QED
        BY <4>1, <4>2
    <3>9. Recorded'
      BY <1>2, <2>1, <2>2, <2>3, RecordedStays
    <3>10. \E a, p \in Keys : OneKey(a, p)'
      <4>1. PICK a \in Keys, p \in Keys : OneKey(a, p)
        BY DEF Safe
      <4>2. d.pw = p /\ (c = vault => d.agent = a)
        BY <3>1, <3>2, <3>5, <4>1 DEF OneKey, d
      <4>3. \A o \in Objects : object'[o].data # None =>
              \/ object'[o].data.pw = p /\ object'[o].data.agent = a
              \/ object'[o].data.pw = p /\ o # vault'
              \/ object'[o].data = object[o].data /\ ~(Adopting(t) /\ loc[t].v = o)
        BY <1>2, <2>3, <3>4, <4>2
      <4>4. OneKey(a, p)'
        BY <1>2, <2>1, <2>2, <2>3, <4>1, <4>3, OneKeyMoves
      <4> QED
        BY <4>4
    <3>11. \A n \in Names : Reaches(n)'
      BY <1>2, <2>1, <2>3, ReachesStays
    <3>12. \A u \in Tasks \ {t} : Standing(u)'
      <4>1. \A u \in Tasks \ {t} : Makes(u, 6, 7) => file'[loc[u].name] = None
        BY <1>2 DEF Safe, Each, Standing
      <4> QED
        BY <1>2, <2>1, <4>1, StandingOthers
    <3>13. \A u \in Tasks \ {t} : Holding(u)'
      <4>1. ASSUME NEW u \in Tasks,
                   Creates(u, 6, 16) \/ Creates(u, 15, 16) \/ SetsUp(u, 6, 10) \/ SetsUp(u, 6, 7)
            PROVE  object'[loc[u].v] = object[loc[u].v] /\ object[loc[u].v].data # None
        <5>1. Makes(u, 5, 20) /\ (Creates(u, 6, 16) \/ SetsUp(u, 6, 10))
          BY <4>1, Ranges
        <5>2. loc[u].v \in Objects /\ object[loc[u].v].data # None
          BY <5>1, HoldersCached DEF Safe, Each, Holding
        <5> QED
          BY <3>2, <3>4, <5>2
      <4> QED
        BY <1>2, <2>1, <3>4, <4>1, HoldingOthers
    <3>14. \A u \in Tasks \ {t} : Carrying(u)'
      BY <1>2, <2>1, CarryingOthers
    <3>15. \A u \in Tasks \ {t} : Showing(u)'
      BY <1>2, <2>1, ShowingOthers
    <3> QED
      BY <2>2, <2>4, <3>6, <3>7, <3>8, <3>9, <3>10, <3>11, <3>12, <3>13, <3>14, <3>15, Assembled
  <2> QED
    BY <2>5, <2>6
<1> QED
  BY <1>4, <1>5 DEF Decrypt

\* The password that is written back is the one in memory.
LEMMA RestoreSafe ==
    ASSUME TInv, TInv', Safe, Reopened, NEW t \in Tasks, Restore(t)
    PROVE  Safe'
<1>1. /\ Going(t) /\ IsA(t, "use") /\ Pos(t) = 6 /\ Reopens(t)
      /\ ~IsA(t, "setup") /\ ~IsA(t, "lock") /\ ~IsA(t, "create")
  BY Where DEF Restore, Reopens, IsA
<1>2. /\ master' = master /\ Proceed(t, loc[t])
      /\ UNCHANGED <<disk, vault, object, pending, sessions, history>>
  BY <1>1 DEF Restore, Reopened
<1>3. /\ Gentle
      /\ UNCHANGED <<disk, master, pending, sessions, seen, audited, file, bundle, pointer, session>>
  BY <1>2, NoLookGentle DEF history, disk, sessions
<1>4. /\ Elsewhere(t) /\ Pos(t)' = 7 /\ loc[t].name \in Names /\ loc'[t].name = loc[t].name
      /\ \A k : IsA(t, k)' <=> IsA(t, k)
  BY <1>1, <1>2, MovedOn
<1>5. /\ Each(t)'
      /\ \A i, j : ~Creates(t, i, j)' /\ ~SetsUp(t, i, j)' /\ ~Makes(t, i, j)'
      /\ ~Adopting(t)' /\ ~Awaiting(t)' /\ ~Forgetting(t)'
  BY <1>1, <1>4, BystanderEach DEF Forgetting
<1>6. /\ \A i, j : ~Creates(t, i, j) /\ ~SetsUp(t, i, j) /\ ~Makes(t, i, j)
      /\ ~Adopting(t) /\ ~Awaiting(t) /\ loc[t].recovery = None
  BY <1>1, BystanderIs
<1>7. Alone'
  BY <1>4, <1>5, AloneStays
<1>8. Shut'
  BY <1>3, <1>4, <1>5, <1>6, GentleKeeps, ShutStays
<1> QED
  BY <1>3, <1>4, <1>5, <1>6, <1>7, <1>8, QuietSafe

----------------------------------------------------------------------------
(* create_vault()                                                          *)

\* Recorded stays, if every new file is the one its request is creating.
LEMMA RecordedGrows ==
    ASSUME TInv, Safe, NEW t \in Tasks, Elsewhere(t), UNCHANGED audited,
           \A n \in Names : bundle[n] # None => bundle'[n] # None,
           \A n \in Names : bundle[n] # None => file'[n].form \in {file[n].form, n},
           \A n \in Names : file'[n] # None =>
             file[n] # None \/ (loc'[t].name = n /\ Makes(t, 7, 17)'),
           Makes(t, 7, 17) => Makes(t, 7, 17)' /\ loc'[t].name = loc[t].name,
           Creates(t, 16, 17)' => file'[loc'[t].name].form = loc'[t].name
    PROVE  Recorded'
<1>1. audited \subseteq Names
  BY DEF TInv, Types, SharedTypes
<1>2. ASSUME NEW n \in Names, file'[n] # None, n \notin audited'
      PROVE  \E u \in Tasks : loc'[u].name = n /\ Makes(u, 7, 17)'
  <2>1. CASE file[n] # None
    <3>1. PICK u \in Tasks : loc[u].name = n /\ Makes(u, 7, 17)
      BY <1>2, <2>1 DEF Safe, Recorded
    <3>2. loc'[u].name = n /\ Makes(u, 7, 17)'
      BY <3>1, OthersStay
    <3> QED
      BY <3>2
  <2> QED
    BY <1>2, <2>1
<1>3. ASSUME NEW u \in Tasks, Creates(u, 16, 17)' PROVE file'[loc'[u].name].form = loc'[u].name
  <2>1. CASE u # t
    <3>1. Creates(u, 16, 17) /\ loc'[u] = loc[u]
      BY <1>3, <2>1, OthersStay
    <3>2. Makes(u, 11, 20) /\ loc[u].name \in Names /\ u # None
      BY <3>1, Ranges, KeyHandoverAssumption
    <3>3. bundle[loc[u].name] = u /\ file[loc[u].name].form = loc[u].name
      BY <3>1, <3>2 DEF Safe, Each, Standing, Recorded
    <3> QED
      BY <3>1, <3>2, <3>3
  <2> QED
    BY <1>3, <2>1
<1>4. ASSUME NEW n \in audited'
      PROVE  bundle'[n] # None /\ (n # Default => file'[n].form = n)
  BY <1>1 DEF Safe, Recorded
<1> QED
  BY <1>2, <1>3, <1>4 DEF Recorded

\* Two requests that are about to save a first time do not name the same definition.
LEMMA Apart ==
    ASSUME TInv, Safe, NEW t \in Tasks, NEW u \in Tasks \ {t}, Makes(t, 6, 11), Makes(u, 6, 11)
    PROVE  loc[u].name # loc[t].name
<1>1. /\ Makes(t, 6, 11) => Creates(t, 6, 11) \/ SetsUp(t, 6, 11)
      /\ Makes(u, 6, 11) => Creates(u, 6, 11) \/ SetsUp(u, 6, 11)
  BY DEF Makes
<1>2. ASSUME NEW x \in Tasks
      PROVE  /\ Creates(x, 6, 11) => Creates(x, 3, 16) /\ Creates(x, 1, 20)
             /\ SetsUp(x, 6, 11) => SetsUp(x, 6, 12) /\ loc[x].name = Default
  BY Ranges
<1>3. ASSUME NEW x \in Tasks, Creates(x, 1, 20) PROVE loc[x].name # Default
  BY <1>3 DEF Safe, Each, Standing
<1> QED
  BY <1>1, <1>2, <1>3 DEF Safe, Alone

\* The object and the definition of a creation have no first run working on them.
LEMMA SetupApart ==
    ASSUME TInv, Safe, NEW t \in Tasks, Creates(t, 5, 16), NEW u \in Tasks, SetsUp(u, 5, 12)
    PROVE  loc[u].v # loc[t].v /\ loc[t].name # Default
<1>1. Creates(t, 1, 20) /\ Makes(u, 5, 12) /\ loc[u].name = Default
  BY Ranges
<1> QED
  BY <1>1 DEF Safe, Each, Standing, Holding

\* The object it fills is of no other creation, and no lock is under way.
LEMMA MintSafe ==
    ASSUME TInv, TInv', Safe, NEW t \in Tasks, Mint(t), ~crossed'
    PROVE  Safe'
<1>1. Going(t) /\ Creator(t) /\ Pos(t) = 6
  BY Where DEF Mint
<1>2. UNCHANGED <<disk, vault, master, pending, sessions, seen, audited>>
  BY DEF Mint
<1>3. UNCHANGED <<file, bundle, pointer, vault, master, pending, session, signed, seen, audited>>
  BY <1>2 DEF disk, sessions
<1>4. CASE Done(t) /\ UNCHANGED object
  BY <1>1, <1>2, <1>4, NoLookGentle, EndedSafe
<1>5. CASE ~(Done(t) /\ UNCHANGED object)
  <2> DEFINE v == loc[t].v
             n == loc[t].name
             D == [pw |-> loc[t].pw, agent |-> t, form |-> None]
             l == [loc[t] EXCEPT !.agent = t]
  <2>1. /\ file[object[v].name] = None /\ object' = [object EXCEPT ![v].data = D]
        /\ Proceed(t, l)
        /\ Cross(t, LAMBDA u : \/ Locking(u)
                               \/ Between(u, "get", "pend") /\ Mine(u).name = Mine(t).name)
    BY <1>5 DEF Mint, Change, Mine
  <2>2. /\ loc[t] \in Locals /\ Ready(t) /\ v \in Objects /\ D \in Data /\ D # None
        /\ object \in [Objects -> [name : Names, data : Data \cup {None}]]
        /\ vault \in Objects \cup {None} /\ None \notin Objects
    <3>1. loc[t] \in Locals /\ Ready(t) /\ loc[t].pw \in Keys
      BY <1>1 DEF TInv, Types, Ready
    <3>2. Makes(t, 5, 20)
      BY <1>1 DEF Makes, Creates, SetsUp, Creator
    <3>3. D \in Data
      BY <3>1 DEF Data, Keys
    <3> QED
      BY <3>1, <3>2, <3>3, KeyHandoverAssumption DEF Ready, TInv, Types, SharedTypes, Objects
  <2>3. /\ l \in Locals /\ l.kind = loc[t].kind /\ l.name = n /\ l.pw = loc[t].pw
        /\ l.shared = loc[t].shared /\ l.recovery = loc[t].recovery /\ l.v = v /\ l.agent = t
    BY <2>2 DEF Locals, Keyed, Keys
  <2>4. /\ object'[v].name = object[v].name /\ object'[v].data = D
        /\ \A o \in Objects : o # v => object'[o] = object[o]
        /\ \A o \in Objects : object'[o].name = object[o].name
        /\ D.pw = loc[t].pw /\ D.agent = t
    BY <2>1, <2>2
  <2> HIDE DEF l, D
  <2>5. /\ Elsewhere(t) /\ Pos(t)' = 7 /\ n \in Names /\ loc'[t] = l
        /\ \A k : IsA(t, k)' <=> IsA(t, k)
        /\ Going(t)'
    BY <1>1, <2>1, <2>3, Moved DEF Creator
  <2>6. /\ IsA(t, "create") \/ IsA(t, "setup")
        /\ ~IsA(t, "use")' /\ ~IsA(t, "lock")' /\ ~Forgetting(t)' /\ ~Forgetting(t)
        /\ ~(IsA(t, "create") /\ IsA(t, "setup"))
    BY <1>1, <2>5 DEF Creator, IsA, Forgetting
  <2>7. Standing(t) /\ Holding(t) /\ Carrying(t)
    BY DEF Safe, Each
  <2>8. object[v].name = n /\ file[n] = None /\ bundle[n] = None
    <3>1. Makes(t, 5, 12)
      BY <1>1, <2>6 DEF Makes, Creates, SetsUp
    <3>2. object[v].name = n
      BY <2>7, <3>1 DEF Holding
    <3> QED
      BY <2>1, <2>5, <3>2 DEF Safe, Founded
  <2>9. ASSUME NEW u \in Tasks \ {t}
        PROVE  ~Forgetting(u) /\ (Makes(u, 5, 12) => loc[u].name # n)
    <3>1. ~Locking(u) /\ ~(Between(u, "get", "pend") /\ Mine(u).name = Mine(t).name)
      BY <2>1 DEF Cross
    <3>2. ~Forgetting(u) /\ ~(Makes(u, 5, 12) /\ Mine(u).name = Mine(t).name)
      BY <3>1, BetweenIs DEF Locking, Forgetting
    <3> QED
      BY <2>8, <3>2 DEF Mine, Safe, Each, Holding
  <2>10. ASSUME NEW u \in Tasks \ {t}, Creates(u, 15, 16) \/ SetsUp(u, 6, 7)
         PROVE  loc[u].v # v
    <3>1. CASE SetsUp(u, 6, 7)
      <4>1. Makes(u, 5, 12)
        BY <3>1, Ranges
      <4> QED
        BY <2>8, <2>9, <4>1 DEF Safe, Each, Holding
    <3>2. CASE Creates(u, 15, 16)
      <4>1. Creates(u, 5, 16) /\ Makes(u, 7, 20)
        BY <3>2, Ranges
      <4> QED
        BY <2>8, <4>1 DEF Safe, Each, Holding, Standing
    <3> QED
      BY <2>10, <3>1, <3>2
  <2>11. Standing(t)'
    <3>1. IsA(t, "create") => Creates(t, 1, 20) /\ Creates(t, 3, 16)
      BY <1>1 DEF Creates
    <3> QED
      BY <1>3, <2>3, <2>5, <2>6, <2>7, <2>8, <3>1 DEF Standing, Makes, Creates, SetsUp
  <2>12. Holding(t)'
    <3>1. IsA(t, "create") => Creates(t, 5, 16)
      BY <1>1 DEF Creates
    <3> QED
      BY <1>3, <2>2, <2>3, <2>4, <2>5, <2>6, <2>7, <2>8, <3>1
      DEF Holding, Makes, Creates, SetsUp
  <2>13. loc[t].recovery = None /\ session[t] = None
    <3>1. Makes(t, 0, 11) /\ (SetsUp(t, 0, 13) \/ Creates(t, 0, 18))
      BY <1>1, <2>6 DEF Makes, Creates, SetsUp
    <3> QED
      BY <2>7, <3>1 DEF Carrying
  <2>14. Carrying(t)'
    BY <1>3, <2>3, <2>5, <2>6, <2>13 DEF Carrying, Awaiting, Makes, Creates, SetsUp
  <2>15. Showing(t)'
    BY <1>3, <2>13 DEF Showing
  <2>16. /\ ~Makes(t, 6, 7) /\ ~Makes(t, 7, 17) /\ ~Adopting(t) /\ ~Awaiting(t)
         /\ ~Creates(t, 16, 17)' /\ ~Creates(t, 1, 2)'
         /\ Creates(t, 3, 16)' => Creates(t, 3, 16)
         /\ Creates(t, 1, 16)' => Creates(t, 1, 16)
         /\ Creates(t, 2, 20)' => Creates(t, 2, 20)
         /\ Makes(t, 6, 7)'
         /\ IsA(t, "setup") => SetsUp(t, 6, 10)'
         /\ IsA(t, "create") => Creates(t, 1, 16) /\ Adopting(t)' /\ ~SetsUp(t, 6, 7)'
    BY <1>1, <2>5, <2>6 DEF Creates, SetsUp, Makes, Adopting, Awaiting
  <2>17. Founded'
    BY <1>3, FoundedStays
  <2>18. Alone'
    <3>1. SetsUp(t, 6, 12)' => \A u \in Tasks \ {t} : ~SetsUp(u, 6, 12)
      <4> SUFFICES ASSUME SetsUp(t, 6, 12)', NEW u \in Tasks \ {t}, SetsUp(u, 6, 12) PROVE FALSE
        OBVIOUS
      <4>1. IsA(t, "setup")
        BY <2>5 DEF SetsUp
      <4>2. Makes(u, 5, 12) /\ loc[u].name = Default
        BY Ranges
      <4> QED
        BY <2>2, <2>9, <4>1, <4>2 DEF Ready
    <3> QED
      BY <2>5, <2>16, <3>1, AloneStays
  <2>19. Shut'
    <3>1. ASSUME NEW x \in Tasks PROVE ~Forgetting(x)'
      BY <2>5, <2>6, <2>9, OthersStay
    <3>2. ASSUME NEW x \in Tasks, Creates(x, 1, 16)' PROVE master' # None
      BY <1>3, <2>5, <2>16, <3>2, OthersStay DEF Safe, Shut
    <3>3. ASSUME NEW x \in Tasks, Creates(x, 1, 2)' PROVE Cached' /\ ~Locked'
      <4>1. Cached /\ ~Locked
        BY <2>5, <2>16, <3>3, OthersStay DEF Safe, Shut
      <4> QED
        BY <1>3, <2>2, <2>4, <4>1 DEF Cached, Locked
    <3>4. master' = None => \E x \in Tasks : SetsUp(x, 6, 10)'
      BY <1>3, <2>6, <2>16 DEF Safe, Shut
    <3> QED
      BY <3>1, <3>2, <3>3, <3>4 DEF Shut
  <2>20. Kept'
    <3> SUFFICES ASSUME NEW o \in Objects, object'[o].data # None
                 PROVE  \/ file'[object'[o].name] # None
                        \/ \E u \in Tasks : Makes(u, 6, 7)' /\ loc'[u].v = o
      BY DEF Kept
    <3>1. CASE o = v
      BY <2>3, <2>5, <2>16, <3>1
    <3>2. CASE o # v
      <4>1. object'[o] = object[o]
        BY <2>4, <3>2
      <4>2. file[object[o].name] # None \/ \E u \in Tasks : Makes(u, 6, 7) /\ loc[u].v = o
        BY <4>1 DEF Safe, Kept
      <4> QED
        BY <1>3, <2>5, <2>16, <4>1, <4>2, OthersStay
    <3> QED
      BY <3>1, <3>2
  <2>21. Recorded'
    BY <1>3, <2>5, <2>16, RecordedStays
  <2>22. \E a, p \in Keys : OneKey(a, p)'
    <3>1. CASE IsA(t, "create")
      <4>1. PICK a \in Keys, p \in Keys : OneKey(a, p)
        BY DEF Safe
      <4>2. D.pw = p
        BY <2>4, <2>16, <3>1, <4>1 DEF OneKey
      <4>3. /\ Creates(t, 2, 20)' => loc'[t].shared = a
            /\ Creates(t, 1, 16)' \/ SetsUp(t, 6, 10)' => loc'[t].pw = p
        BY <2>3, <2>4, <2>5, <2>16, <4>1, <4>2 DEF OneKey
      <4>4. \A o \in Objects : object'[o].data # None =>
             \/ object'[o].data.pw = p /\ Adopting(t)' /\ loc'[t].v = o
             \/ object'[o].data = object[o].data /\ ~(Adopting(t) /\ loc[t].v = o)
        BY <2>3, <2>4, <2>5, <2>16, <3>1, <4>2
      <4>5. OneKey(a, p)'
        BY <1>3, <2>5, <2>16, <3>1, <4>1, <4>3, <4>4, OneKeyMoves
      <4> QED
        BY <4>5
    <3>2. CASE IsA(t, "setup")
      <4>1. n = Default /\ loc[t].pw = t
        BY <2>2, <3>2 DEF Ready
      <4>2. (\A m \in Names : file[m] = None) /\ master = None
        BY <2>8, <4>1 DEF Safe, Founded
      <4>3. ASSUME NEW u \in Tasks, NEW i \in 1..20 PROVE ~Creates(u, i, 20)
        <5>1. bundle[Default] = None
          BY <2>8, <4>1
        <5>2. ~Creates(u, 1, 20)
          BY <5>1 DEF Safe, Each, Standing
        <5> QED
          BY <5>2, Ranges
      <4>4. ASSUME NEW u \in Tasks \ {t} PROVE ~SetsUp(u, 5, 12)
        <5>1. SetsUp(u, 5, 12) => Makes(u, 5, 12) /\ loc[u].name = Default
          BY Ranges
        <5> QED
          BY <2>9, <4>1, <5>1
      <4>5. ASSUME NEW o \in Objects PROVE object[o].data = None
        <5>1. ASSUME NEW u \in Tasks PROVE ~Makes(u, 6, 7)
          <6>1. ~Creates(u, 6, 20) /\ (u # t => ~SetsUp(u, 5, 12))
            BY <4>3, <4>4
          <6>2. ~Creates(u, 6, 7) /\ (u # t => ~SetsUp(u, 6, 7))
            BY <6>1, Ranges
          <6> QED
            BY <2>16, <6>2 DEF Makes
        <5>2. object[o].name \in Names
          BY <2>2
        <5> QED
          BY <4>2, <5>1, <5>2 DEF Safe, Kept
      <4>6. ASSUME NEW o \in Objects, object'[o].data # None
            PROVE  object'[o].data.pw = t /\ object'[o].data.agent = t
        BY <2>4, <4>1, <4>5, <4>6
      <4>7. ASSUME NEW u \in Tasks
            PROVE  /\ ~Creates(u, 2, 20)' /\ ~Creates(u, 1, 16)'
                   /\ SetsUp(u, 6, 10)' => loc'[u].pw = t
                   /\ SetsUp(u, 6, 7)' => t = u
        <5>1. CASE u = t
          <6>1. ~IsA(t, "create")'
            BY <2>5, <2>6, <3>2
          <6> QED
            BY <2>3, <2>5, <4>1, <5>1, <6>1 DEF Creates
        <5>2. CASE u # t
          <6>1. ~Creates(u, 2, 20) /\ ~Creates(u, 1, 20) /\ ~SetsUp(u, 5, 12)
            BY <4>3, <4>4, <5>2
          <6>2. ~Creates(u, 1, 16) /\ ~SetsUp(u, 6, 10) /\ ~SetsUp(u, 6, 7)
            BY <6>1, Ranges
          <6> QED
            BY <2>5, <5>2, <6>1, <6>2, OthersStay
        <5> QED
          BY <5>1, <5>2
      <4>8. OneKey(t, t)'
        BY <1>3, <4>2, <4>6, <4>7 DEF OneKey
      <4>9. t \in Keys
        BY DEF Keys
      <4> QED
        BY <4>8, <4>9
    <3> QED
      BY <2>6, <3>1, <3>2
  <2>23. \A m \in Names : Reaches(m)'
    BY <1>3, <2>5, <2>13, <2>16, ReachesStays
  <2>24. \A u \in Tasks \ {t} : Standing(u)'
    <3>1. \A u \in Tasks \ {t} : Makes(u, 6, 7) => file'[loc[u].name] = None
      BY <1>3 DEF Safe, Each, Standing
    <3> QED
      BY <1>3, <2>5, <3>1, StandingOthers
  <2>25. \A u \in Tasks \ {t} : Holding(u)'
    <3>1. ASSUME NEW u \in Tasks \ {t}, Creates(u, 6, 16) \/ SetsUp(u, 6, 10)
          PROVE  object'[loc[u].v].data # None
      <4>1. Makes(u, 5, 20)
        BY <3>1, Ranges
      <4>2. loc[u].v \in Objects /\ object[loc[u].v].data # None
        BY <3>1, <4>1, HoldersCached DEF Safe, Each, Holding
      <4> QED
        BY <2>2, <2>4, <4>2
    <3>2. ASSUME NEW u \in Tasks \ {t}, Creates(u, 15, 16) \/ SetsUp(u, 6, 7)
          PROVE  object'[loc[u].v].data = object[loc[u].v].data
      <4>1. Makes(u, 5, 20)
        BY <3>2, Ranges
      <4> QED
        BY <2>4, <2>10, <3>2, <4>1, HoldersCached
    <3> QED
      BY <1>3, <2>4, <2>5, <3>1, <3>2, HoldingOthers
  <2>26. \A u \in Tasks \ {t} : Carrying(u)'
    BY <1>3, <2>5, CarryingOthers
  <2>27. \A u \in Tasks \ {t} : Showing(u)'
    BY <1>3, <2>5, ShowingOthers
  <2>28. Each(t)'
    BY <2>11, <2>12, <2>14, <2>15 DEF Each
  <2> QED
    BY <2>17, <2>18, <2>19, <2>20, <2>21, <2>22, <2>23, <2>24, <2>25, <2>26, <2>27, <2>28,
       Assembled
<1> QED
  BY <1>4, <1>5

\* The file it writes is the one of its own definition, with the password there is.
LEMMA SaveSafe ==
    ASSUME TInv, TInv', Safe, NEW t \in Tasks, Save(t)
    PROVE  Safe'
<1>1. Going(t) /\ Creator(t) /\ Pos(t) = 7
  BY Where DEF Save
<1> DEFINE v == loc[t].v
           n == loc[t].name
           d == object[v].data
<1>2. /\ IsA(t, "create") \/ IsA(t, "setup")
      /\ ~(IsA(t, "create") /\ IsA(t, "setup"))
  BY <1>1 DEF Creator, IsA
<1>3. /\ Standing(t) /\ Holding(t) /\ Carrying(t)
      /\ Makes(t, 5, 12) /\ Makes(t, 6, 7) /\ Makes(t, 6, 11) /\ Makes(t, 5, 20)
      /\ Makes(t, 0, 11) /\ (SetsUp(t, 0, 13) \/ Creates(t, 0, 18))
      /\ Creates(t, 6, 16) \/ SetsUp(t, 6, 10)
      /\ IsA(t, "create") => Creates(t, 1, 20) /\ Creates(t, 1, 16) /\ Creates(t, 3, 16) /\ Creates(t, 5, 16)
      /\ IsA(t, "setup") => SetsUp(t, 6, 7) /\ SetsUp(t, 6, 12) /\ SetsUp(t, 6, 10)
  BY <1>1, <1>2 DEF Makes, Creates, SetsUp, Safe, Each
<1>4. /\ v \in Objects /\ object[v].name = n /\ d # None /\ d \in Data
      /\ object \in [Objects -> [name : Names, data : Data \cup {None}]]
      /\ file \in [Names -> Data \cup {None}]
  <2>1. v \in Objects /\ object[v].name = n /\ d # None
    BY <1>3 DEF Holding, TInv, Ready
  <2> QED
    BY <2>1 DEF TInv, Types, SharedTypes
<1>5. /\ file[n] = None /\ bundle[n] = None
      /\ IsA(t, "create") => n # Default /\ bundle[Default] # None
      /\ IsA(t, "setup") => n = Default /\ loc[t].agent = t /\ d.agent = t
  BY <1>3 DEF Standing, Holding, TInv, Ready
<1>6. \A a, p \in Keys : OneKey(a, p) => d.pw = p /\ loc[t].pw = p
  BY <1>2, <1>3, <1>4 DEF OneKey
<1>7. /\ Proceed(t, loc[t]) /\ file' = [file EXCEPT ![n] = d] /\ UNCHANGED object
      /\ UNCHANGED <<bundle, pointer, vault, master, pending, sessions, history>>
  <2>1. PICK p \in Keys : d.pw = p /\ loc[t].pw = p
    BY <1>6 DEF Safe
  <2>2. [d EXCEPT !.pw = loc[t].pw] = d
    BY <1>4, <2>1 DEF Data
  <2>3. Write(t, d) /\ Proceed(t, loc[t])
    BY <1>4, <2>2 DEF Save, Mine
  <2>4. object' = [object EXCEPT ![v].data = object[v].data]
    BY <2>3 DEF Write, Change
  <2>5. object' = object
    BY <1>4, <2>4
  <2> QED
    BY <1>4, <2>3, <2>5 DEF Save, Write, Mine
<1>8. /\ UNCHANGED <<bundle, pointer, vault, object, master, pending, session, signed, seen, audited>>
      /\ n \in Names => file'[n] = d
      /\ \A m \in Names : m # n => file'[m] = file[m]
  BY <1>4, <1>7 DEF sessions, history
<1>9. /\ Elsewhere(t) /\ Pos(t)' = 8 /\ n \in Names /\ loc'[t] = loc[t]
      /\ \A k : IsA(t, k)' <=> IsA(t, k)
      /\ Going(t)' /\ Default \in Names
  BY <1>1, <1>7, MovedOn, KeyHandoverAssumption DEF Creator
<1> HIDE DEF d
<1>10. ~IsA(t, "use")' /\ ~IsA(t, "lock")' /\ ~Forgetting(t)'
  BY <1>2, <1>9 DEF IsA, Forgetting
<1>11. loc[t].recovery = None /\ session[t] = None
  BY <1>3 DEF Carrying
<1>12. Standing(t)'
  BY <1>2, <1>3, <1>4, <1>5, <1>8, <1>9, <1>10 DEF Standing, Makes, Creates, SetsUp
<1>13. Holding(t)'
  BY <1>2, <1>3, <1>4, <1>8, <1>9 DEF Holding, Makes, Creates, SetsUp
<1>14. Carrying(t)'
  BY <1>2, <1>5, <1>8, <1>9, <1>11 DEF Carrying, Awaiting, Makes, Creates, SetsUp
<1>15. Showing(t)'
  BY <1>8, <1>11 DEF Showing
<1>16. /\ ~Makes(t, 7, 17) /\ ~Awaiting(t)
       /\ ~Creates(t, 16, 17)' /\ ~Creates(t, 1, 2)' /\ ~SetsUp(t, 6, 7)'
       /\ Creates(t, 3, 16)' => Creates(t, 3, 16)
       /\ Creates(t, 1, 16)' => Creates(t, 1, 16)
       /\ Creates(t, 2, 20)' => Creates(t, 2, 20)
       /\ SetsUp(t, 6, 12)' => SetsUp(t, 6, 12)
       /\ SetsUp(t, 6, 10)' <=> SetsUp(t, 6, 10)
       /\ Makes(t, 7, 17)'
       /\ IsA(t, "create") => Adopting(t)'
       /\ IsA(t, "setup") => ~Adopting(t)
  BY <1>1, <1>2, <1>9 DEF Creates, SetsUp, Makes, Adopting, Awaiting
<1>17. Founded'
  BY <1>2, <1>4, <1>5, <1>8, <1>9 DEF Safe, Founded
<1>18. Alone'
  BY <1>9, <1>16, AloneStays
<1>19. Shut'
  <2>1. (Locked => Locked') /\ \A u \in Tasks : Creates(u, 1, 2) => Cached' /\ ~Locked'
    BY <1>8 DEF Locked, Cached, Safe, Shut
  <2> QED
    BY <1>8, <1>9, <1>10, <1>16, <2>1, ShutStays
<1>20. Kept'
  <2> SUFFICES ASSUME NEW o \in Objects, object'[o].data # None
               PROVE  \/ file'[object'[o].name] # None
                      \/ \E u \in Tasks : Makes(u, 6, 7)' /\ loc'[u].v = o
    BY DEF Kept
  <2>1. object[o].name \in Names
    BY <1>4
  <2>2. CASE file[object[o].name] # None
    BY <1>4, <1>8, <2>1, <2>2
  <2>3. CASE \E u \in Tasks : Makes(u, 6, 7) /\ loc[u].v = o
    <3>1. PICK u \in Tasks : Makes(u, 6, 7) /\ loc[u].v = o
      BY <2>3
    <3>2. CASE u = t
      BY <1>4, <1>8, <1>9, <3>1, <3>2
    <3>3. CASE u # t
      BY <1>9, <3>1, <3>3, OthersStay
    <3> QED
      BY <3>2, <3>3
  <2>4. object[o].data # None
    BY <1>8
  <2> QED
    BY <2>2, <2>3, <2>4 DEF Safe, Kept
<1>21. Recorded'
  BY <1>5, <1>8, <1>9, <1>16, RecordedGrows
<1>22. \E a, p \in Keys : OneKey(a, p)'
  <2>1. PICK a \in Keys, p \in Keys : OneKey(a, p)
    BY DEF Safe
  <2>2. d.pw = p /\ loc[t].pw = p
    BY <1>6, <2>1
  <2>3. IsA(t, "setup") => d.agent = a
    <3> SUFFICES ASSUME IsA(t, "setup") PROVE d.agent = a
      OBVIOUS
    <3>1. SetsUp(t, 6, 7) /\ d.agent = t
      BY <1>3, <1>5
    <3> QED
      BY <2>1, <3>1 DEF OneKey
  <2>4. /\ Creates(t, 2, 20)' => loc'[t].shared = a
        /\ Creates(t, 1, 16)' \/ SetsUp(t, 6, 10)' => loc'[t].pw = p
    BY <1>9, <1>16, <2>1, <2>2 DEF OneKey
  <2>5. \A m \in Names : file'[m] # None =>
           \/ file'[m].pw = p /\ file'[m].agent = a
           \/ file'[m].pw = p /\ Adopting(t)' /\ loc'[t].name = m
           \/ file'[m] = file[m] /\ ~(Adopting(t) /\ loc[t].name = m)
    BY <1>2, <1>8, <1>9, <1>16, <2>2, <2>3
  <2>6. \A o \in Objects : object'[o].data # None =>
           \/ object'[o].data.pw = p /\ Adopting(t)' /\ loc'[t].v = o
           \/ object'[o].data = object[o].data /\ ~(Adopting(t) /\ loc[t].v = o)
    BY <1>2, <1>8, <1>9, <1>16, <2>1 DEF OneKey
  <2>7. Elsewhere(t) /\ ~SetsUp(t, 6, 7)' /\ master' = master /\ vault' = vault
    BY <1>8, <1>9, <1>16
  <2>8. OneKey(a, p)'
    BY <2>1, <2>4, <2>5, <2>6, <2>7, OneKeyMoves
  <2> QED
    BY <2>8
<1>23. \A m \in Names : Reaches(m)'
  BY <1>8, <1>9, <1>11, <1>16, ReachesStays
<1>24. \A u \in Tasks \ {t} : Standing(u)'
  <2>1. \A u \in Tasks \ {t} : Makes(u, 6, 7) => file'[loc[u].name] = None
    <3> SUFFICES ASSUME NEW u \in Tasks \ {t}, Makes(u, 6, 7) PROVE file'[loc[u].name] = None
      OBVIOUS
    <3>1. Makes(u, 6, 11) /\ loc[u].name \in Names
      BY Ranges
    <3>2. loc[u].name # n
      BY <1>3, <3>1, Apart
    <3> QED
      BY <1>8, <3>1, <3>2 DEF Safe, Each, Standing
  <2>2. \A m \in Names : file[m] # None => file'[m] # None
    BY <1>5, <1>8
  <2> QED
    BY <1>8, <1>9, <2>1, <2>2, StandingOthers
<1>25. \A u \in Tasks \ {t} : Holding(u)'
  <2>1. \A u \in Tasks \ {t} : Creates(u, 6, 16) \/ SetsUp(u, 6, 10) => object'[loc[u].v].data # None
    BY <1>8 DEF Safe, Each, Holding
  <2> QED
    BY <1>8, <1>9, <2>1, HoldingOthers
<1>26. \A u \in Tasks \ {t} : Carrying(u)'
  <2>1. \A u \in Tasks \ {t} : SetsUp(u, 7, 17) => file'[Default].agent = file[Default].agent
    <3> SUFFICES ASSUME NEW u \in Tasks \ {t}, SetsUp(u, 7, 17)
                 PROVE  file'[Default].agent = file[Default].agent
      OBVIOUS
    <3>1. Makes(u, 7, 20) /\ loc[u].name = Default
      BY Ranges
    <3>2. file[Default] # None
      BY <3>1 DEF Safe, Each, Standing
    <3> QED
      BY <1>5, <1>8, <1>9, <3>2
  <2> QED
    BY <1>8, <1>9, <2>1, CarryingOthers
<1>27. \A u \in Tasks \ {t} : Showing(u)'
  BY <1>5, <1>8, <1>9, ShowingOthers
<1>28. Each(t)'
  BY <1>12, <1>13, <1>14, <1>15 DEF Each
<1> QED
  BY <1>17, <1>18, <1>19, <1>20, <1>21, <1>22, <1>23, <1>24, <1>25, <1>26, <1>27, <1>28, Assembled

\* The shared key takes the place of the one that was minted.
LEMMA AdoptSafe ==
    ASSUME TInv, TInv', Safe, NEW t \in Tasks, Adopt(t)
    PROVE  Safe'
<1>1. Going(t) /\ Creator(t) /\ Pos(t) = 8
  BY Where DEF Adopt
<1> DEFINE v == loc[t].v
           n == loc[t].name
<1>2. /\ IsA(t, "create") \/ IsA(t, "setup")
      /\ ~(IsA(t, "create") /\ IsA(t, "setup"))
  BY <1>1 DEF Creator, IsA
<1>3. /\ Standing(t) /\ Holding(t) /\ Carrying(t) /\ Showing(t) /\ Ready(t) /\ Default \in Names
      /\ Makes(t, 5, 12) /\ Makes(t, 7, 20) /\ Makes(t, 6, 11) /\ Makes(t, 5, 20)
      /\ Makes(t, 0, 11) /\ (SetsUp(t, 0, 13) \/ Creates(t, 0, 18))
      /\ Creates(t, 6, 16) \/ SetsUp(t, 6, 10)
      /\ IsA(t, "create") => /\ Creates(t, 1, 20) /\ Creates(t, 2, 20) /\ Creates(t, 1, 16)
                             /\ Creates(t, 3, 16) /\ Creates(t, 5, 16) /\ Creates(t, 6, 16) /\ Adopting(t)
      /\ IsA(t, "setup") => SetsUp(t, 7, 17)
  BY <1>1, <1>2, KeyHandoverAssumption DEF Makes, Creates, SetsUp, Adopting, Safe, Each, TInv
<1>4. loc[t].recovery = None /\ session[t] = None
  BY <1>3 DEF Carrying
<1>5. UNCHANGED <<bundle, pointer, vault, master, pending, session, signed, seen, audited>>
  BY DEF Adopt, sessions, history
<1>6. CASE IsA(t, "setup")
  <2>1. /\ Proceed(t, loc[t]) /\ UNCHANGED <<file, object>>
        /\ UNCHANGED <<disk, master, pending, sessions, seen, audited>>
    BY <1>3, <1>6 DEF Adopt, Ready, disk, history
  <2>2. Gentle
    BY <1>5, <2>1, NoLookGentle
  <2>3. /\ Elsewhere(t) /\ Pos(t)' = 9 /\ n \in Names /\ loc'[t] = loc[t]
        /\ \A k : IsA(t, k)' <=> IsA(t, k)
        /\ Going(t)'
    BY <1>1, <1>2, <2>1, MovedOn
  <2>4. ~IsA(t, "use")' /\ ~IsA(t, "lock")' /\ ~Forgetting(t)' /\ ~IsA(t, "create") /\ ~IsA(t, "create")'
    BY <1>2, <1>6, <2>3 DEF IsA, Forgetting
  <2>5. Standing(t)'
    BY <1>3, <1>5, <2>1, <2>3, <2>4 DEF Standing, Makes, Creates, SetsUp
  <2>6. Holding(t)'
    BY <1>1, <1>3, <1>5, <1>6, <2>1, <2>3, <2>4 DEF Holding, Makes, Creates, SetsUp
  <2>7. Carrying(t)'
    BY <1>3, <1>4, <1>5, <1>6, <2>1, <2>3, <2>4 DEF Carrying, Awaiting, Makes, Creates, SetsUp
  <2>8. Showing(t)'
    BY <1>4, <1>5 DEF Showing
  <2>9. /\ ~Creates(t, 3, 16)' /\ ~Creates(t, 1, 2)' /\ ~Creates(t, 1, 16)' /\ ~Creates(t, 2, 20)'
        /\ ~Creates(t, 16, 17)' /\ ~Adopting(t) /\ ~Makes(t, 6, 7) /\ ~Awaiting(t)
        /\ Makes(t, 7, 17)' /\ SetsUp(t, 6, 12) /\ SetsUp(t, 6, 10) /\ SetsUp(t, 6, 10)'
        /\ ~SetsUp(t, 6, 7)'
    BY <1>1, <1>6, <2>3, <2>4 DEF Makes, Creates, SetsUp, Adopting, Awaiting
  <2>10. Alone'
    BY <2>3, <2>9, AloneStays
  <2>11. Shut'
    BY <1>5, <2>2, <2>3, <2>4, <2>9, GentleKeeps, ShutStays
  <2>12. \A a, p \in Keys : OneKey(a, p) => loc'[t].pw = p
    BY <2>3, <2>9 DEF OneKey
  <2> QED
    BY <1>4, <2>1, <2>2, <2>3, <2>5, <2>6, <2>7, <2>8, <2>9, <2>10, <2>11, <2>12, QuietSafe
      DEF Each
<1>7. CASE IsA(t, "create")
  <2> DEFINE d == object[v].data
             D == [d EXCEPT !.agent = loc[t].shared]
             l == [loc[t] EXCEPT !.agent = None]
  <2>1. /\ v \in Objects /\ object[v].name = n /\ d # None /\ d \in Data /\ vault = v
        /\ object \in [Objects -> [name : Names, data : Data \cup {None}]]
        /\ file \in [Names -> Data \cup {None}] /\ loc[t] \in Locals
    <3>1. v \in Objects /\ object[v].name = n /\ d # None /\ vault = v
      BY <1>3, <1>7 DEF Holding, Ready
    <3> QED
      BY <3>1 DEF TInv, Types, SharedTypes
  <2>2. \A a, p \in Keys : OneKey(a, p) =>
          loc[t].shared = a /\ d.pw = p /\ loc[t].pw = p /\ loc[t].shared \in Keys
    BY <1>3, <1>7, <2>1 DEF OneKey
  <2>3. loc[t].shared \in Keys /\ loc[t].shared # None
    BY <2>2, KeyHandoverAssumption DEF Safe, Keys
  <2>4. /\ Proceed(t, l) /\ object' = [object EXCEPT ![v].data = D] /\ file' = [file EXCEPT ![n] = D]
    BY <1>7, <2>1, <2>3 DEF Adopt, Write, Change, Mine
  <2>5. /\ l \in Locals /\ l.kind = loc[t].kind /\ l.name = n /\ l.pw = loc[t].pw
        /\ l.shared = loc[t].shared /\ l.recovery = loc[t].recovery /\ l.v = v /\ l.agent = None
    BY <2>1 DEF Locals, Keyed
  <2>6. D \in Data /\ D # None /\ D.pw = d.pw /\ D.agent = loc[t].shared
    BY <2>1, <2>3, KeyHandoverAssumption DEF Data
  <2> HIDE DEF l, d, D
  <2>7. /\ Elsewhere(t) /\ Pos(t)' = 9 /\ n \in Names /\ loc'[t] = l
        /\ \A k : IsA(t, k)' <=> IsA(t, k)
        /\ Going(t)'
    BY <1>1, <1>2, <2>4, <2>5, Moved
  <2>8. /\ object'[v].data = D /\ \A o \in Objects : o # v => object'[o] = object[o]
        /\ \A o \in Objects : object'[o].name = object[o].name
        /\ file'[n] = D /\ \A m \in Names : m # n => file'[m] = file[m]
    BY <2>1, <2>4, <2>7
  <2>9. ~IsA(t, "use")' /\ ~IsA(t, "lock")' /\ ~Forgetting(t)' /\ ~IsA(t, "setup") /\ ~IsA(t, "setup")'
    BY <1>2, <1>7, <2>7 DEF IsA, Forgetting
  <2>10. n # Default /\ file[n] # None /\ bundle[n] = None /\ bundle[Default] # None
    BY <1>3, <1>7 DEF Standing
  <2>11. ASSUME NEW u \in Tasks \ {t}
         PROVE  /\ ~Creates(u, 3, 16) /\ ~Creates(u, 5, 16) /\ ~Creates(u, 6, 16) /\ ~Creates(u, 15, 16)
                /\ ~Adopting(u)
                /\ SetsUp(u, 5, 12) => loc[u].v # v
    <3>1. ~Creates(u, 3, 16)
      BY <1>3, <1>7 DEF Safe, Alone
    <3>2. ~Creates(u, 5, 16) /\ ~Creates(u, 6, 16) /\ ~Creates(u, 15, 16) /\ ~Adopting(u)
      BY <3>1, Ranges DEF Adopting
    <3> QED
      BY <1>3, <1>7, <3>1, <3>2, SetupApart
  <2>12. Standing(t)'
    BY <1>3, <1>5, <1>7, <2>5, <2>6, <2>7, <2>8, <2>9, <2>10 DEF Standing, Makes, Creates, SetsUp
  <2>13. Holding(t)'
    BY <1>3, <1>5, <1>7, <2>1, <2>5, <2>6, <2>7, <2>8, <2>9 DEF Holding, Makes, Creates, SetsUp
  <2>14. Carrying(t)'
    BY <1>4, <1>5, <2>5, <2>7, <2>9 DEF Carrying, Awaiting, Makes, Creates, SetsUp
  <2>15. Showing(t)'
    BY <1>4, <1>5 DEF Showing
  <2>16. /\ ~Creates(t, 1, 2)' /\ ~Creates(t, 16, 17)' /\ ~Makes(t, 6, 7) /\ ~Awaiting(t)
         /\ Makes(t, 7, 17)' /\ ~SetsUp(t, 6, 12)' /\ ~SetsUp(t, 6, 10)' /\ ~SetsUp(t, 6, 10)
    BY <1>1, <1>7, <2>7, <2>9 DEF Makes, Creates, SetsUp, Awaiting
  <2>17. Founded'
    BY <1>5, <1>3, <2>6, <2>8, <2>10 DEF Safe, Founded
  <2>18. Alone'
    BY <1>3, <1>7, <2>7, <2>16, AloneStays
  <2>19. ~Locked /\ ~Locked' /\ Cached /\ Cached'
    <3>1. ~Locked /\ Cached
      BY <1>3, <1>7, HoldersCached
    <3> QED
      BY <1>5, <2>1, <2>6, <2>8, <3>1 DEF Locked, Cached
  <2>20. Shut'
    BY <1>3, <1>5, <1>7, <2>7, <2>9, <2>16, <2>19, ShutStays
  <2>21. \A o \in Objects : object'[o].data # None => object[o].data # None
    BY <2>1, <2>8 DEF d
  <2>22. \A m \in Names : file[m] # None <=> file'[m] # None
    BY <2>6, <2>8, <2>10
  <2>23. Kept'
    BY <2>7, <2>8, <2>16, <2>21, <2>22, KeptStays
  <2>24. Recorded'
    BY <1>5, <2>5, <2>7, <2>8, <2>10, <2>16, <2>22, RecordedGrows
  <2>25. \E a, p \in Keys : OneKey(a, p)'
    <3>1. PICK a \in Keys, p \in Keys : OneKey(a, p)
      BY DEF Safe
    <3>2. D.pw = p /\ D.agent = a /\ loc'[t].pw = p /\ loc'[t].shared = a
      BY <2>2, <2>5, <2>6, <2>7, <3>1
    <3>3. ~SetsUp(t, 6, 7)'
      BY <2>9 DEF SetsUp
    <3>4. OneKey(a, p)'
      BY <1>5, <2>7, <2>8, <3>1, <3>2, <3>3, OneKeyMoves
    <3> QED
      BY <3>4
  <2>26. \A m \in Names : Reaches(m)'
    BY <1>4, <1>5, <2>5, <2>7, <2>16, ReachesStays
  <2>27. \A u \in Tasks \ {t} : Standing(u)'
    <3>1. \A u \in Tasks \ {t} : Makes(u, 6, 7) => file'[loc[u].name] = None
      <4> SUFFICES ASSUME NEW u \in Tasks \ {t}, Makes(u, 6, 7) PROVE file'[loc[u].name] = None
        OBVIOUS
      <4>1. loc[u].name \in Names
        BY Ranges
      <4> QED
        BY <2>22, <4>1 DEF Safe, Each, Standing
    <3> QED
      BY <1>5, <2>7, <2>22, <3>1, StandingOthers
  <2>28. \A u \in Tasks \ {t} : Holding(u)'
    <3>1. ASSUME NEW u \in Tasks \ {t}, SetsUp(u, 6, 10) \/ SetsUp(u, 6, 7)
          PROVE  object'[loc[u].v] = object[loc[u].v]
      <4>1. SetsUp(u, 5, 12) /\ Makes(u, 5, 20)
        BY <3>1, Ranges
      <4> QED
        BY <2>8, <2>11, <4>1, HoldersCached
    <3>2. \A u \in Tasks \ {t} : SetsUp(u, 6, 10) => object'[loc[u].v].data # None
      BY <3>1 DEF Safe, Each, Holding
    <3> QED
      BY <1>5, <2>7, <2>8, <2>11, <3>1, <3>2, HoldingOthers
  <2>29. \A u \in Tasks \ {t} : Carrying(u)'
    BY <1>3, <1>5, <2>7, <2>8, <2>10, CarryingOthers
  <2>30. \A u \in Tasks \ {t} : Showing(u)'
    BY <1>5, <2>7, <2>8, <2>10, ShowingOthers
  <2>31. Each(t)'
    BY <2>12, <2>13, <2>14, <2>15 DEF Each
  <2> QED
    BY <2>17, <2>18, <2>20, <2>23, <2>24, <2>25, <2>26, <2>27, <2>28, <2>29, <2>30, <2>31,
       Assembled
<1> QED
  BY <1>2, <1>6, <1>7

\* A step that writes no file, and leaves the objects in use as they are.
LEMMA MildSafe ==
    ASSUME TInv, TInv', Safe, NEW t \in Tasks, Elsewhere(t), Gentle,
           UNCHANGED <<file, bundle, pointer>>, seen \subseteq seen',
           Founded', Alone', Shut', Recorded', Each(t)',
           Makes(t, 6, 7) => Makes(t, 6, 7)' /\ loc'[t].v = loc[t].v,
           \E a, p \in Keys : OneKey(a, p)', \A n \in Names : Reaches(n)',
           \A u \in Tasks \ {t} : Awaiting(u) => pending' = pending,
           \A u \in Tasks \ {t} :
             \/ session'[u] = session[u]
             \/ /\ session'[u] = None /\ ~Creates(u, 18, 20) /\ ~SetsUp(u, 13, 16)
                /\ session[u] # None => session[u].recovery = None
    PROVE  Safe'
<1>1. Kept'
  BY KeptStays, GentleKeeps
<1>2. \A u \in Tasks \ {t} : Standing(u)'
  <2>1. \A u \in Tasks \ {t} : Makes(u, 6, 7) => file'[loc[u].name] = None
    BY DEF Safe, Each, Standing
  <2> QED
    BY <2>1, StandingOthers
<1>3. \A u \in Tasks \ {t} : Holding(u)'
  BY GentleKeeps, HoldingOthers
<1>4. \A u \in Tasks \ {t} : Carrying(u)'
  BY CarryingOthers
<1>5. \A u \in Tasks \ {t} : Showing(u)'
  BY ShowingOthers
<1> QED
  BY <1>1, <1>2, <1>3, <1>4, <1>5, Assembled

\* The password it puts in memory is the one there is.
LEMMA InstallSafe ==
    ASSUME TInv, TInv', Safe, NEW t \in Tasks, Install(t)
    PROVE  Safe'
<1>1. Going(t) /\ Creator(t) /\ Pos(t) = 10
  BY Where DEF Install
<1>2. /\ master' = loc[t].pw /\ Proceed(t, loc[t])
      /\ UNCHANGED <<disk, vault, object, pending, sessions, history>>
  BY DEF Install
<1>3. UNCHANGED <<file, bundle, pointer, vault, object, pending, session, signed, seen, audited>> /\ Gentle
  BY <1>2, NoLookGentle DEF disk, sessions, history
<1>4. /\ IsA(t, "create") \/ IsA(t, "setup")
      /\ ~(IsA(t, "create") /\ IsA(t, "setup"))
  BY <1>1 DEF Creator, IsA
<1>5. /\ Elsewhere(t) /\ Pos(t)' = 11 /\ loc[t].name \in Names /\ loc'[t] = loc[t]
      /\ \A k : IsA(t, k)' <=> IsA(t, k)
      /\ Going(t)'
  BY <1>1, <1>2, <1>4, MovedOn
<1>6. /\ ~IsA(t, "use")' /\ ~IsA(t, "lock")' /\ ~Forgetting(t)'
  BY <1>4, <1>5 DEF IsA, Forgetting
<1>7. Standing(t) /\ Holding(t) /\ Carrying(t) /\ Showing(t) /\ Ready(t)
  BY DEF Safe, Each, TInv
<1>8. Standing(t)'
  BY <1>1, <1>3, <1>5, <1>6, <1>7 DEF Standing, Makes, Creates, SetsUp
<1>9. Holding(t)'
  BY <1>1, <1>3, <1>5, <1>6, <1>7 DEF Holding, Makes, Creates, SetsUp
<1>10. Carrying(t)'
  BY <1>1, <1>3, <1>5, <1>6, <1>7 DEF Carrying, Awaiting, Makes, Creates, SetsUp, Blank
<1>11. Showing(t)'
  BY <1>3, <1>5, <1>7 DEF Showing
<1>12. /\ ~Creates(t, 1, 2)' /\ ~Makes(t, 6, 7) /\ ~Adopting(t) /\ ~Awaiting(t) /\ ~Creates(t, 16, 17)'
       /\ SetsUp(t, 6, 12)' => SetsUp(t, 6, 12)
       /\ ~SetsUp(t, 6, 10)' /\ ~SetsUp(t, 6, 7)'
       /\ Makes(t, 7, 17) => Makes(t, 7, 17)'
       /\ Creates(t, 3, 16)' => Creates(t, 3, 16)
       /\ Creates(t, 1, 16)' => Creates(t, 1, 16)
       /\ Creates(t, 2, 20)' => Creates(t, 2, 20)
       /\ Creates(t, 1, 16) \/ SetsUp(t, 6, 10)
       /\ Makes(t, 7, 20)
       /\ IsA(t, "create") => Creates(t, 1, 20)
  BY <1>1, <1>4, <1>5 DEF Creates, SetsUp, Makes, Adopting, Awaiting
<1>13. \A a, p \in Keys : OneKey(a, p) => loc[t].pw = p
  BY <1>12 DEF OneKey
<1>14. Founded'
  <2>1. file[Default] # None
    <3>1. CASE IsA(t, "create")
      BY <1>7, <1>12, <3>1, KeyHandoverAssumption DEF Standing, Safe, Founded
    <3>2. CASE IsA(t, "setup")
      BY <1>7, <1>12, <3>2 DEF Standing, Ready
    <3> QED
      BY <1>4, <3>1, <3>2
  <2> QED
    BY <1>3, <2>1 DEF Safe, Founded
<1>15. Alone'
  BY <1>5, <1>12, AloneStays
<1>16. master' # None
  <2>1. loc[t].pw \in Keys
    BY <1>1, <1>7 DEF Ready
  <2> QED
    BY <1>2, <2>1, KeyHandoverAssumption DEF Keys
<1>17. Shut'
  <2>1. \A x \in Tasks : ~Forgetting(x)
    BY <1>12 DEF Safe, Shut
  <2>2. \A x \in Tasks : ~Forgetting(x)'
    BY <1>5, <1>6, <2>1, OthersStay
  <2>3. (Cached' <=> Cached) /\ (Locked' <=> Locked)
    BY <1>3 DEF Cached, Locked
  <2>4. ASSUME NEW x \in Tasks, Creates(x, 1, 2)' PROVE Cached' /\ ~Locked'
    BY <1>5, <1>12, <2>3, <2>4, OthersStay DEF Safe, Shut
  <2> QED
    BY <1>16, <2>2, <2>4 DEF Shut
<1>18. Recorded'
  BY <1>3, <1>5, <1>12, RecordedStays
<1>19. \E a, p \in Keys : OneKey(a, p)'
  <2>1. PICK a \in Keys, p \in Keys : OneKey(a, p)
    BY DEF Safe
  <2>2. /\ Creates(t, 2, 20)' => loc'[t].shared = a
        /\ Creates(t, 1, 16)' \/ SetsUp(t, 6, 10)' => loc'[t].pw = p
    BY <1>5, <1>12, <2>1 DEF OneKey
  <2>3. master' = p
    BY <1>2, <1>13, <2>1
  <2>4. OneKey(a, p)'
    BY <1>3, <1>5, <1>12, <2>1, <2>2, <2>3, OneKeyMoves
  <2> QED
    BY <2>4
<1>20. \A n \in Names : Reaches(n)'
  BY <1>3, <1>5, <1>12, ReachesStays
<1>21. Each(t)'
  BY <1>8, <1>9, <1>10, <1>11 DEF Each
<1> QED
  BY <1>3, <1>5, <1>12, <1>14, <1>15, <1>17, <1>18, <1>19, <1>20, <1>21, MildSafe

\* The new bundle has a key that no session is to show yet.
LEMMA BundleSafe ==
    ASSUME TInv, TInv', Safe, NEW t \in Tasks, WriteRecoveryBundle(t)
    PROVE  Safe'
<1>1. Going(t) /\ Creator(t) /\ Pos(t) = 11
  BY Where DEF WriteRecoveryBundle
<1> DEFINE n == loc[t].name
           l == [loc[t] EXCEPT !.recovery = t]
<1>2. /\ bundle' = [bundle EXCEPT ![Mine(t).name] = t] /\ Proceed(t, l)
      /\ UNCHANGED <<file, pointer, memory, sessions, history>>
  BY DEF WriteRecoveryBundle
<1>3. /\ UNCHANGED <<file, pointer, vault, object, master, pending, session, signed, seen, audited>>
      /\ Gentle
  BY <1>2, NoLookGentle DEF memory, sessions, history
<1>4. /\ IsA(t, "create") \/ IsA(t, "setup")
      /\ ~(IsA(t, "create") /\ IsA(t, "setup"))
  BY <1>1 DEF Creator, IsA
<1>5. /\ l \in Locals /\ l.kind = loc[t].kind /\ l.name = n /\ l.pw = loc[t].pw
      /\ l.shared = loc[t].shared /\ l.recovery = t /\ l.v = loc[t].v /\ l.agent = loc[t].agent
  <2>1. loc[t] \in Locals
    BY DEF TInv, Types
  <2> QED
    BY <2>1 DEF Locals, Keyed, Keys
<1> HIDE DEF l
<1>6. /\ Elsewhere(t) /\ Pos(t)' = 12 /\ n \in Names /\ loc'[t] = l
      /\ \A k : IsA(t, k)' <=> IsA(t, k)
      /\ Going(t)' /\ Default \in Names /\ t # None
  BY <1>1, <1>2, <1>4, <1>5, Moved, KeyHandoverAssumption
<1>7. /\ ~IsA(t, "use")' /\ ~IsA(t, "lock")' /\ ~Forgetting(t)'
  BY <1>4, <1>6 DEF IsA, Forgetting
<1>8. /\ Standing(t) /\ Holding(t) /\ Carrying(t)
      /\ Makes(t, 5, 12) /\ Makes(t, 7, 20) /\ Makes(t, 6, 11) /\ Makes(t, 0, 11)
      /\ SetsUp(t, 0, 13) \/ Creates(t, 0, 18)
  BY <1>1, <1>4 DEF Safe, Each, Makes, Creates, SetsUp
<1>9. /\ bundle[n] = None /\ file[n] # None /\ loc[t].recovery = None /\ session[t] = None
      /\ object[loc[t].v].name = n
  BY <1>8 DEF Standing, Carrying, Holding
<1>10. /\ bundle'[n] = t /\ \A m \in Names : m # n => bundle'[m] = bundle[m]
  <2>1. bundle' = [bundle EXCEPT ![n] = t]
    BY <1>2, <1>9 DEF Mine
  <2>2. bundle \in [Names -> Keyed]
    BY DEF TInv, Types, SharedTypes
  <2> QED
    BY <1>6, <2>1, <2>2
<1>11. \A m \in Names : bundle[m] # None => m # n /\ bundle'[m] = bundle[m] /\ bundle'[m] # None
  BY <1>9, <1>10
<1>12. Standing(t)'
  <2>1. IsA(t, "create") => Creates(t, 1, 20) /\ Creates(t, 3, 16)
    BY <1>1 DEF Creates
  <2>2. IsA(t, "create") => n # Default /\ bundle'[Default] # None /\ pointer = n
    BY <1>6, <1>8, <1>11, <2>1 DEF Standing
  <2> QED
    BY <1>3, <1>4, <1>5, <1>6, <1>7, <1>9, <1>10, <2>2 DEF Standing, Makes, Creates, SetsUp
<1>13. Holding(t)'
  BY <1>1, <1>3, <1>5, <1>6, <1>7, <1>8 DEF Holding, Makes, Creates, SetsUp
<1>14. Carrying(t)'
  BY <1>1, <1>3, <1>4, <1>5, <1>6, <1>7, <1>8, <1>9 DEF Carrying, Awaiting, Makes, Creates, SetsUp
<1>15. Showing(t)'
  BY <1>3, <1>9 DEF Showing
<1>16. /\ ~Creates(t, 1, 2)' /\ ~Makes(t, 6, 7) /\ ~Adopting(t) /\ ~Awaiting(t) /\ ~Creates(t, 16, 17)'
       /\ SetsUp(t, 6, 12)' => SetsUp(t, 6, 12)
       /\ ~SetsUp(t, 6, 10)' /\ ~SetsUp(t, 6, 10) /\ ~SetsUp(t, 6, 7)'
       /\ Makes(t, 7, 17) => Makes(t, 7, 17)'
       /\ Creates(t, 3, 16)' => Creates(t, 3, 16)
       /\ Creates(t, 1, 16)' => Creates(t, 1, 16)
       /\ Creates(t, 2, 20)' => Creates(t, 2, 20)
  BY <1>1, <1>4, <1>6 DEF Creates, SetsUp, Makes, Adopting, Awaiting
<1>17. Founded'
  BY <1>3, <1>6, <1>9, <1>10 DEF Safe, Founded
<1>18. Alone'
  BY <1>6, <1>16, AloneStays
<1>19. Shut'
  BY <1>3, <1>6, <1>7, <1>16, GentleKeeps, ShutStays
<1>20. Kept'
  BY <1>3, <1>6, <1>16, KeptStays
<1>21. Recorded'
  BY <1>3, <1>5, <1>6, <1>11, <1>16, RecordedStays
<1>22. \E a, p \in Keys : OneKey(a, p)'
  <2>1. PICK a \in Keys, p \in Keys : OneKey(a, p)
    BY DEF Safe
  <2>2. /\ Creates(t, 2, 20)' => loc'[t].shared = a
        /\ Creates(t, 1, 16)' \/ SetsUp(t, 6, 10)' => loc'[t].pw = p
    BY <1>5, <1>6, <1>16, <2>1 DEF OneKey
  <2>3. OneKey(a, p)'
    BY <1>3, <1>6, <1>16, <2>1, <2>2, OneKeyStays
  <2> QED
    BY <2>3
<1>23. ASSUME NEW m \in Names PROVE Reaches(m)'
  <2> SUFFICES ASSUME bundle'[m] # None
               PROVE  \/ bundle'[m] \in seen'
                      \/ \E u \in Tasks : loc'[u].recovery = bundle'[m] /\ Going(u)'
                      \/ \E u \in Tasks : session'[u] # None /\ session'[u].recovery = bundle'[m]
                      \/ bundle'[m] = pending' /\ \E u \in Tasks : Awaiting(u)'
    BY DEF Reaches
  <2>1. CASE m = n
    BY <1>5, <1>6, <1>10, <2>1
  <2>2. CASE m # n
    <3>1. bundle'[m] = bundle[m] /\ Reaches(m)
      BY <1>10, <2>2 DEF Safe
    <3>2. \A u \in Tasks : loc[u].recovery = bundle[m] /\ Going(u) => u # t
      BY <1>9, <3>1
    <3>3. CASE \E u \in Tasks : loc[u].recovery = bundle[m] /\ Going(u)
      BY <1>6, <3>1, <3>2, <3>3, OthersStay
    <3>4. CASE bundle[m] = pending /\ \E u \in Tasks : Awaiting(u)
      BY <1>3, <1>6, <1>16, <3>1, <3>4, OthersStay
    <3> QED
      BY <1>3, <3>1, <3>3, <3>4 DEF Reaches
  <2> QED
    BY <2>1, <2>2
<1>24. \A u \in Tasks \ {t} : Standing(u)'
  <2>1. \A u \in Tasks \ {t} : Makes(u, 6, 7) => file'[loc[u].name] = None
    BY <1>3 DEF Safe, Each, Standing
  <2>2. \A u \in Tasks \ {t} : Makes(u, 6, 20) => bundle'[loc[u].name] = bundle[loc[u].name]
    <3> SUFFICES ASSUME NEW u \in Tasks \ {t}, Makes(u, 6, 20)
                 PROVE  bundle'[loc[u].name] = bundle[loc[u].name]
      OBVIOUS
    <3>1. loc[u].name \in Names /\ Pos(u) \in Int
      BY Ranges
    <3>2. Makes(u, 6, 11) \/ Makes(u, 11, 20)
      BY <3>1 DEF Makes, Creates, SetsUp
    <3>3. CASE Makes(u, 6, 11)
      <4>1. loc[u].name # n
        BY <1>8, <3>3, Apart
      <4> QED
        BY <1>10, <3>1, <4>1
    <3>4. CASE Makes(u, 11, 20)
      <4>1. bundle[loc[u].name] = u /\ u # None
        BY <3>4, KeyHandoverAssumption DEF Safe, Each, Standing
      <4> QED
        BY <1>11, <3>1, <4>1
    <3> QED
      BY <3>2, <3>3, <3>4
  <2> QED
    BY <1>3, <1>6, <1>11, <2>1, <2>2, StandingOthers
<1>25. \A u \in Tasks \ {t} : Holding(u)'
  BY <1>3, <1>6, GentleKeeps, HoldingOthers
<1>26. \A u \in Tasks \ {t} : Carrying(u)'
  BY <1>3, <1>6, CarryingOthers
<1>27. \A u \in Tasks \ {t} : Showing(u)'
  BY <1>3, <1>6, <1>11, ShowingOthers
<1>28. Each(t)'
  BY <1>12, <1>13, <1>14, <1>15 DEF Each
<1> QED
  BY <1>6, <1>17, <1>18, <1>19, <1>20, <1>21, <1>22, <1>23, <1>24, <1>25, <1>26, <1>27, <1>28,
     Assembled

\* A creation that has its definition, and does not work on the object: its steps hand
\* the recovery key on, record the creation and open the session.
LEMMA HandedOn ==
    ASSUME TInv, TInv', Safe, NEW t \in Tasks, Creator(t), Going(t), Pos(t) \in 12..19,
           IsA(t, "create") => Pos(t) \in {12, 13, 17, 18, 19},
           NEW l \in Locals, l.kind = loc[t].kind, l.name = loc[t].name, l.pw = loc[t].pw,
           l.shared = loc[t].shared, l.v = loc[t].v, l.d = loc[t].d, l.agent = loc[t].agent,
           Proceed(t, l), Gentle, UNCHANGED <<file, bundle, pointer, master>>
    PROVE  /\ Alone' /\ Shut' /\ Standing(t)' /\ Holding(t)'
           /\ \E a, p \in Keys : OneKey(a, p)'
           /\ Pos(t) # 17 /\ UNCHANGED audited => Recorded'
           /\ ~Makes(t, 6, 7)
<1>1. /\ IsA(t, "create") \/ IsA(t, "setup")
      /\ ~(IsA(t, "create") /\ IsA(t, "setup"))
  BY DEF Creator, IsA
<1>2. /\ Elsewhere(t) /\ Pos(t) \in Int /\ Pos(t)' = Pos(t) + 1 /\ loc[t].name \in Names
      /\ \A k : IsA(t, k)' <=> IsA(t, k)
      /\ Going(t)' => loc'[t] = l
      /\ loc'[t].name = loc[t].name
      /\ IsA(t, "create") => (Going(t)' <=> Pos(t) < 19)
      /\ IsA(t, "setup") => (Going(t)' <=> Pos(t) < 17)
  BY Moved
<1>3. /\ ~IsA(t, "use")' /\ ~IsA(t, "lock")' /\ ~Forgetting(t)'
  BY <1>1, <1>2 DEF IsA, Forgetting
<1>4. /\ ~SetsUp(t, 6, 12)' /\ ~SetsUp(t, 6, 10)' /\ ~SetsUp(t, 6, 10) /\ ~SetsUp(t, 6, 7)'
      /\ ~SetsUp(t, 4, 5)'
  BY <1>2 DEF SetsUp
<1>5. /\ ~Creates(t, 16, 17)' /\ ~Creates(t, 15, 16)' /\ ~Creates(t, 14, 15)' /\ ~Creates(t, 1, 2)'
      /\ ~Creates(t, 6, 8)
  BY <1>2 DEF Creates
<1>6. /\ Creates(t, 3, 16)' => Creates(t, 3, 16)
      /\ Creates(t, 1, 16)' => Creates(t, 1, 16)
      /\ Creates(t, 2, 20)' => Creates(t, 2, 20)
      /\ Creates(t, 1, 20)' => Creates(t, 1, 20)
      /\ Creates(t, 5, 16)' => Creates(t, 5, 16)
      /\ Creates(t, 6, 16)' => Creates(t, 6, 16)
  BY <1>2 DEF Creates
<1>7. /\ ~Makes(t, 6, 7) /\ ~Makes(t, 6, 7)' /\ ~Makes(t, 6, 11)' /\ ~Makes(t, 5, 12)'
      /\ Makes(t, 7, 20) /\ Makes(t, 11, 20) /\ ~Adopting(t)
  BY <1>1, <1>2, <1>5 DEF Creates, SetsUp, Makes, Adopting
<1>8. Standing(t) /\ Holding(t)
  BY DEF Safe, Each
<1>9. Standing(t)'
  BY <1>2, <1>3, <1>4, <1>6, <1>7, <1>8 DEF Standing
<1>10. Holding(t)'
  <2>1. Creates(t, 5, 16)' => Going(t)' /\ Makes(t, 5, 20)
    BY <1>6, Ranges DEF Creates
  <2>2. Creates(t, 5, 16)' => loc'[t] = l /\ vault' = vault /\ object'[l.v] = object[l.v]
    BY <1>2, <1>6, <2>1, GentleKeeps
  <2>3. Creates(t, 6, 16)' => Creates(t, 5, 16)'
    BY <1>2 DEF Creates
  <2> QED
    BY <1>2, <1>4, <1>5, <1>6, <1>7, <1>8, <2>2, <2>3 DEF Holding
<1>11. Alone'
  BY <1>2, <1>4, <1>6, AloneStays
<1>12. Shut'
  BY <1>2, <1>3, <1>4, <1>5, <1>6, GentleKeeps, ShutStays
<1>13. \E a, p \in Keys : OneKey(a, p)'
  <2>1. PICK a \in Keys, p \in Keys : OneKey(a, p)
    BY DEF Safe
  <2>2. /\ Creates(t, 2, 20)' => Going(t)' /\ Creates(t, 2, 20)
        /\ Creates(t, 1, 16)' => Going(t)' /\ Creates(t, 1, 16)
    BY <1>6 DEF Creates
  <2>3. /\ Creates(t, 2, 20)' => loc'[t].shared = a
        /\ Creates(t, 1, 16)' \/ SetsUp(t, 6, 10)' => loc'[t].pw = p
    BY <1>2, <1>4, <2>1, <2>2 DEF OneKey
  <2>4. \A o \in Objects : object'[o].data # None => object'[o].data = object[o].data
    BY DEF Gentle
  <2>5. OneKey(a, p)'
    BY <1>2, <1>4, <1>7, <2>1, <2>3, <2>4, OneKeyStays DEF Gentle
  <2> QED
    BY <2>5
<1>14. ASSUME Pos(t) # 17, UNCHANGED audited PROVE Recorded'
  <2>1. Makes(t, 7, 17) => Makes(t, 7, 17)'
    BY <1>1, <1>2, <1>14 DEF Makes, Creates, SetsUp
  <2> QED
    BY <1>2, <1>5, <1>14, <2>1, RecordedStays
<1> QED
  BY <1>7, <1>9, <1>10, <1>11, <1>12, <1>13, <1>14

\* Nobody else has a key in the slot.
LEMMA PendSafe ==
    ASSUME TInv, TInv', Safe, NEW t \in Tasks, Pend(t), ~crossed'
    PROVE  Safe'
<1>1. Going(t) /\ Creator(t) /\ Pos(t) = 12
  BY Where DEF Pend
<1> DEFINE l == [loc[t] EXCEPT !.recovery = None]
<1>2. /\ pending' = loc[t].recovery /\ Cross(t, Awaits) /\ Proceed(t, l)
      /\ UNCHANGED <<disk, vault, object, master, sessions, seen, audited>>
  BY DEF Pend
<1>3. UNCHANGED <<file, bundle, pointer, master, session, signed, seen, audited>> /\ Gentle
  BY <1>2, NoLookGentle DEF disk, sessions
<1>4. /\ l \in Locals /\ l.kind = loc[t].kind /\ l.name = loc[t].name /\ l.pw = loc[t].pw
      /\ l.shared = loc[t].shared /\ l.v = loc[t].v /\ l.d = loc[t].d /\ l.agent = loc[t].agent
      /\ l.recovery = None
  <2>1. loc[t] \in Locals
    BY DEF TInv, Types
  <2> QED
    BY <2>1 DEF Locals, Keyed
<1> HIDE DEF l
<1>5. /\ Elsewhere(t) /\ Pos(t)' = 13 /\ loc[t].name \in Names /\ loc'[t] = l
      /\ \A k : IsA(t, k)' <=> IsA(t, k)
      /\ Going(t)'
  BY <1>1, <1>2, <1>4, Moved DEF Creator
<1>6. /\ Alone' /\ Shut' /\ Standing(t)' /\ Holding(t)' /\ Recorded' /\ ~Makes(t, 6, 7)
      /\ \E a, p \in Keys : OneKey(a, p)'
  BY <1>1, <1>2, <1>3, <1>4, HandedOn
<1>7. /\ IsA(t, "create") \/ IsA(t, "setup")
      /\ ~(IsA(t, "create") /\ IsA(t, "setup"))
  BY <1>1 DEF Creator, IsA
<1>8. /\ Carrying(t) /\ Makes(t, 11, 12)
      /\ SetsUp(t, 0, 13) \/ Creates(t, 0, 18)
      /\ IsA(t, "setup") => SetsUp(t, 7, 17)
      /\ IsA(t, "create") => Creates(t, 8, 20)
      /\ ~Awaiting(t) /\ Awaiting(t)'
  BY <1>1, <1>5, <1>7 DEF Safe, Each, Makes, Creates, SetsUp, Awaiting
<1>9. loc[t].recovery = t /\ session[t] = None /\ pending' = t
  BY <1>2, <1>8 DEF Carrying
<1>10. \A u \in Tasks \ {t} : ~Awaiting(u)
  <2>1. \A u \in Tasks \ {t} : ~Awaits(u)
    BY <1>2 DEF Cross
  <2> QED
    BY <2>1, BetweenIs DEF Awaits, Awaiting
<1>11. Carrying(t)'
  BY <1>3, <1>4, <1>5, <1>7, <1>8, <1>9 DEF Carrying, Makes, Creates, SetsUp
<1>12. Showing(t)'
  BY <1>3, <1>9 DEF Showing
<1>13. Founded'
  BY <1>3, FoundedStays
<1>14. ASSUME NEW m \in Names PROVE Reaches(m)'
  <2> SUFFICES ASSUME bundle'[m] # None
               PROVE  \/ bundle'[m] \in seen'
                      \/ \E u \in Tasks : loc'[u].recovery = bundle'[m] /\ Going(u)'
                      \/ \E u \in Tasks : session'[u] # None /\ session'[u].recovery = bundle'[m]
                      \/ bundle'[m] = pending' /\ \E u \in Tasks : Awaiting(u)'
    BY DEF Reaches
  <2>1. bundle'[m] = bundle[m] /\ Reaches(m)
    BY <1>3 DEF Safe
  <2>2. CASE \E u \in Tasks : loc[u].recovery = bundle[m] /\ Going(u)
    <3>1. PICK u \in Tasks : loc[u].recovery = bundle[m] /\ Going(u)
      BY <2>2
    <3>2. CASE u = t
      BY <1>8, <1>9, <2>1, <3>1, <3>2
    <3>3. CASE u # t
      BY <1>5, <2>1, <3>1, <3>3, OthersStay
    <3> QED
      BY <3>2, <3>3
  <2>3. ~(\E u \in Tasks : Awaiting(u))
    BY <1>8, <1>10
  <2> QED
    BY <1>3, <2>1, <2>2, <2>3 DEF Reaches
<1>15. Each(t)'
  BY <1>6, <1>11, <1>12 DEF Each
<1> QED
  BY <1>3, <1>5, <1>6, <1>10, <1>13, <1>14, <1>15, MildSafe

\* The key in the slot is its own.
LEMMA ConsumeSafe ==
    ASSUME TInv, TInv', Safe, NEW t \in Tasks, ConsumePendingRecoveryKey(t), ~crossed'
    PROVE  Safe'
<1>1. /\ Going(t) /\ Creator(t)
      /\ (IsA(t, "create") /\ Pos(t) = 13) \/ (IsA(t, "setup") /\ Pos(t) = 15)
  BY Where DEF ConsumePendingRecoveryKey, Creator
<1> DEFINE l == [loc[t] EXCEPT !.recovery = pending]
<1>2. /\ pending' = None /\ Cross(t, Awaits) /\ Proceed(t, l)
      /\ UNCHANGED <<disk, vault, object, master, sessions, seen, audited>>
  BY DEF ConsumePendingRecoveryKey
<1>3. UNCHANGED <<file, bundle, pointer, master, session, signed, seen, audited>> /\ Gentle
  BY <1>2, NoLookGentle DEF disk, sessions
<1>4. /\ l \in Locals /\ l.kind = loc[t].kind /\ l.name = loc[t].name /\ l.pw = loc[t].pw
      /\ l.shared = loc[t].shared /\ l.v = loc[t].v /\ l.d = loc[t].d /\ l.agent = loc[t].agent
      /\ l.recovery = pending
  <2>1. loc[t] \in Locals /\ pending \in Keyed
    BY DEF TInv, Types, SharedTypes
  <2> QED
    BY <2>1 DEF Locals
<1> HIDE DEF l
<1>5. /\ Elsewhere(t) /\ Pos(t)' = Pos(t) + 1 /\ loc[t].name \in Names /\ loc'[t] = l
      /\ \A k : IsA(t, k)' <=> IsA(t, k)
      /\ Going(t)'
  BY <1>1, <1>2, <1>4, Moved
<1>6. /\ Alone' /\ Shut' /\ Standing(t)' /\ Holding(t)' /\ Recorded' /\ ~Makes(t, 6, 7)
      /\ \E a, p \in Keys : OneKey(a, p)'
  <2>1. /\ Pos(t) \in 12..19 /\ Pos(t) # 17
        /\ IsA(t, "create") => Pos(t) \in {12, 13, 17, 18, 19}
    BY <1>1 DEF IsA
  <2> QED
    BY <1>1, <1>2, <1>3, <1>4, <2>1, HandedOn
<1>7. ~(IsA(t, "create") /\ IsA(t, "setup"))
  BY DEF IsA
<1>8. Carrying(t) /\ Awaiting(t)
  BY <1>1 DEF Safe, Each, Awaiting, Creates, SetsUp
<1>9. loc[t].recovery = None /\ pending = t /\ l.recovery = t
  BY <1>4, <1>8 DEF Carrying
<1>10. \A u \in Tasks \ {t} : ~Awaiting(u)
  <2>1. \A u \in Tasks \ {t} : ~Awaits(u)
    BY <1>2 DEF Cross
  <2> QED
    BY <2>1, BetweenIs DEF Awaits, Awaiting
<1>11. Carrying(t)'
  <2>1. CASE IsA(t, "create") /\ Pos(t) = 13
    <3>1. Creates(t, 0, 18) /\ Creates(t, 8, 20) /\ ~IsA(t, "setup")' /\ Pos(t)' = 14
      BY <1>1, <1>5, <1>7, <2>1 DEF Creates
    <3> QED
      BY <1>3, <1>4, <1>5, <1>8, <1>9, <3>1 DEF Carrying, Awaiting, Makes, Creates, SetsUp
  <2>2. CASE IsA(t, "setup") /\ Pos(t) = 15
    <3>1. SetsUp(t, 13, 16) /\ SetsUp(t, 7, 17) /\ ~IsA(t, "create")' /\ Pos(t)' = 16
      BY <1>1, <1>5, <1>7, <2>2 DEF SetsUp
    <3> QED
      BY <1>3, <1>4, <1>5, <1>8, <1>9, <3>1 DEF Carrying, Awaiting, Makes, Creates, SetsUp, Blank
  <2> QED
    BY <1>1, <2>1, <2>2
<1>12. Showing(t)'
  BY <1>3, <1>4, <1>5 DEF Safe, Each, Showing
<1>13. Founded'
  BY <1>3, FoundedStays
<1>14. ASSUME NEW m \in Names PROVE Reaches(m)'
  <2> SUFFICES ASSUME bundle'[m] # None
               PROVE  \/ bundle'[m] \in seen'
                      \/ \E u \in Tasks : loc'[u].recovery = bundle'[m] /\ Going(u)'
                      \/ \E u \in Tasks : session'[u] # None /\ session'[u].recovery = bundle'[m]
                      \/ bundle'[m] = pending' /\ \E u \in Tasks : Awaiting(u)'
    BY DEF Reaches
  <2>1. bundle'[m] = bundle[m] /\ Reaches(m)
    BY <1>3 DEF Safe
  <2>2. CASE \E u \in Tasks : loc[u].recovery = bundle[m] /\ Going(u)
    <3>1. PICK u \in Tasks : loc[u].recovery = bundle[m] /\ Going(u)
      BY <2>2
    <3>2. u # t
      BY <1>9, <2>1, <3>1
    <3> QED
      BY <1>5, <2>1, <3>1, <3>2, OthersStay
  <2>3. CASE bundle[m] = pending
    BY <1>5, <1>9, <2>1, <2>3
  <2> QED
    BY <1>3, <2>1, <2>2, <2>3 DEF Reaches
<1>15. Each(t)'
  BY <1>6, <1>11, <1>12 DEF Each
<1> QED
  BY <1>3, <1>5, <1>6, <1>10, <1>13, <1>14, <1>15, MildSafe

\* The new session has nothing to show yet.
LEMMA OpenSessionSafe ==
    ASSUME TInv, TInv', Safe, NEW t \in Tasks, CreateSession(t)
    PROVE  Safe'
<1>1. /\ Going(t) /\ Creator(t)
      /\ (IsA(t, "create") /\ Pos(t) = 18) \/ (IsA(t, "setup") /\ Pos(t) = 13)
  BY Where DEF CreateSession, Creator
<1>2. /\ session' = [session EXCEPT ![t] = Blank] /\ signed' = TRUE /\ Proceed(t, loc[t])
      /\ UNCHANGED <<disk, memory, history>>
  BY DEF CreateSession, Blank
<1>3. UNCHANGED <<file, bundle, pointer, master, pending, seen, audited>> /\ Gentle
  BY <1>2, NoLookGentle DEF disk, memory, history
<1>4. loc[t] \in Locals /\ session \in [Tasks -> Shows \cup {None}]
  BY DEF TInv, Types, SharedTypes
<1>5. /\ Elsewhere(t) /\ Pos(t)' = Pos(t) + 1 /\ loc[t].name \in Names /\ loc'[t] = loc[t]
      /\ \A k : IsA(t, k)' <=> IsA(t, k)
      /\ Going(t)'
  BY <1>1, <1>2, MovedOn
<1>6. /\ Alone' /\ Shut' /\ Standing(t)' /\ Holding(t)' /\ Recorded' /\ ~Makes(t, 6, 7)
      /\ \E a, p \in Keys : OneKey(a, p)'
  <2>1. /\ Pos(t) \in 12..19 /\ Pos(t) # 17
        /\ IsA(t, "create") => Pos(t) \in {12, 13, 17, 18, 19}
    BY <1>1 DEF IsA
  <2> QED
    BY <1>1, <1>2, <1>3, <1>4, <2>1, HandedOn
<1>7. ~(IsA(t, "create") /\ IsA(t, "setup"))
  BY DEF IsA
<1>8. /\ Carrying(t) /\ Standing(t) /\ Makes(t, 11, 20)
      /\ SetsUp(t, 0, 13) \/ Creates(t, 0, 18)
      /\ IsA(t, "create") => Creates(t, 1, 20)
  BY <1>1 DEF Safe, Each, Makes, Creates, SetsUp
<1>9. /\ session[t] = None /\ bundle[loc[t].name] = t /\ session'[t] = Blank
      /\ \A u \in Tasks \ {t} : session'[u] = session[u]
  BY <1>2, <1>4, <1>8 DEF Carrying, Standing
<1>10. Founded'
  <2>1. bundle[Default] # None
    <3>1. CASE IsA(t, "create")
      BY <1>8, <3>1 DEF Standing
    <3>2. CASE IsA(t, "setup")
      BY <1>9, <3>2, KeyHandoverAssumption DEF TInv, Ready
    <3> QED
      BY <1>1, <3>1, <3>2
  <2> QED
    BY <1>3, <2>1 DEF Safe, Founded
<1>11. Blank' = Blank
  BY DEF Blank
<1>12. Carrying(t)'
  <2>1. CASE IsA(t, "create") /\ Pos(t) = 18
    <3>1. Creates(t, 13, 20) /\ Creates(t, 8, 20) /\ ~IsA(t, "setup")' /\ Pos(t)' = 19
      BY <1>1, <1>5, <1>7, <2>1 DEF Creates
    <3> QED
      BY <1>5, <1>8, <1>9, <1>11, <3>1 DEF Carrying, Awaiting, Makes, Creates, SetsUp
  <2>2. CASE IsA(t, "setup") /\ Pos(t) = 13
    <3>1. Awaiting(t) /\ SetsUp(t, 7, 17) /\ ~IsA(t, "create")' /\ Pos(t)' = 14
      BY <1>1, <1>5, <1>7, <2>2 DEF SetsUp, Awaiting
    <3> QED
      BY <1>3, <1>5, <1>8, <1>9, <1>11, <3>1 DEF Carrying, Awaiting, Makes, Creates, SetsUp
  <2> QED
    BY <1>1, <2>1, <2>2
<1>13. Showing(t)'
  BY <1>5, <1>9 DEF Showing, Blank
<1>14. \A m \in Names : Reaches(m)'
  <2>1. Awaiting(t) => Awaiting(t)'
    BY <1>1, <1>5 DEF Awaiting, Creates, SetsUp
  <2> QED
    BY <1>3, <1>5, <1>9, <2>1, ReachesStays
<1>15. Each(t)'
  BY <1>6, <1>12, <1>13 DEF Each
<1> QED
  BY <1>3, <1>5, <1>6, <1>9, <1>10, <1>14, <1>15, MildSafe

\* The session gets the keys of its own definition.
LEMMA ShowSafe ==
    ASSUME TInv, TInv', Safe, NEW t \in Tasks, Show(t)
    PROVE  Safe'
<1>1. /\ Going(t) /\ Creator(t)
      /\ (IsA(t, "create") /\ Pos(t) = 19) \/ (IsA(t, "setup") /\ Pos(t) = 16)
  BY Where DEF Show, Creator
<1> DEFINE s == [agent |-> loc[t].agent, recovery |-> loc[t].recovery]
<1>2. /\ session' = IF session[t] = None THEN session ELSE [session EXCEPT ![t] = s]
      /\ Proceed(t, loc[t])
      /\ UNCHANGED <<disk, memory, signed, history>>
  BY DEF Show
<1>3. UNCHANGED <<file, bundle, pointer, master, pending, signed, seen, audited>> /\ Gentle
  BY <1>2, NoLookGentle DEF disk, memory, history
<1>4. /\ loc[t] \in Locals /\ session \in [Tasks -> Shows \cup {None}] /\ s # None /\ t # None
      /\ s.agent = loc[t].agent /\ s.recovery = loc[t].recovery
  <2>1. loc[t] \in Locals /\ session \in [Tasks -> Shows \cup {None}]
    BY DEF TInv, Types, SharedTypes
  <2>2. s \in Shows
    BY <2>1 DEF Locals, Shows, Keyed
  <2> QED
    BY <2>1, <2>2, KeyHandoverAssumption
<1> HIDE DEF s
<1>5. /\ Elsewhere(t) /\ Pos(t)' = Pos(t) + 1 /\ loc[t].name \in Names /\ loc'[t].name = loc[t].name
      /\ \A k : IsA(t, k)' <=> IsA(t, k)
      /\ Going(t)' => loc'[t] = loc[t]
      /\ IsA(t, "create") => ~Going(t)'
      /\ IsA(t, "setup") => Going(t)'
  <2>1. /\ Elsewhere(t) /\ Pos(t)' = Pos(t) + 1 /\ loc[t].name \in Names /\ loc'[t].name = loc[t].name
        /\ \A k : IsA(t, k)' <=> IsA(t, k)
        /\ Going(t)' => loc'[t] = loc[t]
        /\ IsA(t, "create") => (Going(t)' <=> Pos(t) < 19)
        /\ IsA(t, "setup") => (Going(t)' <=> Pos(t) < 17)
    BY <1>1, <1>2, MovedOn
  <2>2. /\ IsA(t, "create") => Pos(t) = 19
        /\ IsA(t, "setup") => Pos(t) = 16
    BY <1>1 DEF IsA
  <2>3. ~(19 < 19) /\ 16 < 17
    OBVIOUS
  <2> QED
    BY <2>1, <2>2, <2>3
<1>6. /\ Alone' /\ Shut' /\ Standing(t)' /\ Holding(t)' /\ Recorded' /\ ~Makes(t, 6, 7)
      /\ \E a, p \in Keys : OneKey(a, p)'
  <2>1. /\ Pos(t) \in 12..19 /\ Pos(t) # 17
        /\ IsA(t, "create") => Pos(t) \in {12, 13, 17, 18, 19}
    BY <1>1 DEF IsA
  <2> QED
    BY <1>1, <1>2, <1>3, <1>4, <2>1, HandedOn
<1>7. ~(IsA(t, "create") /\ IsA(t, "setup"))
  BY DEF IsA
<1>8. /\ Carrying(t) /\ Standing(t) /\ Makes(t, 11, 20)
      /\ SetsUp(t, 13, 16) \/ Creates(t, 18, 20)
      /\ SetsUp(t, 15, 17) \/ Creates(t, 13, 20)
      /\ IsA(t, "create") => Creates(t, 8, 20)
      /\ IsA(t, "setup") => SetsUp(t, 7, 17) /\ loc[t].name = Default
      /\ ~Awaiting(t)
  BY <1>1, <1>7 DEF Safe, Each, Makes, Creates, SetsUp, TInv, Ready, Awaiting
<1>9. /\ session[t] # None /\ session[t].recovery = None /\ loc[t].recovery = t
      /\ bundle[loc[t].name] = t
      /\ IsA(t, "create") => loc[t].agent = None
      /\ IsA(t, "setup") => loc[t].agent = t /\ file[loc[t].name].agent = t
  <2>1. session[t] = Blank
    BY <1>8 DEF Carrying
  <2>2. Blank \in Shows /\ Blank.recovery = None
    BY DEF Blank, Shows
  <2> QED
    BY <1>8, <2>1, <2>2, KeyHandoverAssumption DEF Carrying, Standing
<1>10. session'[t] = s /\ \A u \in Tasks \ {t} : session'[u] = session[u]
  BY <1>2, <1>4, <1>9
<1>11. Founded'
  BY <1>3, FoundedStays
<1>12. Carrying(t)'
  <2>1. CASE IsA(t, "create")
    <3>1. \A i, j : ~Creates(t, i, j)' /\ ~SetsUp(t, i, j)' /\ ~Makes(t, i, j)'
      BY <1>5, <2>1 DEF Makes, Creates, SetsUp
    <3> QED
      BY <3>1 DEF Carrying, Awaiting
  <2>2. CASE IsA(t, "setup")
    <3>1. Pos(t)' = 17 /\ ~IsA(t, "create")' /\ loc'[t] = loc[t] /\ file'[Default].agent = t
      BY <1>1, <1>3, <1>5, <1>7, <1>8, <1>9, <2>2
    <3> QED
      BY <1>4, <1>9, <1>10, <2>2, <3>1 DEF Carrying, Awaiting, Makes, Creates, SetsUp
  <2> QED
    BY <1>1, <2>1, <2>2
<1>13. Showing(t)'
  BY <1>1, <1>3, <1>4, <1>5, <1>9, <1>10 DEF Showing
<1>14. \A m \in Names : Reaches(m)'
  BY <1>3, <1>4, <1>5, <1>8, <1>9, <1>10, ReachesStays
<1>15. Each(t)'
  BY <1>6, <1>12, <1>13 DEF Each
<1> QED
  BY <1>3, <1>5, <1>6, <1>10, <1>11, <1>14, <1>15, MildSafe

\* The definition it records has its form and its bundle.
LEMMA AuditSafe ==
    ASSUME TInv, TInv', Safe, NEW t \in Tasks, AdminAudit(t)
    PROVE  Safe'
<1>1. Going(t) /\ Creator(t) /\ Pos(t) = 17
  BY Where DEF AdminAudit
<1> DEFINE n == loc[t].name
<1>2. /\ audited' = audited \cup {n} /\ Proceed(t, loc[t])
      /\ UNCHANGED <<disk, memory, sessions, seen, crossed>>
  BY DEF AdminAudit
<1>3. UNCHANGED <<file, bundle, pointer, master, pending, session, signed, seen>> /\ Gentle
  BY <1>2, NoLookGentle DEF disk, memory, sessions
<1>4. loc[t] \in Locals /\ audited \subseteq Names /\ t # None
  BY KeyHandoverAssumption DEF TInv, Types, SharedTypes
<1>5. /\ Elsewhere(t) /\ Pos(t)' = 18 /\ n \in Names /\ loc'[t].name = n
      /\ \A k : IsA(t, k)' <=> IsA(t, k)
      /\ Going(t)' => loc'[t] = loc[t]
      /\ IsA(t, "create") => Going(t)'
      /\ IsA(t, "setup") => ~Going(t)'
  BY <1>1, <1>2, MovedOn DEF Creator
<1>6. /\ Alone' /\ Shut' /\ Standing(t)' /\ Holding(t)' /\ ~Makes(t, 6, 7)
      /\ \E a, p \in Keys : OneKey(a, p)'
  BY <1>1, <1>2, <1>3, <1>4, HandedOn
<1>7. /\ IsA(t, "create") \/ IsA(t, "setup")
      /\ ~(IsA(t, "create") /\ IsA(t, "setup"))
  BY <1>1 DEF Creator, IsA
<1>8. /\ Carrying(t) /\ Standing(t) /\ Makes(t, 11, 20) /\ ~Awaiting(t)
      /\ IsA(t, "create") => /\ Creates(t, 16, 17) /\ Creates(t, 8, 20) /\ Creates(t, 13, 20)
                             /\ Creates(t, 0, 18)
      /\ IsA(t, "setup") => SetsUp(t, 16, 17) /\ SetsUp(t, 15, 17) /\ n = Default
  BY <1>1, <1>7 DEF Safe, Each, Makes, Creates, SetsUp, Awaiting, TInv, Ready
<1>9. /\ bundle[n] = t /\ (n # Default => file[n].form = n)
  BY <1>7, <1>8 DEF Standing, Safe, Recorded
<1>10. Recorded'
  <2>1. ASSUME NEW m \in audited'
        PROVE  bundle'[m] # None /\ (m # Default => file'[m].form = m)
    BY <1>2, <1>3, <1>4, <1>9 DEF Safe, Recorded
  <2>2. ASSUME NEW m \in Names, file'[m] # None, m \notin audited'
        PROVE  \E u \in Tasks : loc'[u].name = m /\ Makes(u, 7, 17)'
    <3>1. PICK u \in Tasks : loc[u].name = m /\ Makes(u, 7, 17)
      BY <1>2, <1>3, <2>2 DEF Safe, Recorded
    <3>2. u # t
      BY <1>2, <2>2, <3>1
    <3> QED
      BY <1>5, <3>1, <3>2, OthersStay
  <2>3. ASSUME NEW u \in Tasks, Creates(u, 16, 17)'
        PROVE  file'[loc'[u].name].form = loc'[u].name
    <3>1. u # t
      BY <1>5, <2>3 DEF Creates
    <3> QED
      BY <1>3, <1>5, <2>3, <3>1, OthersStay DEF Safe, Recorded
  <2> QED
    BY <2>1, <2>2, <2>3 DEF Recorded
<1>11. Founded'
  BY <1>3, FoundedStays
<1>12. Carrying(t)'
  <2>1. CASE IsA(t, "setup")
    <3>1. \A i, j : ~Creates(t, i, j)' /\ ~SetsUp(t, i, j)' /\ ~Makes(t, i, j)'
      BY <1>5, <2>1 DEF Makes, Creates, SetsUp
    <3> QED
      BY <3>1 DEF Carrying, Awaiting
  <2>2. CASE IsA(t, "create")
    <3>1. ~IsA(t, "setup")'
      BY <1>5, <1>7, <2>2
    <3> QED
      BY <1>3, <1>5, <1>8, <2>2, <3>1 DEF Carrying, Awaiting, Makes, Creates, SetsUp
  <2> QED
    BY <1>7, <2>1, <2>2
<1>13. Showing(t)'
  BY <1>3, <1>5 DEF Safe, Each, Showing
<1>14. \A m \in Names : Reaches(m)'
  <2>1. IsA(t, "setup") => \/ loc[t].recovery \in seen'
                           \/ session'[t] # None /\ session'[t].recovery = loc[t].recovery
    BY <1>3, <1>8 DEF Carrying
  <2> QED
    BY <1>3, <1>5, <1>7, <1>8, <2>1, ReachesStays
<1>15. Each(t)'
  BY <1>6, <1>12, <1>13 DEF Each
<1> QED
  BY <1>3, <1>5, <1>6, <1>10, <1>11, <1>14, <1>15, MildSafe

----------------------------------------------------------------------------
(* What a creation does with the new definition                            *)

\* The form goes into its own object.
LEMMA ApplySafe ==
    ASSUME TInv, TInv', Safe, NEW t \in Tasks, ApplyDefinitionForm(t)
    PROVE  Safe'
<1>1. Going(t) /\ IsA(t, "create") /\ Pos(t) = 15
  BY Where DEF ApplyDefinitionForm
<1> DEFINE v == loc[t].v
           n == loc[t].name
           d == object[v].data
           D == [d EXCEPT !.form = n]
<1>2. /\ Standing(t) /\ Holding(t) /\ Carrying(t) /\ Showing(t)
      /\ Creates(t, 5, 16) /\ Creates(t, 6, 16) /\ Creates(t, 14, 15) /\ Creates(t, 3, 16)
      /\ Makes(t, 5, 20) /\ ~Adopting(t) /\ Creates(t, 1, 16) /\ Creates(t, 2, 20)
  BY <1>1 DEF Makes, Creates, Adopting, Safe, Each
<1>3. /\ v \in Objects /\ object[v].name = n /\ d # None /\ d \in Data /\ vault = v /\ loc[t].d = v
      /\ object \in [Objects -> [name : Names, data : Data \cup {None}]]
  <2>1. v \in Objects /\ object[v].name = n /\ d # None /\ vault = v /\ loc[t].d = v
    BY <1>2, HoldersCached DEF Holding
  <2> QED
    BY <2>1 DEF TInv, Types, SharedTypes
<1>4. /\ object' = [object EXCEPT ![v].data.form = n] /\ Proceed(t, loc[t])
      /\ UNCHANGED <<disk, vault, master, pending, sessions, history>>
  BY <1>3 DEF ApplyDefinitionForm
<1>5. UNCHANGED <<file, bundle, pointer, vault, master, pending, session, signed, seen, audited>>
  BY <1>4 DEF disk, sessions, history
<1>6. /\ Elsewhere(t) /\ Pos(t)' = 16 /\ n \in Names /\ loc'[t] = loc[t]
      /\ \A k : IsA(t, k)' <=> IsA(t, k)
      /\ Going(t)'
  BY <1>1, <1>4, MovedOn
<1>7. D \in Data /\ D # None /\ D.pw = d.pw /\ D.agent = d.agent /\ D.form = n
  BY <1>3, <1>6, KeyHandoverAssumption DEF Data
<1>8. /\ object'[v].data = D /\ \A o \in Objects : o # v => object'[o] = object[o]
      /\ \A o \in Objects : object'[o].name = object[o].name
  BY <1>3, <1>4
<1> HIDE DEF d, D
<1>9. ~IsA(t, "use")' /\ ~IsA(t, "lock")' /\ ~Forgetting(t)' /\ ~IsA(t, "setup") /\ ~IsA(t, "setup")'
  BY <1>1, <1>6 DEF IsA, Forgetting
<1>10. ASSUME NEW u \in Tasks \ {t}
       PROVE  /\ ~Creates(u, 6, 16) /\ ~Creates(u, 15, 16) /\ ~Adopting(u)
              /\ SetsUp(u, 5, 12) => loc[u].v # v
  <2>1. ~Creates(u, 3, 16)
    BY <1>2 DEF Safe, Alone
  <2>2. ~Creates(u, 6, 16) /\ ~Creates(u, 15, 16) /\ ~Adopting(u)
    BY <2>1, Ranges DEF Adopting
  <2> QED
    BY <1>2, <2>2, SetupApart
<1>11. Standing(t)'
  BY <1>1, <1>2, <1>5, <1>6, <1>9 DEF Standing, Makes, Creates, SetsUp
<1>12. Holding(t)'
  BY <1>1, <1>2, <1>3, <1>5, <1>6, <1>7, <1>8, <1>9 DEF Holding, Makes, Creates, SetsUp
<1>13. Carrying(t)'
  BY <1>1, <1>2, <1>5, <1>6, <1>9 DEF Carrying, Awaiting, Makes, Creates, SetsUp
<1>14. Showing(t)'
  BY <1>2, <1>5, <1>6 DEF Showing
<1>15. /\ ~Creates(t, 1, 2)' /\ ~Creates(t, 16, 17)' /\ ~Makes(t, 6, 7) /\ ~Awaiting(t)
       /\ Makes(t, 7, 17)' /\ ~SetsUp(t, 6, 12)' /\ ~SetsUp(t, 6, 10)' /\ ~SetsUp(t, 6, 7)' /\ ~SetsUp(t, 6, 10)
  BY <1>1, <1>6, <1>9 DEF Makes, Creates, SetsUp, Awaiting
<1>16. Founded'
  BY <1>5, FoundedStays
<1>17. Alone'
  BY <1>2, <1>6, <1>15, AloneStays
<1>18. ~Locked /\ ~Locked' /\ Cached /\ Cached'
  <2>1. ~Locked /\ Cached
    BY <1>2, HoldersCached
  <2> QED
    BY <1>3, <1>5, <1>7, <1>8, <2>1 DEF Locked, Cached
<1>19. Shut'
  BY <1>2, <1>5, <1>6, <1>9, <1>15, <1>18, ShutStays
<1>20. Kept'
  <2>1. \A o \in Objects : object'[o].data # None => object[o].data # None
    BY <1>3, <1>8 DEF d
  <2> QED
    BY <1>5, <1>6, <1>8, <1>15, <2>1, KeptStays
<1>21. Recorded'
  BY <1>5, <1>6, <1>15, RecordedStays
<1>22. \E a, p \in Keys : OneKey(a, p)'
  <2>1. PICK a \in Keys, p \in Keys : OneKey(a, p)
    BY DEF Safe
  <2>2. d.pw = p /\ d.agent = a
    BY <1>2, <1>3, <1>10, <2>1 DEF OneKey, d
  <2>3. loc'[t].pw = p /\ loc'[t].shared = a
    BY <1>2, <1>6, <2>1 DEF OneKey
  <2>4. OneKey(a, p)'
    BY <1>2, <1>5, <1>6, <1>7, <1>8, <1>15, <2>1, <2>2, <2>3, OneKeyMoves
  <2> QED
    BY <2>4
<1>23. \A m \in Names : Reaches(m)'
  BY <1>5, <1>6, <1>15, ReachesStays
<1>24. \A u \in Tasks \ {t} : Standing(u)'
  <2>1. \A u \in Tasks \ {t} : Makes(u, 6, 7) => file'[loc[u].name] = None
    BY <1>5 DEF Safe, Each, Standing
  <2> QED
    BY <1>5, <1>6, <2>1, StandingOthers
<1>25. \A u \in Tasks \ {t} : Holding(u)'
  <2>1. ASSUME NEW u \in Tasks \ {t}, SetsUp(u, 6, 10) \/ SetsUp(u, 6, 7)
        PROVE  object'[loc[u].v] = object[loc[u].v]
    <3>1. SetsUp(u, 5, 12) /\ Makes(u, 5, 20)
      BY <2>1, Ranges
    <3> QED
      BY <1>8, <1>10, <3>1, HoldersCached
  <2>2. \A u \in Tasks \ {t} : SetsUp(u, 6, 10) => object'[loc[u].v].data # None
    BY <2>1 DEF Safe, Each, Holding
  <2> QED
    BY <1>5, <1>6, <1>8, <1>10, <2>1, <2>2, HoldingOthers
<1>26. \A u \in Tasks \ {t} : Carrying(u)'
  BY <1>5, <1>6, CarryingOthers
<1>27. \A u \in Tasks \ {t} : Showing(u)'
  BY <1>5, <1>6, ShowingOthers
<1>28. Each(t)'
  BY <1>11, <1>12, <1>13, <1>14 DEF Each
<1> QED
  BY <1>6, <1>16, <1>17, <1>19, <1>20, <1>21, <1>22, <1>23, <1>24, <1>25, <1>26, <1>27, <1>28,
     Assembled

\* The form is saved to its own definition, which is still active.
LEMMA SaveVaultSafe ==
    ASSUME TInv, TInv', Safe, NEW t \in Tasks, SaveVault(t)
    PROVE  Safe'
<1>1. Going(t) /\ IsA(t, "create") /\ Pos(t) = 16
  BY Where DEF SaveVault
<1> DEFINE v == loc[t].v
           n == loc[t].name
           d == object[v].data
<1>2. /\ Standing(t) /\ Holding(t) /\ Carrying(t) /\ Showing(t)
      /\ Creates(t, 5, 16) /\ Creates(t, 6, 16) /\ Creates(t, 15, 16) /\ Creates(t, 3, 16)
      /\ Makes(t, 5, 20) /\ Makes(t, 7, 20) /\ ~Adopting(t) /\ Creates(t, 1, 16) /\ Creates(t, 2, 20)
      /\ Creates(t, 1, 20)
  BY <1>1 DEF Makes, Creates, Adopting, Safe, Each
<1>3. /\ v \in Objects /\ object[v].name = n /\ d # None /\ vault = v /\ d.form = n
      /\ pointer = n /\ file[n] # None /\ n # Default
      /\ Unlocked /\ Current = v /\ Loaded = object
      /\ file \in [Names -> Data \cup {None}]
  <2>1. /\ v \in Objects /\ object[v].name = n /\ d # None /\ vault = v /\ d.form = n
        /\ pointer = n /\ file[n] # None /\ n # Default
        /\ Unlocked /\ Current = v /\ Loaded = object
    BY <1>2, HoldersCached DEF Holding, Standing
  <2> QED
    BY <2>1 DEF TInv, Types, SharedTypes
<1>4. /\ LookUp /\ file' = [file EXCEPT ![n] = d] /\ Proceed(t, loc[t])
      /\ UNCHANGED <<bundle, pointer, master, pending, sessions, history>>
  BY <1>3 DEF SaveVault
<1>5. /\ UNCHANGED <<bundle, pointer, master, pending, session, signed, seen, audited>>
      /\ Gentle /\ Default \in Names
  BY <1>4, LookUpGentle, KeyHandoverAssumption DEF sessions, history
<1>6. /\ Elsewhere(t) /\ Pos(t)' = 17 /\ n \in Names /\ loc'[t] = loc[t]
      /\ \A k : IsA(t, k)' <=> IsA(t, k)
      /\ Going(t)'
  BY <1>1, <1>4, MovedOn
<1>7. /\ file'[n] = d /\ \A m \in Names : m # n => file'[m] = file[m]
  BY <1>3, <1>4, <1>6
<1>8. \A m \in Names : file'[m] # None <=> file[m] # None
  BY <1>3, <1>7
<1>9. ~IsA(t, "use")' /\ ~IsA(t, "lock")' /\ ~Forgetting(t)' /\ ~IsA(t, "setup") /\ ~IsA(t, "setup")'
  BY <1>1, <1>6 DEF IsA, Forgetting
<1>10. \A a, p \in Keys : OneKey(a, p) =>
         d.pw = p /\ d.agent = a /\ file[n].agent = a /\ loc[t].pw = p /\ loc[t].shared = a
  <2> SUFFICES ASSUME NEW a \in Keys, NEW p \in Keys, OneKey(a, p)
               PROVE  d.pw = p /\ d.agent = a /\ file[n].agent = a /\ loc[t].pw = p /\ loc[t].shared = a
    OBVIOUS
  <2>1. \A u \in Tasks : ~Adopting(u)
    <3> SUFFICES ASSUME NEW u \in Tasks, Adopting(u) PROVE FALSE
      OBVIOUS
    <3>1. Creates(u, 3, 16)
      BY Ranges DEF Adopting
    <3> QED
      BY <1>2, <3>1 DEF Safe, Alone
  <2> QED
    BY <1>2, <1>3, <1>6, <2>1 DEF OneKey
<1> HIDE DEF d
<1>11. Standing(t)'
  BY <1>1, <1>2, <1>5, <1>6, <1>8, <1>9 DEF Standing, Makes, Creates, SetsUp
<1>12. Holding(t)'
  BY <1>6, <1>9 DEF Holding, Makes, Creates, SetsUp
<1>13. Carrying(t)'
  BY <1>1, <1>2, <1>5, <1>6, <1>9 DEF Carrying, Awaiting, Makes, Creates, SetsUp
<1>14. session[t] = None
  BY <1>1, <1>2 DEF Carrying, Creates
<1>15. Showing(t)'
  BY <1>5, <1>14 DEF Showing
<1>16. /\ ~Creates(t, 1, 2)' /\ ~Makes(t, 6, 7) /\ ~Awaiting(t) /\ ~Creates(t, 3, 16)'
       /\ ~Creates(t, 1, 16)' /\ Makes(t, 7, 17)' /\ ~SetsUp(t, 6, 12)' /\ ~SetsUp(t, 6, 10)' /\ ~SetsUp(t, 6, 7)'
       /\ ~SetsUp(t, 6, 10)
  BY <1>1, <1>6, <1>9 DEF Makes, Creates, SetsUp, Awaiting
<1>17. Founded'
  BY <1>5, <1>8 DEF Safe, Founded
<1>18. Alone'
  BY <1>6, <1>16, AloneStays
<1>19. Shut'
  BY <1>5, <1>6, <1>9, <1>16, GentleKeeps, ShutStays
<1>20. Kept'
  BY <1>5, <1>6, <1>8, <1>16, GentleKeeps, KeptStays
<1>21. Recorded'
  BY <1>3, <1>5, <1>6, <1>7, <1>8, <1>16, RecordedGrows
<1>22. \E a, p \in Keys : OneKey(a, p)'
  <2>1. PICK a \in Keys, p \in Keys : OneKey(a, p)
    BY DEF Safe
  <2>2. \A o \in Objects : object'[o].data # None => object'[o].data = object[o].data
    BY <1>5 DEF Gentle
  <2>3. OneKey(a, p)'
    BY <1>2, <1>5, <1>6, <1>7, <1>10, <1>16, <2>1, <2>2, OneKeyMoves DEF Gentle
  <2> QED
    BY <2>3
<1>23. \A m \in Names : Reaches(m)'
  BY <1>5, <1>6, <1>16, ReachesStays
<1>24. \A u \in Tasks \ {t} : Standing(u)'
  <2>1. \A u \in Tasks \ {t} : Makes(u, 6, 7) => file'[loc[u].name] = None
    <3> SUFFICES ASSUME NEW u \in Tasks \ {t}, Makes(u, 6, 7) PROVE file'[loc[u].name] = None
      OBVIOUS
    <3>1. loc[u].name \in Names
      BY Ranges
    <3> QED
      BY <1>8, <3>1 DEF Safe, Each, Standing
  <2> QED
    BY <1>5, <1>6, <1>8, <2>1, StandingOthers
<1>25. \A u \in Tasks \ {t} : Holding(u)'
  BY <1>5, <1>6, GentleKeeps, HoldingOthers
<1>26. \A u \in Tasks \ {t} : Carrying(u)'
  BY <1>3, <1>5, <1>6, <1>7, CarryingOthers
<1>27. \A u \in Tasks \ {t} : Showing(u)'
  <2>1. file'[n].agent = file[n].agent
    BY <1>7, <1>10, <1>6 DEF Safe
  <2> QED
    BY <1>5, <1>6, <1>7, <2>1, ShowingOthers
<1>28. Each(t)'
  BY <1>11, <1>12, <1>13, <1>15 DEF Each
<1> QED
  BY <1>6, <1>17, <1>18, <1>19, <1>20, <1>21, <1>22, <1>23, <1>24, <1>25, <1>26, <1>27, <1>28,
     Assembled

\* The page that shows the keys, which no request's step is.
LEMMA PageSafe ==
    ASSUME TInv, TInv', Safe, NEW t \in Tasks, AgentPage(t)
    PROVE  Safe'
<1>1. /\ session[t] # None /\ session[t].recovery # None /\ LookUp
      /\ seen' = seen \cup {session[t].recovery}
      /\ session' = [session EXCEPT ![t] = Blank]
      /\ UNCHANGED <<disk, master, pending, signed, todo, loc, audited, crossed>>
  BY DEF AgentPage, Blank
<1>2. /\ UNCHANGED <<file, bundle, pointer, master, pending, signed, todo, loc, audited>>
      /\ Gentle /\ seen \subseteq seen' /\ Elsewhere(t)
  BY <1>1, LookUpGentle DEF disk, Elsewhere
<1>3. /\ session'[t] = Blank /\ \A u \in Tasks \ {t} : session'[u] = session[u]
      /\ Blank # None /\ Blank.recovery = None /\ Blank.agent = None /\ Blank' = Blank
  <2>1. session \in [Tasks -> Shows \cup {None}] /\ Blank \in Shows
    BY DEF TInv, Types, SharedTypes, Blank, Shows
  <2> QED
    BY <1>1, <2>1, KeyHandoverAssumption DEF Blank
<1>4. /\ loc'[t] = loc[t] /\ Pos(t)' = Pos(t) /\ (Going(t)' <=> Going(t))
      /\ \A k : IsA(t, k)' <=> IsA(t, k)
  BY <1>2 DEF Pos, Going, IsA
<1>5. /\ \A i, j : Creates(t, i, j)' <=> Creates(t, i, j)
      /\ \A i, j : SetsUp(t, i, j)' <=> SetsUp(t, i, j)
  BY <1>4 DEF Creates, SetsUp
<1>6. /\ \A i, j : Makes(t, i, j)' <=> Makes(t, i, j)
      /\ (Adopting(t)' <=> Adopting(t)) /\ (Awaiting(t)' <=> Awaiting(t))
      /\ (Forgetting(t)' <=> Forgetting(t))
  BY <1>4, <1>5 DEF Makes, Adopting, Awaiting, Forgetting
<1>7. Standing(t) /\ Holding(t) /\ Carrying(t)
  BY DEF Safe, Each
<1>8. Standing(t)'
  BY <1>2, <1>4, <1>5, <1>6, <1>7 DEF Standing
<1>9. Holding(t)'
  <2>1. /\ Makes(t, 5, 12) \/ Creates(t, 5, 16) => Makes(t, 5, 20)
        /\ Creates(t, 6, 16) \/ SetsUp(t, 6, 10) \/ SetsUp(t, 6, 7) => Makes(t, 5, 20)
        /\ Creates(t, 15, 16) => Makes(t, 5, 20)
    BY Ranges
  <2>2. /\ Makes(t, 5, 20) => object'[loc[t].v] = object[loc[t].v]
        /\ Creates(t, 5, 16) => vault' = vault
    BY <1>2, GentleKeeps
  <2> QED
    BY <1>4, <1>5, <1>6, <1>7, <2>1, <2>2 DEF Holding
<1>10. Carrying(t)'
  <2>1. /\ ~(SetsUp(t, 0, 13) \/ Creates(t, 0, 18))
        /\ ~(SetsUp(t, 13, 16) \/ Creates(t, 18, 20))
    BY <1>1, <1>3, <1>7 DEF Carrying
  <2>2. SetsUp(t, 16, 17) => t \in seen'
    BY <1>1, <1>2, <1>7 DEF Carrying
  <2> QED
    BY <1>2, <1>4, <1>5, <1>6, <1>7, <2>1, <2>2 DEF Carrying
<1>11. Showing(t)'
  <2>1. loc[t].name \in Names
    BY <1>1 DEF Safe, Each, Showing
  <2> QED
    BY <1>3, <1>4, <2>1 DEF Showing
<1>12. Founded'
  BY <1>2, FoundedStays
<1>13. Alone'
  BY <1>2, <1>5, AloneStays
<1>14. Shut'
  BY <1>2, <1>5, <1>6, GentleKeeps, ShutStays DEF Safe, Shut
<1>15. Recorded'
  <2>1. Creates(t, 16, 17)' => file[loc'[t].name].form = loc'[t].name
    BY <1>4, <1>5 DEF Safe, Recorded
  <2> QED
    BY <1>2, <1>4, <1>6, <2>1, RecordedStays
<1>16. \E a, p \in Keys : OneKey(a, p)'
  <2>1. PICK a \in Keys, p \in Keys : OneKey(a, p)
    BY DEF Safe
  <2>2. /\ Creates(t, 2, 20)' => loc'[t].shared = a
        /\ Creates(t, 1, 16)' \/ SetsUp(t, 6, 10)' => loc'[t].pw = p
        /\ SetsUp(t, 6, 7)' => a = t
        /\ \A o \in Objects : object'[o].data # None => object'[o].data = object[o].data
        /\ vault' = vault \/ object'[vault'].data = None
    BY <1>2, <1>4, <1>5, <2>1 DEF OneKey, Gentle
  <2>3. OneKey(a, p)'
    BY <1>2, <1>4, <1>6, <2>1, <2>2, OneKeyStays
  <2> QED
    BY <2>3
<1>17. \A n \in Names : Reaches(n)'
  <2>1. \A u \in Tasks : session[u] # None /\ session[u].recovery # None =>
          \/ session'[u] # None /\ session'[u].recovery = session[u].recovery
          \/ session[u].recovery \in seen'
    BY <1>1, <1>3
  <2> QED
    BY <1>2, <1>4, <1>6, <2>1, ReachesStays
<1>18. Each(t)'
  BY <1>8, <1>9, <1>10, <1>11 DEF Each
<1> QED
  BY <1>2, <1>3, <1>4, <1>6, <1>12, <1>13, <1>14, <1>15, <1>16, <1>17, <1>18, MildSafe

----------------------------------------------------------------------------
(* Locking                                                                 *)

\* No creation relies on the vault that is locked.
LEMMA LockSafe ==
    ASSUME TInv, TInv', Safe, NEW t \in Tasks, Lock(t), ~crossed'
    PROVE  Safe'
<1>1. /\ Going(t) /\ Pos(t) = 1 /\ ~IsA(t, "create") /\ ~IsA(t, "setup") /\ ~IsA(t, "use")
  BY Where DEF Lock, IsA
<1>2. /\ GetVault(None) /\ Proceed(t, loc[t])
      /\ Cross(t, LAMBDA u : \/ Between(u, "admit", "save_form")
                             \/ Between(u, "fresh", "install"))
      /\ UNCHANGED <<disk, master, pending, sessions, seen, audited>>
  BY DEF Lock
<1>3. UNCHANGED <<file, bundle, pointer, master, pending, session, signed, seen, audited>>
  BY <1>2 DEF disk, sessions
<1>4. /\ Current \in Objects /\ vault' = Current /\ object'[Current].data = None
      /\ \A o \in Objects : o \in InUse => object'[o].name = object[o].name
      /\ \A o \in Objects : o \in InUse /\ o # Current => object'[o] = object[o]
      /\ \A o \in Objects : o \notin InUse /\ o # Current =>
           object'[o].data = None \/ object'[o] = object[o]
  BY <1>2, GotVault
<1>5. \A o \in Objects : object'[o].data # None => object'[o] = object[o]
  BY <1>4
<1>6. /\ Elsewhere(t) /\ Pos(t)' = 2 /\ loc[t].name \in Names /\ loc'[t].name = loc[t].name
      /\ \A k : IsA(t, k)' <=> IsA(t, k)
  BY <1>1, <1>2, MovedOn
<1>7. /\ \A i, j : ~Creates(t, i, j) /\ ~SetsUp(t, i, j) /\ ~Makes(t, i, j)
      /\ ~Adopting(t) /\ ~Awaiting(t) /\ loc[t].recovery = None
  BY <1>1, BystanderIs
<1>8. /\ Each(t)'
      /\ \A i, j : ~Creates(t, i, j)' /\ ~SetsUp(t, i, j)' /\ ~Makes(t, i, j)'
      /\ ~Adopting(t)' /\ ~Awaiting(t)'
  BY <1>1, <1>6, BystanderEach
<1>9. \A u \in Tasks \ {t} : ~Creates(u, 1, 16) /\ ~SetsUp(u, 4, 10)
  <2>1. \A u \in Tasks \ {t} : ~Between(u, "admit", "save_form") /\ ~Between(u, "fresh", "install")
    BY <1>2 DEF Cross
  <2> QED
    BY <2>1, BetweenIs
<1>10. \A u \in Tasks \ {t} : /\ ~Creates(u, 1, 16) /\ ~SetsUp(u, 6, 10) /\ ~Creates(u, 1, 2)
                              /\ ~Creates(u, 5, 16) /\ ~Creates(u, 6, 16) /\ ~Creates(u, 15, 16)
                              /\ ~SetsUp(u, 6, 7)
  BY <1>9, Ranges
<1>11. Locked'
  BY <1>4 DEF Locked
<1>12. Founded'
  BY <1>3, FoundedStays
<1>13. Alone'
  BY <1>6, <1>8, AloneStays
<1>14. Shut'
  <2>1. \A u \in Tasks : ~Creates(u, 1, 16)' /\ ~SetsUp(u, 6, 10)' /\ ~Creates(u, 1, 2)'
    BY <1>6, <1>8, <1>10, OthersStay
  <2> QED
    BY <1>11, <2>1 DEF Shut
<1>15. Kept'
  BY <1>3, <1>5, <1>6, <1>7, KeptStays
<1>16. Recorded'
  BY <1>3, <1>6, <1>7, <1>8, RecordedStays
<1>17. \E a, p \in Keys : OneKey(a, p)'
  <2>1. PICK a \in Keys, p \in Keys : OneKey(a, p)
    BY DEF Safe
  <2>2. OneKey(a, p)'
    BY <1>3, <1>4, <1>5, <1>6, <1>7, <1>8, <2>1, OneKeyStays
  <2> QED
    BY <2>2
<1>18. \A n \in Names : Reaches(n)'
  BY <1>3, <1>6, <1>7, ReachesStays
<1>19. \A u \in Tasks \ {t} : Standing(u)'
  <2>1. \A u \in Tasks \ {t} : Makes(u, 6, 7) => file'[loc[u].name] = None
    BY <1>3 DEF Safe, Each, Standing
  <2> QED
    BY <1>3, <1>6, <2>1, StandingOthers
<1>20. \A u \in Tasks \ {t} : Holding(u)'
  BY <1>4, <1>6, <1>10, HoldingOthers
<1>21. \A u \in Tasks \ {t} : Carrying(u)'
  BY <1>3, <1>6, CarryingOthers
<1>22. \A u \in Tasks \ {t} : Showing(u)'
  BY <1>3, <1>6, ShowingOthers
<1> QED
  BY <1>8, <1>12, <1>13, <1>14, <1>15, <1>16, <1>17, <1>18, <1>19, <1>20, <1>21, <1>22, Assembled

\* No session that is closed has keys to show.
LEMMA ClearSafe ==
    ASSUME TInv, TInv', Safe, NEW t \in Tasks, ClearAllSessions(t), ~crossed'
    PROVE  Safe'
<1>1. /\ Going(t) /\ Pos(t) = 2 /\ ~IsA(t, "create") /\ ~IsA(t, "setup") /\ ~IsA(t, "use")
  BY Where DEF ClearAllSessions, IsA
<1>2. /\ session' = [u \in Tasks |-> None] /\ signed' = FALSE /\ Proceed(t, loc[t])
      /\ Cross(t, LAMBDA u : Unshown(u) \/ Between(u, "open_session", "show"))
      /\ UNCHANGED <<disk, memory, seen, audited>>
  BY DEF ClearAllSessions
<1>3. UNCHANGED <<file, bundle, pointer, vault, object, master, pending, seen, audited>> /\ Gentle
  BY <1>2, NoLookGentle DEF disk, memory
<1>4. /\ Elsewhere(t) /\ Pos(t)' = 3 /\ loc[t].name \in Names /\ loc'[t].name = loc[t].name
      /\ \A k : IsA(t, k)' <=> IsA(t, k)
  BY <1>1, <1>2, MovedOn
<1>5. /\ \A i, j : ~Creates(t, i, j) /\ ~SetsUp(t, i, j) /\ ~Makes(t, i, j)
      /\ ~Adopting(t) /\ ~Awaiting(t) /\ loc[t].recovery = None /\ session[t] = None
  BY <1>1, BystanderIs
<1>6. /\ Each(t)'
      /\ \A i, j : ~Creates(t, i, j)' /\ ~SetsUp(t, i, j)' /\ ~Makes(t, i, j)'
      /\ ~Adopting(t)' /\ ~Awaiting(t)'
  BY <1>1, <1>4, BystanderEach
<1>7. ASSUME NEW u \in Tasks \ {t}
      PROVE  /\ session[u] # None => session[u].recovery = None
             /\ ~Creates(u, 18, 20) /\ ~SetsUp(u, 13, 16)
  <2>1. ~Unshown(u) /\ ~Between(u, "open_session", "show")
    BY <1>2 DEF Cross
  <2>2. ~Creates(u, 18, 19) /\ ~SetsUp(u, 13, 16)
    BY <2>1, BetweenIs
  <2>3. ~Creates(u, 18, 20)
    <3>1. todo[u] \in Seq(StepNames)
      BY DEF TInv, Types
    <3>2. Going(u) /\ IsA(u, "create") => Pos(u) \in Int /\ Pos(u) < 20
      BY <3>1, Ends DEF Pos, Going, IsA
    <3> QED
      BY <2>2, <3>2 DEF Creates
  <2> QED
    BY <2>1, <2>2, <2>3 DEF Unshown
<1>8. Forgetting(t)' => Forgetting(t)
  BY <1>1, <1>4 DEF Forgetting
<1>9. Founded'
  BY <1>2, <1>3, FoundedStays
<1>10. Alone'
  BY <1>4, <1>6, AloneStays
<1>11. Shut'
  BY <1>3, <1>4, <1>5, <1>6, <1>8, GentleKeeps, ShutStays
<1>12. Recorded'
  BY <1>3, <1>4, <1>5, <1>6, RecordedStays
<1>13. \E a, p \in Keys : OneKey(a, p)'
  <2>1. PICK a \in Keys, p \in Keys : OneKey(a, p)
    BY DEF Safe
  <2>2. OneKey(a, p)'
    BY <1>3, <1>4, <1>5, <1>6, <2>1, OneKeyStays
  <2> QED
    BY <2>2
<1>14. \A n \in Names : Reaches(n)'
  <2>1. \A u \in Tasks : session[u] # None => session[u].recovery = None
    BY <1>5, <1>7
  <2> QED
    BY <1>3, <1>4, <1>5, <2>1, ReachesStays
<1>15. \A u \in Tasks \ {t} :
          \/ session'[u] = session[u]
          \/ /\ session'[u] = None /\ ~Creates(u, 18, 20) /\ ~SetsUp(u, 13, 16)
             /\ session[u] # None => session[u].recovery = None
  BY <1>2, <1>7
<1> QED
  BY <1>3, <1>4, <1>5, <1>6, <1>9, <1>10, <1>11, <1>12, <1>13, <1>14, <1>15, MildSafe

\* Nothing is decrypted when the password is forgotten.
LEMMA ForgetSafe ==
    ASSUME TInv, TInv', Safe, NEW t \in Tasks, Forget(t)
    PROVE  Safe'
<1>1. /\ Going(t) /\ Pos(t) = 3 /\ IsA(t, "lock") /\ ~IsA(t, "create") /\ ~IsA(t, "setup")
      /\ ~IsA(t, "use")
  BY Where DEF Forget, IsA
<1>2. /\ master' = None /\ Proceed(t, loc[t])
      /\ UNCHANGED <<disk, vault, object, pending, sessions, seen, audited>>
  BY DEF Forget
<1>3. /\ UNCHANGED <<file, bundle, pointer, vault, object, pending, session, signed, seen, audited>>
      /\ Gentle
  BY <1>2, NoLookGentle DEF disk, sessions
<1>4. /\ Elsewhere(t) /\ Pos(t)' = 4 /\ loc[t].name \in Names /\ loc'[t].name = loc[t].name
      /\ \A k : IsA(t, k)' <=> IsA(t, k)
  BY <1>1, <1>2, MovedOn
<1>5. /\ \A i, j : ~Creates(t, i, j) /\ ~SetsUp(t, i, j) /\ ~Makes(t, i, j)
      /\ ~Adopting(t) /\ ~Awaiting(t) /\ loc[t].recovery = None /\ session[t] = None
  BY <1>1, BystanderIs
<1>6. /\ Each(t)'
      /\ \A i, j : ~Creates(t, i, j)' /\ ~SetsUp(t, i, j)' /\ ~Makes(t, i, j)'
      /\ ~Adopting(t)' /\ ~Awaiting(t)'
  BY <1>1, <1>4, BystanderEach
<1>7. Locked /\ \A u \in Tasks : ~Creates(u, 1, 16) /\ ~SetsUp(u, 6, 10)
  <2>1. Forgetting(t)
    BY <1>1 DEF Forgetting
  <2> QED
    BY <2>1 DEF Safe, Shut
<1>8. Founded'
  BY <1>2, <1>3 DEF Safe, Founded
<1>9. Alone'
  BY <1>4, <1>6, AloneStays
<1>10. Shut'
  <2>1. Locked'
    BY <1>3, <1>7 DEF Locked
  <2>2. \A u \in Tasks : ~Creates(u, 1, 16)' /\ ~SetsUp(u, 6, 10)' /\ ~Creates(u, 1, 2)'
    <3>1. \A u \in Tasks : ~Creates(u, 1, 2)
      BY <1>7, Ranges
    <3> QED
      BY <1>4, <1>6, <1>7, <3>1, OthersStay
  <2> QED
    BY <2>1, <2>2 DEF Shut
<1>11. Recorded'
  BY <1>3, <1>4, <1>5, <1>6, RecordedStays
<1>12. \E a, p \in Keys : OneKey(a, p)'
  <2>1. PICK a \in Keys, p \in Keys : OneKey(a, p)
    BY DEF Safe
  <2>2. OneKey(a, p)'
    BY <1>2, <1>3, <1>4, <1>5, <1>6, <2>1, OneKeyStays
  <2> QED
    BY <2>2
<1>13. \A n \in Names : Reaches(n)'
  BY <1>3, <1>4, <1>5, ReachesStays
<1> QED
  BY <1>3, <1>4, <1>5, <1>6, <1>8, <1>9, <1>10, <1>11, <1>12, <1>13, MildSafe

----------------------------------------------------------------------------
(* What a reopening has read                                               *)

\* A step that its request takes with other locals, or that ends it.
Keeps(t) == \E l : l.kind = loc[t].kind /\ (Proceed(t, l) \/ Done(t))

\* Such a step does not make its request one that reopens a vault, unless it is of that kind.
LEMMA KindStays ==
    ASSUME TInv, NEW t \in Tasks, Keeps(t)
    PROVE  Elsewhere(t) /\ \A k : IsA(t, k)' <=> IsA(t, k)
<1>1. PICK l : l.kind = loc[t].kind /\ (Proceed(t, l) \/ Done(t))
  BY DEF Keeps
<1>2. /\ loc \in [Tasks -> Locals] /\ todo \in [Tasks -> Seq(StepNames)]
      /\ Dropped(loc[t]).kind = loc[t].kind
  BY LocalsDropped DEF TInv, Types
<1>3. PICK k, s : /\ k.kind = loc[t].kind
                  /\ loc' = [loc EXCEPT ![t] = k] /\ todo' = [todo EXCEPT ![t] = s]
  <2>1. CASE Done(t)
    BY <1>2, <2>1 DEF Done, Local, Dropped
  <2>2. CASE ~Done(t)
    BY <1>1, <2>2 DEF Proceed, Local
  <2> QED
    BY <2>1, <2>2
<1> QED
  BY <1>2, <1>3 DEF Elsewhere, IsA

\* The steps of the other kinds of request.
LEMMA OtherKinds ==
    ASSUME TInv, NEW t \in Tasks,
           \/ Fresh(t) \/ Admit(t) \/ CurrentSharedAgent(t) \/ Get(t) \/ Mint(t) \/ Save(t)
           \/ Adopt(t) \/ Unlock(t) \/ Install(t) \/ WriteRecoveryBundle(t) \/ Pend(t)
           \/ ConsumePendingRecoveryKey(t) \/ GetVaultData(t) \/ ApplyDefinitionForm(t)
           \/ SaveVault(t) \/ AdminAudit(t) \/ CreateSession(t) \/ Show(t)
           \/ Lock(t) \/ ClearAllSessions(t) \/ Forget(t)
    PROVE  Elsewhere(t) /\ ~Reopens(t)'
<1>1. loc[t] \in Locals
  BY DEF TInv, Types
<1>2. CASE Fresh(t) \/ Admit(t) \/ CurrentSharedAgent(t) \/ Get(t) \/ Mint(t)
  <2>1. ~IsA(t, "use")
    BY <1>2, Where DEF Fresh, Admit, CurrentSharedAgent, Get, Mint, Creator, IsA
  <2>2. Keeps(t)
    BY <1>1, <1>2 DEF Fresh, Admit, CurrentSharedAgent, Get, Mint, Locals, Keeps
  <2> QED
    BY <2>1, <2>2, KindStays DEF Reopens
<1>3. CASE Save(t) \/ Adopt(t) \/ Unlock(t) \/ Install(t) \/ WriteRecoveryBundle(t)
  <2>1. ~IsA(t, "use")
    BY <1>3, Where DEF Save, Adopt, Unlock, Install, WriteRecoveryBundle, Creator, IsA
  <2>2. Keeps(t)
    BY <1>1, <1>3 DEF Save, Adopt, Unlock, Install, WriteRecoveryBundle, Locals, Keeps
  <2> QED
    BY <2>1, <2>2, KindStays DEF Reopens
<1>4. CASE \/ Pend(t) \/ ConsumePendingRecoveryKey(t) \/ GetVaultData(t)
           \/ ApplyDefinitionForm(t) \/ SaveVault(t)
  <2>1. ~IsA(t, "use")
    BY <1>4, Where DEF Pend, ConsumePendingRecoveryKey, GetVaultData, ApplyDefinitionForm,
                       SaveVault, Creator, IsA
  <2>2. Keeps(t)
    BY <1>1, <1>4 DEF Pend, ConsumePendingRecoveryKey, GetVaultData, ApplyDefinitionForm,
                      SaveVault, Locals, Keeps
  <2> QED
    BY <2>1, <2>2, KindStays DEF Reopens
<1>5. CASE \/ AdminAudit(t) \/ CreateSession(t) \/ Show(t)
           \/ Lock(t) \/ ClearAllSessions(t) \/ Forget(t)
  <2>1. ~IsA(t, "use")
    BY <1>5, Where DEF AdminAudit, CreateSession, Show, Lock, ClearAllSessions, Forget, Creator, IsA
  <2>2. Keeps(t)
    BY <1>1, <1>5 DEF AdminAudit, CreateSession, Show, Lock, ClearAllSessions, Forget, Locals, Keeps
  <2> QED
    BY <2>1, <2>2, KindStays DEF Reopens
<1> QED
  BY <1>2, <1>3, <1>4, <1>5

\* What has been read stays the password in memory, if the step leaves that to the others.
LEMMA ReopenedStays ==
    ASSUME Reopened, NEW t \in Tasks, Elsewhere(t),
           \A u \in Tasks \ {t} : Reopens(u) => master' = master,
           Reopens(t)' => master' # None /\ loc'[t].pw = master'
    PROVE  Reopened'
<1> SUFFICES ASSUME NEW u \in Tasks, Reopens(u)' PROVE master' # None /\ loc'[u].pw = master'
  BY DEF Reopened
<1>1. CASE u # t
  <2>1. Reopens(u) /\ loc'[u] = loc[u]
    BY <1>1, OthersStay
  <2> QED
    BY <1>1, <2>1 DEF Reopened
<1> QED
  BY <1>1

\* A creation installs the one password, which is the one in memory if there is any.
LEMMA InstallReopened ==
    ASSUME TInv, Safe, Reopened, NEW t \in Tasks, Install(t) PROVE Reopened'
<1>1. Elsewhere(t) /\ ~Reopens(t)'
  BY OtherKinds
<1>2. Going(t) /\ Creator(t) /\ Pos(t) = 10 /\ master' = loc[t].pw
  BY Where DEF Install
<1>3. Creates(t, 1, 16) \/ SetsUp(t, 6, 10)
  BY <1>2 DEF Creator, Creates, SetsUp
<1>4. PICK a \in Keys, p \in Keys : OneKey(a, p)
  BY DEF Safe
<1>5. master' = p /\ master \in {p, None}
  BY <1>2, <1>3, <1>4 DEF OneKey
<1>6. \A u \in Tasks : Reopens(u) => master' = master
  BY <1>5 DEF Reopened
<1> QED
  BY <1>1, <1>6, ReopenedStays

\* A lock that forgets the password finds nobody who has read it.
LEMMA ForgetReopened ==
    ASSUME TInv, Reopened, NEW t \in Tasks, Forget(t), ~crossed' PROVE Reopened'
<1>1. Elsewhere(t) /\ ~Reopens(t)'
  BY OtherKinds
<1>2. \A u \in Tasks \ {t} : ~Reopens(u)
  BY BetweenIs DEF Forget, Cross
<1> QED
  BY <1>1, <1>2, ReopenedStays

\* The steps of a switch and of a reopening.
LEMMA UseReopened ==
    ASSUME TInv, Reopened, NEW t \in Tasks,
           Compare(t) \/ Point(t) \/ Reset(t) \/ Reopen(t) \/ Decrypt(t) \/ Restore(t)
    PROVE  Reopened'
<1>1. CASE Compare(t)
  <2>1. Going(t) /\ IsA(t, "use") /\ Pos(t) = 1 /\ loc[t].kind \in Kinds /\ UNCHANGED master
    BY <1>1, Where DEF Compare, memory
  <2>2. CASE Done(t)
    BY <2>1, <2>2, Ended, ReopenedStays DEF Reopens
  <2>3. CASE Proceed(t, loc[t])
    <3>1. Elsewhere(t) /\ Pos(t)' = 2
      BY <2>1, <2>3, MovedOn
    <3> QED
      BY <2>1, <3>1, ReopenedStays DEF Reopens
  <2>4. CASE todo' = [todo EXCEPT ![t] = <<"reopen", "decrypt", "restore">>] /\ UNCHANGED loc
    <3> DEFINE s == <<"reopen", "decrypt", "restore">>
    <3>1. s \in Seq(StepNames) /\ Len(s) = 3 /\ Len(s) \in 1..3 /\ PlanOf(loc[t].kind, s)
      BY <2>1, PlanJumps DEF IsA
    <3>2. todo' = [todo EXCEPT ![t] = s] /\ UNCHANGED loc
      BY <2>4
    <3> HIDE DEF s
    <3>3. Elsewhere(t) /\ Pos(t)' = End(loc[t].kind) - 3
      BY <2>1, <3>1, <3>2, JumpMoves
    <3>4. End(loc[t].kind) = 7
      BY <2>1, Ends DEF IsA
    <3> QED
      BY <2>1, <3>3, <3>4, ReopenedStays DEF Reopens
  <2> QED
    BY <1>1, <2>2, <2>3, <2>4 DEF Compare
<1>2. CASE Point(t) \/ Reset(t)
  <2>1. /\ Going(t) /\ Proceed(t, loc[t]) /\ UNCHANGED master
        /\ IsA(t, "create") \/ (IsA(t, "use") /\ Pos(t) \in {2, 3})
    BY <1>2, Where DEF Point, Reset, memory
  <2>2. Elsewhere(t) /\ Pos(t)' = Pos(t) + 1 /\ \A k : IsA(t, k)' <=> IsA(t, k)
    BY <2>1, MovedOn
  <2>3. ~Reopens(t)'
    BY <2>1, <2>2 DEF Reopens, IsA
  <2> QED
    BY <2>1, <2>2, <2>3, ReopenedStays
<1>3. CASE Reopen(t)
  <2>1. Going(t) /\ UNCHANGED master
    BY <1>3, Where DEF Reopen
  <2>2. CASE Done(t)
    BY <2>1, <2>2, Ended, ReopenedStays DEF Reopens
  <2>3. CASE ~Done(t)
    <3> DEFINE l == [loc[t] EXCEPT !.v = Current, !.pw = master]
    <3>1. Proceed(t, l) /\ master # None
      BY <1>3, <2>3 DEF Reopen
    <3>2. LookUp
      BY <1>3 DEF Reopen
    <3>3. Current \in Objects
      BY <3>2, LookUpGentle
    <3>4. l \in Locals /\ l.kind = loc[t].kind /\ l.name = loc[t].name /\ l.pw = master
      <4>1. loc[t] \in Locals /\ master \in Keyed
        BY DEF TInv, Types, SharedTypes
      <4> QED
        BY <3>3, <4>1 DEF Locals
    <3> HIDE DEF l
    <3>5. Elsewhere(t) /\ (Going(t)' => loc'[t] = l)
      BY <2>1, <3>1, <3>4, Moved
    <3> QED
      BY <2>1, <3>1, <3>4, <3>5, ReopenedStays DEF Reopens
  <2> QED
    BY <2>2, <2>3
<1>4. CASE Decrypt(t) \/ Restore(t)
  <2>1. Reopens(t) /\ Going(t)
    BY <1>4, Where DEF Decrypt, Restore, Reopens
  <2>2. UNCHANGED master
    BY <1>4, <2>1 DEF Decrypt, Restore, Reopened
  <2>3. CASE Done(t)
    BY <2>1, <2>2, <2>3, Ended, ReopenedStays DEF Reopens
  <2>4. CASE Proceed(t, loc[t])
    <3>1. Elsewhere(t) /\ (Going(t)' => loc'[t] = loc[t])
      BY <2>1, <2>4, MovedOn
    <3>2. Reopens(t)' => master' # None /\ loc'[t].pw = master'
      BY <2>1, <2>2, <3>1 DEF Reopens, Reopened
    <3> QED
      BY <2>2, <3>1, <3>2, ReopenedStays
  <2> QED
    BY <1>4, <2>3, <2>4 DEF Decrypt, Restore
<1> QED
  BY <1>1, <1>2, <1>3, <1>4

\* What has been read stays the password in memory if nobody moves, ...
LEMMA NobodyReopens == ASSUME Reopened, UNCHANGED <<master, todo, loc>> PROVE Reopened'
<1>1. \A u \in Tasks : Reopens(u)' <=> Reopens(u)
  BY DEF Reopens, IsA, Going, Pos
<1> QED
  BY <1>1 DEF Reopened

\* ... and through every step.
LEMMA StepReopened ==
    ASSUME TInv, Safe, Reopened, NEW t \in Tasks, ~crossed',
           \/ Request(t)
           \/ Fresh(t) \/ Admit(t) \/ CurrentSharedAgent(t)
           \/ Compare(t) \/ Point(t) \/ Reset(t) \/ Reopen(t) \/ Decrypt(t) \/ Restore(t)
           \/ Get(t) \/ Mint(t) \/ Save(t) \/ Adopt(t) \/ Unlock(t) \/ Install(t)
           \/ WriteRecoveryBundle(t) \/ Pend(t) \/ ConsumePendingRecoveryKey(t)
           \/ GetVaultData(t) \/ ApplyDefinitionForm(t) \/ SaveVault(t) \/ AdminAudit(t)
           \/ CreateSession(t) \/ Find(t) \/ Show(t) \/ AgentPage(t)
           \/ Lock(t) \/ ClearAllSessions(t) \/ Forget(t)
    PROVE  Reopened'
<1>1. CASE Request(t)
  <2>1. PICK k \in Kinds, n \in Names : Begin(t, k, n)
    BY <1>1 DEF Request
  <2>2. Elsewhere(t) /\ Pos(t)' = First(k) /\ loc'[t].kind = k
    BY <2>1, BeginMoves
  <2>3. UNCHANGED master
    BY <2>1 DEF Begin, memory
  <2>4. ~Reopens(t)'
    BY <2>2, Ends DEF Reopens, IsA
  <2> QED
    BY <2>2, <2>3, <2>4, ReopenedStays
<1>2. CASE Find(t)
  <2>1. /\ loc \in [Tasks -> Locals] /\ todo \in [Tasks -> Seq(StepNames)] /\ UNCHANGED master
        /\ ~IsA(t, "use")
    BY <1>2, Where DEF Find, memory, TInv, Types, IsA
  <2>2. CASE Proceed(t, loc[t])
    <3>1. Keeps(t)
      BY <2>2 DEF Keeps
    <3> QED
      BY <2>1, <3>1, KindStays, ReopenedStays DEF Reopens
  <2>3. CASE todo' = [todo EXCEPT ![t] = <<"audit">>] /\ UNCHANGED loc
    <3>1. Elsewhere(t) /\ ~IsA(t, "use")'
      BY <2>1, <2>3 DEF Elsewhere, IsA
    <3> QED
      BY <2>1, <3>1, ReopenedStays DEF Reopens
  <2> QED
    BY <1>2, <2>2, <2>3 DEF Find
<1>3. CASE AgentPage(t)
  BY <1>3, NobodyReopens DEF AgentPage
<1>4. CASE Install(t) \/ Forget(t)
  BY <1>4, InstallReopened, ForgetReopened
<1>5. CASE Compare(t) \/ Point(t) \/ Reset(t) \/ Reopen(t) \/ Decrypt(t) \/ Restore(t)
  BY <1>5, UseReopened
<1>6. CASE \/ Fresh(t) \/ Admit(t) \/ CurrentSharedAgent(t) \/ Get(t) \/ Mint(t) \/ Save(t)
           \/ Adopt(t) \/ Unlock(t) \/ WriteRecoveryBundle(t) \/ Pend(t)
  <2>1. UNCHANGED master
    BY <1>6 DEF Fresh, Admit, CurrentSharedAgent, Get, Mint, Save, Adopt, Unlock,
                WriteRecoveryBundle, Pend, memory
  <2> QED
    BY <1>6, <2>1, OtherKinds, ReopenedStays
<1>7. CASE \/ ConsumePendingRecoveryKey(t) \/ GetVaultData(t) \/ ApplyDefinitionForm(t)
           \/ SaveVault(t) \/ AdminAudit(t) \/ CreateSession(t) \/ Show(t)
           \/ Lock(t) \/ ClearAllSessions(t)
  <2>1. UNCHANGED master
    BY <1>7 DEF ConsumePendingRecoveryKey, GetVaultData, ApplyDefinitionForm, SaveVault,
                AdminAudit, CreateSession, Show, Lock, ClearAllSessions, memory
  <2> QED
    BY <1>7, <2>1, OtherKinds, ReopenedStays
<1> QED
  BY <1>1, <1>2, <1>3, <1>4, <1>5, <1>6, <1>7

----------------------------------------------------------------------------
(* The invariant, and what it shows                                        *)

\* The invariant holds at the start.
LEMMA CInit == Init => CInv
<1> SUFFICES ASSUME Init PROVE Safe /\ Reopened
  BY DEF CInv
<1>1. /\ Running \in Data /\ Running # None /\ Default \in Names /\ Old \in Keys /\ Old # None
      /\ Running.pw = Old /\ Running.agent = Old
  BY KeyHandoverAssumption DEF Running, Data, Keys
<1>2. PICK data \in {Running, None} :
        LET old == IF data = None THEN None ELSE Old IN
        /\ file = [n \in Names |-> IF n = Default THEN data ELSE None]
        /\ bundle = [n \in Names |-> IF n = Default THEN old ELSE None]
        /\ vault = 1
        /\ object = [o \in Objects |-> IF o = 1 THEN [Unborn EXCEPT !.data = data] ELSE Unborn]
        /\ master = old
        /\ signed = (data # None)
        /\ audited = IF data = None THEN {} ELSE {Default}
  BY DEF Init
<1>3. /\ pointer = Default /\ pending = None /\ session = [t \in Tasks |-> None]
      /\ todo = [t \in Tasks |-> <<>>] /\ seen = {Old}
  BY DEF Init
<1>4. \A t \in Tasks :
        /\ ~Going(t) /\ ~Adopting(t) /\ ~Awaiting(t) /\ ~Forgetting(t) /\ session[t] = None
        /\ \A i, j : ~Creates(t, i, j) /\ ~SetsUp(t, i, j) /\ ~Makes(t, i, j)
  BY <1>3 DEF Going, Adopting, Awaiting, Forgetting, Creates, SetsUp, Makes
<1>5. /\ \A n \in Names : n # Default => file[n] = None /\ bundle[n] = None
      /\ data = None => file[Default] = None /\ bundle[Default] = None /\ master = None
      /\ data # None => file[Default] = Running /\ bundle[Default] = Old /\ master = Old
      /\ signed => data # None
      /\ \A n \in audited : n = Default /\ data # None
      /\ data # None => Default \in audited
  BY <1>1, <1>2
<1>6. \A o \in Objects : object[o].data # None =>
        object[o].name = Default /\ object[o].data = data /\ data # None
  BY <1>2 DEF Unborn
<1>7. 1 \in Objects /\ object[1].data = data /\ vault = 1
  <2>1. Cardinality(Tasks) \in Nat
    BY KeyHandoverAssumption, FS_CardinalityType
  <2>2. 1 \in Objects
    BY <2>1 DEF Objects
  <2> QED
    BY <1>2, <2>2 DEF Unborn
<1>8. Founded
  BY <1>1, <1>3, <1>5 DEF Founded
<1>9. Alone
  BY <1>4 DEF Alone
<1>10. Shut
  BY <1>1, <1>2, <1>4, <1>5, <1>7 DEF Shut, Locked
<1>11. Kept
  BY <1>1, <1>5, <1>6 DEF Kept
<1>12. Recorded
  BY <1>1, <1>4, <1>5 DEF Recorded
<1>13. \A t \in Tasks : Each(t)
  BY <1>4 DEF Each, Standing, Holding, Carrying, Showing
<1>14. OneKey(Old, Old)
  BY <1>1, <1>2, <1>4, <1>5, <1>6 DEF OneKey
<1>15. \A n \in Names : Reaches(n)
  BY <1>3, <1>5 DEF Reaches
<1>16. Reopened
  BY <1>4 DEF Reopened, Reopens
<1> QED
  BY <1>1, <1>8, <1>9, <1>10, <1>11, <1>12, <1>13, <1>14, <1>15, <1>16 DEF Safe

\* A step that changes nothing keeps the invariant.
LEMMA Unmoved == ASSUME Safe, UNCHANGED vars PROVE Safe'
<1>1. /\ UNCHANGED <<file, bundle, pointer, vault, object, master, pending, session, signed, todo, loc>>
      /\ UNCHANGED <<seen, audited, crossed>>
  BY DEF vars, disk, memory, sessions, history
<1>2. \A t : /\ Pos(t)' = Pos(t) /\ (Going(t)' <=> Going(t))
             /\ \A k : IsA(t, k)' <=> IsA(t, k)
  BY <1>1 DEF Pos, Going, IsA
<1>3. \A t : /\ \A i, j : Creates(t, i, j)' <=> Creates(t, i, j)
             /\ \A i, j : SetsUp(t, i, j)' <=> SetsUp(t, i, j)
  BY <1>2 DEF Creates, SetsUp
<1>4. \A t : /\ \A i, j : Makes(t, i, j)' <=> Makes(t, i, j)
             /\ (Adopting(t)' <=> Adopting(t)) /\ (Awaiting(t)' <=> Awaiting(t))
             /\ (Forgetting(t)' <=> Forgetting(t))
  BY <1>2, <1>3 DEF Makes, Adopting, Awaiting, Forgetting
<1>5. Founded'
  BY <1>1 DEF Safe, Founded
<1>6. Alone'
  BY <1>3 DEF Safe, Alone
<1>7. Shut'
  <2>1. (Locked' <=> Locked) /\ (Cached' <=> Cached)
    BY <1>1 DEF Locked, Cached
  <2> QED
    BY <1>1, <1>3, <1>4, <2>1 DEF Safe, Shut
<1>8. Kept'
  BY <1>1, <1>4 DEF Safe, Kept
<1>9. Recorded'
  <2>1. Recorded
    BY DEF Safe
  <2> QED
    BY <1>1, <1>3, <1>4, <2>1 DEF Recorded
<1>10. (\A t \in Tasks : Each(t))'
  <2> SUFFICES ASSUME NEW t \in Tasks PROVE Each(t)'
    OBVIOUS
  <2>1. Standing(t) /\ Holding(t) /\ Carrying(t) /\ Showing(t)
    BY DEF Safe, Each
  <2>2. Standing(t)'
    BY <1>1, <1>2, <1>3, <1>4, <2>1 DEF Standing
  <2>3. Holding(t)'
    BY <1>1, <1>2, <1>3, <1>4, <2>1 DEF Holding
  <2>4. Carrying(t)'
    BY <1>1, <1>2, <1>3, <1>4, <2>1 DEF Carrying, Blank
  <2>5. Showing(t)'
    BY <1>1, <2>1 DEF Showing
  <2> QED
    BY <2>2, <2>3, <2>4, <2>5 DEF Each
<1>11. (\E a, p \in Keys : OneKey(a, p))'
  <2>1. PICK a \in Keys, p \in Keys : OneKey(a, p)
    BY DEF Safe
  <2>2. OneKey(a, p)'
    BY <1>1, <1>3, <1>4, <2>1 DEF OneKey
  <2> QED
    BY <2>2
<1>12. (\A n \in Names : Reaches(n))'
  BY <1>1, <1>2, <1>4 DEF Safe, Reaches
<1> QED
  BY <1>5, <1>6, <1>7, <1>8, <1>9, <1>10, <1>11, <1>12 DEF Safe

\* Every step keeps the invariant.
LEMMA CNext == TInv /\ TInv' /\ CInv /\ [Next]_vars => CInv'
<1> SUFFICES ASSUME TInv, TInv', CInv, [Next]_vars, ~crossed' PROVE Safe' /\ Reopened'
  BY DEF CInv
<1>1. CASE UNCHANGED vars
  <2>1. Safe /\ Reopened /\ UNCHANGED <<master, todo, loc>>
    BY <1>1 DEF CInv, vars, history, memory
  <2> QED
    BY <1>1, <2>1, Unmoved, NobodyReopens
<1>2. CASE Next
  <2>1. PICK t \in Tasks :
        \/ Request(t)
        \/ Fresh(t) \/ Admit(t) \/ CurrentSharedAgent(t)
        \/ Compare(t) \/ Point(t) \/ Reset(t) \/ Reopen(t) \/ Decrypt(t) \/ Restore(t)
        \/ Get(t) \/ Mint(t) \/ Save(t) \/ Adopt(t) \/ Unlock(t) \/ Install(t)
        \/ WriteRecoveryBundle(t) \/ Pend(t) \/ ConsumePendingRecoveryKey(t)
        \/ GetVaultData(t) \/ ApplyDefinitionForm(t) \/ SaveVault(t) \/ AdminAudit(t)
        \/ CreateSession(t) \/ Find(t) \/ Show(t) \/ AgentPage(t)
        \/ Lock(t) \/ ClearAllSessions(t) \/ Forget(t)
    BY <1>2 DEF Next
  <2>2. CASE Request(t) \/ Fresh(t) \/ Admit(t) \/ Compare(t) \/ Get(t)
    <3>1. UNCHANGED history
      <4>1. CASE Request(t)
        BY <4>1 DEF Request, Begin
      <4>2. CASE Fresh(t)
        BY <4>2 DEF Fresh
      <4>3. CASE Admit(t)
        BY <4>3 DEF Admit
      <4>4. CASE Compare(t)
        BY <4>4 DEF Compare
      <4>5. CASE Get(t)
        BY <4>5 DEF Get
      <4> QED
        BY <2>2, <4>1, <4>2, <4>3, <4>4, <4>5
    <3>2. Safe /\ Reopened
      BY <3>1 DEF CInv, history
    <3> QED
      BY <2>2, <3>2, RequestSafe, FreshSafe, AdmitSafe, CompareSafe, GetSafe, StepReopened
  <2>3. CASE CurrentSharedAgent(t) \/ Point(t) \/ Reset(t) \/ Decrypt(t) \/ Mint(t)
    <3>1. Safe /\ Reopened
      BY <2>3 DEF CInv, CurrentSharedAgent, Point, Reset, Decrypt, Mint, Cross
    <3> QED
      BY <2>3, <3>1, SharedSafe, PointSafe, ResetSafe, DecryptSafe, MintSafe, StepReopened
  <2>4. CASE Save(t) \/ Adopt(t) \/ Unlock(t) \/ Install(t) \/ WriteRecoveryBundle(t)
    <3>1. Safe /\ Reopened
      BY <2>4 DEF CInv, Save, Adopt, Unlock, Install, WriteRecoveryBundle, history
    <3> QED
      BY <2>4, <3>1, SaveSafe, AdoptSafe, UnlockSafe, InstallSafe, BundleSafe, StepReopened
  <2>5. CASE Pend(t) \/ ConsumePendingRecoveryKey(t) \/ Lock(t) \/ ClearAllSessions(t) \/ Forget(t)
    <3>1. Safe /\ Reopened
      BY <2>5 DEF CInv, Pend, ConsumePendingRecoveryKey, Lock, ClearAllSessions, Forget, Cross
    <3> QED
      BY <2>5, <3>1, PendSafe, ConsumeSafe, LockSafe, ClearSafe, ForgetSafe, StepReopened
  <2>6. CASE GetVaultData(t) \/ ApplyDefinitionForm(t) \/ SaveVault(t) \/ AdminAudit(t)
    <3>1. Safe /\ Reopened
      BY <2>6 DEF CInv, GetVaultData, ApplyDefinitionForm, SaveVault, AdminAudit, history
    <3> QED
      BY <2>6, <3>1, DataSafe, ApplySafe, SaveVaultSafe, AuditSafe, StepReopened
  <2>7. CASE CreateSession(t) \/ Find(t) \/ Show(t) \/ AgentPage(t)
    <3>1. Safe /\ Reopened
      BY <2>7 DEF CInv, CreateSession, Find, Show, AgentPage, history
    <3> QED
      BY <2>7, <3>1, OpenSessionSafe, FindSafe, ShowSafe, PageSafe, StepReopened
  <2>8. CASE Reopen(t) \/ Restore(t)
    <3>1. Safe /\ Reopened
      BY <2>8 DEF CInv, Reopen, Restore, history
    <3> QED
      BY <2>8, <3>1, ReopenSafe, RestoreSafe, StepReopened
  <2> QED
    BY <2>1, <2>2, <2>3, <2>4, <2>5, <2>6, <2>7, <2>8
<1> QED
  BY <1>1, <1>2

\* The two invariants hold throughout.
LEMMA SpecSafe == Spec => [](TInv /\ CInv)
<1>1. Init => TInv /\ CInv
  BY TInit, CInit
<1>2. TInv /\ CInv /\ [Next]_vars => (TInv /\ CInv)'
  BY TNext, CNext
<1> QED
  BY <1>1, <1>2, PTL DEF Spec

\* A request that makes its definition is one of those that create.
LEMMA MakersCreate ==
    ASSUME TInv, NEW t \in Tasks
    PROVE  /\ \A i, j : Creates(t, i, j) \/ SetsUp(t, i, j) \/ Makes(t, i, j) => t \in Creating
           /\ Adopting(t) \/ Awaiting(t) => t \in Creating
BY DEF Creating, Creates, SetsUp, Makes, Adopting, Awaiting, Going, IsA

\* The invariant knows where every recovery key is.
LEMMA SafeKeyIsNotLost == TInv /\ CInv => KeyIsNotLost
<1> SUFFICES ASSUME TInv, Safe, NEW n \in Names, bundle[n] # None
             PROVE  \/ bundle[n] \in seen
                    \/ \E t \in Tasks : \/ loc[t].recovery = bundle[n] /\ todo[t] # <<>>
                                        \/ session[t] # None /\ session[t].recovery = bundle[n]
                    \/ bundle[n] = pending /\ \E t \in Creating : Between(t, "pend", "consume")
  BY DEF CInv, KeyIsNotLost
<1>1. CASE bundle[n] = pending /\ \E t \in Tasks : Awaiting(t)
  <2>1. PICK t \in Tasks : Awaiting(t)
    BY <1>1
  <2>2. t \in Creating /\ Between(t, "pend", "consume")
    BY <2>1, MakersCreate, BetweenIs DEF Awaiting
  <2> QED
    BY <1>1, <2>2
<1> QED
  BY <1>1 DEF Safe, Reaches, Going

\* The invariant knows what every session is to show.
LEMMA SafeShownKeysFit == CInv => ShownKeysFit
BY DEF CInv, Safe, Each, Showing, ShownKeysFit

\* The invariant names the one agent key.
LEMMA SafeOneAgentKey == TInv /\ CInv => OneAgentKey
<1> SUFFICES ASSUME TInv, Safe, NEW m \in Existing, NEW n \in Existing, ~UnderWay(m), ~UnderWay(n)
             PROVE  file[m].agent = file[n].agent
  BY DEF CInv, OneAgentKey
<1>1. PICK a \in Keys, p \in Keys : OneKey(a, p)
  BY DEF Safe
<1>2. ASSUME NEW k \in Existing, ~UnderWay(k) PROVE file[k].agent = a
  <2>1. \A t \in Tasks : ~(Adopting(t) /\ loc[t].name = k)
    BY <1>2, MakersCreate DEF UnderWay
  <2> QED
    BY <1>1, <2>1 DEF OneKey, Existing
<1> QED
  BY <1>2

\* The invariant names the one password.
LEMMA SafeMemoryFits == TInv /\ CInv => MemoryFits
<1> SUFFICES ASSUME TInv, Safe, Creating = {}
             PROVE  /\ master # None => \A n \in Existing : file[n].pw = master
                    /\ master = None => vault = None \/ object[vault].data = None
  BY DEF CInv, MemoryFits, PasswordFits
<1>1. PICK a \in Keys, p \in Keys : OneKey(a, p)
  BY DEF Safe
<1>2. master # None => \A n \in Existing : file[n].pw = master
  BY <1>1 DEF OneKey, Existing
<1>3. \A t \in Tasks : ~SetsUp(t, 6, 10)
  BY MakersCreate
<1> QED
  BY <1>2, <1>3 DEF Safe, Shut, Locked

\* The invariant knows which definitions still lack their event.
LEMMA SafeAuditFailsOnlySo == TInv /\ CInv => AuditFailsOnlySo
<1> SUFFICES ASSUME TInv, Safe, NEW n \in Names, ~UnderWay(n)
             PROVE  /\ n \in audited <=> file[n] # None
                    /\ n \in audited \ {Default} => file[n].form = n
  BY DEF CInv, AuditFailsOnlySo, CreationIsAudited
<1>1. \A t \in Tasks : ~(loc[t].name = n /\ Makes(t, 7, 17))
  BY MakersCreate DEF UnderWay
<1> QED
  BY <1>1 DEF Safe, Recorded, Founded

\* However many definitions are created, switched, opened and locked beside each other, the
\* recovery key of every bundle was shown or can still be, unless two requests met where
\* they can harm each other.
THEOREM SpecKeyIsNotLost == Spec => []KeyIsNotLost
  BY SpecSafe, SafeKeyIsNotLost, PTL

\* The keys that a session is about to show open the definition its request created, unless
\* two requests met where they can harm each other.
THEOREM SpecShownKeysFit == Spec => []ShownKeysFit
  BY SpecSafe, SafeShownKeysFit, PTL

\* All definitions whose creation is over have the same agent key, unless two requests met
\* where they can harm each other.
THEOREM SpecOneAgentKey == Spec => []OneAgentKey
  BY SpecSafe, SafeOneAgentKey, PTL

\* While nothing is being created, the password in memory opens every definition and
\* without one nothing is decrypted in the cache, unless two requests met where they can
\* harm each other: a lock beside a request that reopens a vault is one such meeting.
THEOREM SpecMemoryFits == Spec => []MemoryFits
  BY SpecSafe, SafeMemoryFits, PTL

\* Every definition whose creation is over has its event in the audit log and holds the
\* form it was created with, unless two requests met where they can harm each other.
THEOREM SpecAuditFailsOnlySo == Spec => []AuditFailsOnlySo
  BY SpecSafe, SafeAuditFailsOnlySo, PTL
====
