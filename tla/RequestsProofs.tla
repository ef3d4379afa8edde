--------------------------- MODULE RequestsProofs ---------------------------
(***************************************************************************)
(* Proofs about Requests for any number of agents, admin handlers,         *)
(* definitions and requests under way at a time.                           *)
(*                                                                         *)
(* The steps a thread has left are a suffix of a handler's plan, with the  *)
(* steps of a switch in front of it where ensure_profile_active found      *)
(* another definition active.  What the proofs need of them is which step  *)
(* may follow which (Follows), and three facts about their order (Ordered).*)
(***************************************************************************)
EXTENDS Requests, FiniteSetTheorems, SequenceTheorems, TLAPS

Follows == {
    <<"enter", "path">>, <<"enter", "compare">>, <<"leave", "enter">>,
    <<"path", "settle">>, <<"settle", "take">>,
    <<"take", "unlock">>, <<"take", "data">>, <<"take", "is_unlocked">>, <<"take", "policy">>,
    <<"take", "save">>,
    <<"unlock", "path">>, <<"data", "leave">>, <<"data", "target">>, <<"data", "edit">>,
    <<"compare", "path">>, <<"exists", "point">>, <<"point", "reset">>, <<"reset", "path">>,
    <<"target", "path">>, <<"is_unlocked", "path">>, <<"policy", "act">>, <<"act", "leave">>,
    <<"edit", "path">>, <<"check_active", "archive">>}

\* The steps up to the one that makes a definition active, those that may come before
\* them, and those that come after an edit.
Early == {"compare", "exists", "point"}
BeforeEarly == {"enter", "path", "settle", "take", "unlock", "data", "leave", "exists"}
AfterEdit == {"path", "settle", "take", "save"}

Chained(s) == \A i \in 1..Len(s) : i + 1 \in 1..Len(s) => <<s[i], s[i + 1]>> \in Follows

Ordered(s) ==
    \A i, j \in 1..Len(s) : i < j =>
        /\ s[j] \in Early \cup {"enter"} => s[i] \in BeforeEarly
        /\ s[i] = "act" => s[j] = "leave"
        /\ s[i] = "edit" => s[j] \in AfterEdit

Plans == {s \in Seq(StepNames) : Chained(s) /\ Ordered(s)}

Has(s, step) == \E i \in 1..Len(s) : s[i] = step

AdminSteps == {"path", "settle", "take", "unlock", "data", "compare", "exists", "point", "reset",
               "edit", "save", "check_active", "archive"}
AgentSteps == {"enter", "leave", "path", "settle", "take", "unlock", "data", "compare", "exists",
               "point", "reset", "target", "is_unlocked", "policy", "act"}

StepsOf(t) == IF t \in Admins THEN AdminSteps ELSE AgentSteps

----------------------------------------------------------------------------
(* Types, and what the steps of a handler rely on                          *)

Locals == [asked : Names \cup {None}, form : Forms \cup {None},
           path : Names \cup {None}, v : Objects \cup {None},
           d : Objects \cup {None}, target : Names \cup {None}, policy : Names \cup {None}]

Types ==
    /\ file \in [Names -> Forms \cup {None}]
    /\ pointer \in Names
    /\ vault \in Objects \cup {None}
    /\ object \in [Objects -> [name : Names, form : Forms \cup {None}]]
    /\ todo \in [Threads -> Plans]
    /\ loc \in [Threads -> Locals]
    /\ loop \in Agents \cup {None}
    /\ latest \in [Names -> Forms]
    /\ crossed \in BOOLEAN /\ raced \subseteq Names /\ calls \in 0..MaxCalls

UsesVault == {"unlock", "data", "is_unlocked", "policy", "save"}
UsesData == {"target", "edit"}

Ahead(t, steps) == todo[t] # <<>> /\ Head(todo[t]) \in steps

\* What a thread was given last until the step that uses it, of its own steps and locals.
Ready(t) ==
    LET s == todo[t]
        l == loc[t]
    IN  /\ \A x \in StepNames : Has(s, x) => x \in StepsOf(t)
        /\ s # <<>> => l.asked \in Names
        /\ At(t, "settle") => l.path \in Names
        /\ Ahead(t, UsesVault) => l.v \in Objects
        /\ Ahead(t, UsesData) => l.d \in Objects
        /\ Has(s, "enter") => Has(s, "compare")
        /\ Has(s, "edit") => l.form \in Forms
        /\ Has(s, "act") => Has(s, "target") \/ l.target # None
        /\ l.target # None => t \in Agents /\ \A x \in Early : ~Has(s, x)
        /\ Has(s, "save") => Has(s, "edit") \/ \A x \in StepNames : Has(s, x) => x \in AfterEdit

\* An agent call that has entered the event loop and not left it is the one running there.
OnLoop(t) == t \in Agents /\ todo[t] # <<>> /\ ~At(t, "enter") => loop = t

TInv == Types /\ \A t \in Threads : Ready(t) /\ OnLoop(t)

----------------------------------------------------------------------------
(* Requests that nothing has crossed                                       *)

\* A request that has made its definition the active one, or found it active.
Late(t) == todo[t] # <<>> /\ \A x \in Early \cup {"check_active", "archive"} : ~Has(todo[t], x)

\* The cached object is one of the active definition.
VaultIsActive == vault \in Objects /\ object[vault].name = pointer

Straight(t) ==
    /\ At(t, "settle") => loc[t].path = pointer
    /\ At(t, "take") => VaultIsActive
    /\ Late(t) => pointer = loc[t].asked
    /\ Late(t) /\ Ahead(t, UsesVault) => VaultIsActive /\ loc[t].v = vault
    /\ Late(t) /\ Ahead(t, UsesData) => VaultIsActive /\ loc[t].d = vault
    /\ t \in Agents => loc[t].target \in {loc[t].asked, None}
    /\ t \in Agents => loc[t].policy \in {loc[t].asked, None}
    /\ Late(t) /\ Has(todo[t], "save") /\ ~Has(todo[t], "edit") =>
        VaultIsActive /\ object[vault].form = latest[pointer]

CInv == ~crossed => \A t \in Threads : Straight(t)

----------------------------------------------------------------------------
(* The steps that follow a step                                            *)

\* What is left of a plan after its first step.
LEMMA PlanTail ==
    ASSUME NEW s \in Plans, s # <<>>
    PROVE  /\ Tail(s) \in Plans
           /\ Head(s) \in StepNames
           /\ \A x : Has(s, x) <=> x = Head(s) \/ Has(Tail(s), x)
           /\ Tail(s) # <<>> => <<Head(s), Head(Tail(s))>> \in Follows
           /\ \A x \in Early \cup {"enter"} : Has(Tail(s), x) => Head(s) \in BeforeEarly
           /\ Head(s) = "act" => \A x : Has(Tail(s), x) => x = "leave"
           /\ Head(s) = "edit" => \A x : Has(Tail(s), x) => x \in AfterEdit
<1>1. /\ s \in Seq(StepNames) /\ Len(s) \in Nat /\ Len(s) >= 1
      /\ Chained(s) /\ Ordered(s) /\ Head(s) = s[1] /\ Head(s) \in StepNames
      /\ \A i \in 1..Len(s) : s[i] \in StepNames
  BY DEF Plans
<1>2. /\ Tail(s) \in Seq(StepNames) /\ Len(Tail(s)) = Len(s) - 1
      /\ \A i \in 1..Len(Tail(s)) : Tail(s)[i] = s[i + 1] /\ i + 1 \in 1..Len(s)
  BY <1>1
<1>3. Chained(Tail(s))
  BY <1>1, <1>2 DEF Chained
<1>4. Ordered(Tail(s))
  <2> SUFFICES ASSUME NEW i \in 1..Len(Tail(s)), NEW j \in 1..Len(Tail(s)), i < j
               PROVE  /\ Tail(s)[j] \in Early \cup {"enter"} => Tail(s)[i] \in BeforeEarly
                      /\ Tail(s)[i] = "act" => Tail(s)[j] = "leave"
                      /\ Tail(s)[i] = "edit" => Tail(s)[j] \in AfterEdit
    BY DEF Ordered
  <2>1. i + 1 \in 1..Len(s) /\ j + 1 \in 1..Len(s) /\ i + 1 < j + 1
    BY <1>1, <1>2
  <2> QED
    BY <1>1, <1>2, <2>1 DEF Ordered
<1>5. ASSUME NEW x PROVE Has(s, x) <=> x = Head(s) \/ Has(Tail(s), x)
  <2>1. ASSUME NEW i \in 1..Len(s), s[i] = x PROVE x = Head(s) \/ Has(Tail(s), x)
    <3>1. CASE i = 1
      BY <1>1, <2>1, <3>1
    <3>2. CASE i # 1
      <4>1. i - 1 \in 1..Len(Tail(s)) /\ (i - 1) + 1 = i
        BY <1>1, <1>2, <3>2
      <4> QED
        BY <1>2, <2>1, <4>1 DEF Has
    <3> QED
      BY <3>1, <3>2
  <2>2. ASSUME NEW i \in 1..Len(Tail(s)), Tail(s)[i] = x PROVE Has(s, x)
    BY <1>2, <2>2 DEF Has
  <2>3. x = Head(s) => Has(s, x)
    BY <1>1 DEF Has
  <2> QED
    BY <2>1, <2>2, <2>3 DEF Has
<1>6. Tail(s) # <<>> => <<Head(s), Head(Tail(s))>> \in Follows
  <2> SUFFICES ASSUME Tail(s) # <<>> PROVE <<Head(s), Head(Tail(s))>> \in Follows
    OBVIOUS
  <2>1. 1 \in 1..Len(Tail(s)) /\ 1 \in 1..Len(s) /\ 1 + 1 \in 1..Len(s)
    BY <1>1, <1>2
  <2>2. Head(Tail(s)) = s[1 + 1]
    BY <1>2, <2>1
  <2> QED
    BY <1>1, <2>1, <2>2 DEF Chained
<1>7. ASSUME NEW x, Has(Tail(s), x)
      PROVE  /\ x \in Early \cup {"enter"} => Head(s) \in BeforeEarly
             /\ Head(s) = "act" => x = "leave"
             /\ Head(s) = "edit" => x \in AfterEdit
  <2>1. PICK i \in 1..Len(Tail(s)) : Tail(s)[i] = x
    BY <1>7 DEF Has
  <2>2. 1 \in 1..Len(s) /\ i + 1 \in 1..Len(s) /\ 1 < i + 1
    BY <1>1, <1>2
  <2> QED
    BY <1>1, <1>2, <2>1, <2>2 DEF Ordered
<1>8. Tail(s) \in Plans
  BY <1>2, <1>3, <1>4 DEF Plans
<1> QED
  BY <1>1, <1>5, <1>6, <1>7, <1>8

\* A plan, its first and its last step, and all of its steps.
Piece(p, first, last, steps) ==
    /\ p \in Plans /\ p # <<>>
    /\ Head(p) = first /\ p[Len(p)] = last
    /\ \A x : Has(p, x) <=> x \in steps

\* Steps in a row are a plan where the parts meet and nothing comes too early.
LEMMA Join ==
    ASSUME NEW p, NEW q, NEW first, NEW last, NEW next, NEW end, NEW S, NEW T,
           Piece(p, first, last, S), Piece(q, next, end, T), <<last, next>> \in Follows,
           \A x \in S : \A y \in T : /\ y \in Early \cup {"enter"} => x \in BeforeEarly
                                     /\ x = "act" => y = "leave"
                                     /\ x = "edit" => y \in AfterEdit
    PROVE  Piece(p \o q, first, end, S \cup T)
<1> DEFINE r == p \o q
<1>1. /\ p \in Seq(StepNames) /\ Len(p) \in Nat /\ Len(p) >= 1 /\ Chained(p) /\ Ordered(p)
      /\ q \in Seq(StepNames) /\ Len(q) \in Nat /\ Len(q) >= 1 /\ Chained(q) /\ Ordered(q)
      /\ p[1] = first /\ p[Len(p)] = last /\ q[1] = next /\ q[Len(q)] = end
  BY DEF Piece, Plans
<1>2. /\ r \in Seq(StepNames) /\ Len(r) = Len(p) + Len(q)
      /\ \A i \in 1..Len(p) : r[i] = p[i]
      /\ \A i \in 1..Len(q) : r[i + Len(p)] = q[i]
  BY <1>1
<1>3. ASSUME NEW i \in 1..Len(r)
      PROVE  \/ i \in 1..Len(p) /\ r[i] = p[i]
             \/ i - Len(p) \in 1..Len(q) /\ r[i] = q[i - Len(p)]
  <2>1. CASE i > Len(p)
    <3>1. i - Len(p) \in 1..Len(q) /\ (i - Len(p)) + Len(p) = i
      BY <1>1, <1>2, <2>1
    <3> QED
      BY <1>2, <3>1
  <2> QED
    BY <1>1, <1>2, <2>1
<1> HIDE DEF r
<1>4. Chained(r)
  <2> SUFFICES ASSUME NEW i \in 1..Len(r), i + 1 \in 1..Len(r)
               PROVE  <<r[i], r[i + 1]>> \in Follows
    BY DEF Chained
  <2>1. CASE i + 1 <= Len(p)
    <3>1. i \in 1..Len(p) /\ i + 1 \in 1..Len(p)
      BY <1>1, <2>1
    <3> QED
      BY <1>1, <1>2, <3>1 DEF Chained
  <2>2. CASE i = Len(p)
    <3>1. Len(p) \in 1..Len(p) /\ 1 \in 1..Len(q) /\ i + 1 = 1 + Len(p)
      BY <1>1, <2>2
    <3> QED
      BY <1>1, <1>2, <2>2, <3>1
  <2>3. CASE i > Len(p)
    <3>1. /\ i - Len(p) \in 1..Len(q) /\ (i - Len(p)) + 1 \in 1..Len(q)
          /\ (i + 1) - Len(p) = (i - Len(p)) + 1 /\ i \notin 1..Len(p) /\ i + 1 \notin 1..Len(p)
      BY <1>1, <1>2, <2>3
    <3>2. r[i] = q[i - Len(p)] /\ r[i + 1] = q[(i - Len(p)) + 1]
      <4>1. r[i] = q[i - Len(p)] /\ r[i + 1] = q[(i + 1) - Len(p)]
        BY <1>3, <3>1
      <4> QED
        BY <3>1, <4>1
    <3> QED
      BY <1>1, <3>1, <3>2 DEF Chained
  <2> QED
    BY <1>1, <2>1, <2>2, <2>3
<1>5. Ordered(r)
  <2> SUFFICES ASSUME NEW i \in 1..Len(r), NEW j \in 1..Len(r), i < j
               PROVE  /\ r[j] \in Early \cup {"enter"} => r[i] \in BeforeEarly
                      /\ r[i] = "act" => r[j] = "leave"
                      /\ r[i] = "edit" => r[j] \in AfterEdit
    BY DEF Ordered
  <2>1. CASE j <= Len(p)
    <3>1. i \in 1..Len(p) /\ j \in 1..Len(p) /\ r[i] = p[i] /\ r[j] = p[j]
      BY <1>1, <1>2, <2>1
    <3> QED
      BY <1>1, <3>1 DEF Ordered
  <2>2. CASE i > Len(p)
    <3>1. /\ i - Len(p) \in 1..Len(q) /\ j - Len(p) \in 1..Len(q) /\ i - Len(p) < j - Len(p)
          /\ i \notin 1..Len(p) /\ j \notin 1..Len(p)
      BY <1>1, <1>2, <2>2
    <3>2. r[i] = q[i - Len(p)] /\ r[j] = q[j - Len(p)]
      BY <1>3, <3>1
    <3> QED
      BY <1>1, <3>1, <3>2 DEF Ordered
  <2>3. CASE i <= Len(p) /\ j > Len(p)
    <3>0. i \in 1..Len(p) /\ j - Len(p) \in 1..Len(q) /\ j \notin 1..Len(p)
      BY <1>1, <1>2, <2>3
    <3>1. i \in 1..Len(p) /\ r[i] = p[i] /\ j - Len(p) \in 1..Len(q) /\ r[j] = q[j - Len(p)]
      BY <1>2, <1>3, <3>0
    <3>2. r[i] \in S /\ r[j] \in T
      BY <3>1 DEF Piece, Has
    <3> QED
      BY <3>2
  <2> QED
    BY <1>1, <1>2, <2>1, <2>2, <2>3
<1>6. ASSUME NEW x PROVE Has(r, x) <=> Has(p, x) \/ Has(q, x)
  <2>1. Has(r, x) => Has(p, x) \/ Has(q, x)
    BY <1>3 DEF Has
  <2>2. Has(p, x) => Has(r, x)
    BY <1>1, <1>2 DEF Has
  <2>3. ASSUME NEW i \in 1..Len(q), q[i] = x PROVE Has(r, x)
    <3>1. i + Len(p) \in 1..Len(r) /\ r[i + Len(p)] = x
      BY <1>1, <1>2, <2>3
    <3> QED
      BY <3>1 DEF Has
  <2> QED
    BY <2>1, <2>2, <2>3 DEF Has
<1>7. r # <<>> /\ Head(r) = first /\ r[Len(r)] = end
  <2>1. 1 \in 1..Len(p) /\ Len(q) \in 1..Len(q) /\ Len(q) + Len(p) = Len(r)
    BY <1>1, <1>2
  <2>2. r[1] = first /\ r[Len(r)] = end /\ Len(r) >= 1
    BY <1>1, <1>2, <2>1
  <2> QED
    BY <1>2, <2>2
<1>8. r \in Plans
  BY <1>2, <1>4, <1>5 DEF Plans
<1>9. Piece(r, first, end, S \cup T)
  BY <1>6, <1>7, <1>8 DEF Piece
<1> QED
  BY <1>9 DEF r

\* One step.
LEMMA Single ==
    ASSUME NEW x \in StepNames
    PROVE  Piece(<<x>>, x, x, {x})
<1> DEFINE p == <<x>>
<1>1. p \in Seq(StepNames) /\ Len(p) = 1 /\ p[1] = x /\ p # <<>> /\ Head(p) = x
  OBVIOUS
<1> HIDE DEF p
<1>2. 1..Len(p) = {1}
  BY <1>1
<1>3. Chained(p) /\ Ordered(p)
  BY <1>1, <1>2 DEF Chained, Ordered
<1>4. Piece(p, x, x, {x})
  BY <1>1, <1>2, <1>3 DEF Piece, Plans, Has
<1> QED
  BY <1>4 DEF p

\* A switch in front of what is left after the comparison.
LEMMA PlanSwitch ==
    ASSUME NEW s \in Plans, s # <<>>, Head(s) = "compare"
    PROVE  /\ Select \o Tail(s) \in Plans
           /\ Select \o Tail(s) # <<>> /\ Head(Select \o Tail(s)) = "exists"
           /\ \A x : Has(Select \o Tail(s), x) <=>
                         x \in {"exists", "point", "reset"} \/ Has(Tail(s), x)
           /\ \A x \in Early \cup {"enter"} : ~Has(Tail(s), x)
<1> DEFINE r == Tail(s)
           q == Select \o r
<1>1. /\ r \in Plans /\ r \in Seq(StepNames) /\ Len(r) \in Nat /\ Chained(r) /\ Ordered(r)
      /\ (r # <<>> => Head(r) = "path")
      /\ \A x \in Early \cup {"enter"} : ~Has(r, x)
  BY PlanTail DEF Plans, Follows, BeforeEarly
<1>2. Select = <<"exists", "point", "reset">> /\ Select \in Seq(StepNames)
  BY DEF Select, StepNames
<1> HIDE DEF r
<1>3. /\ q \in Seq(StepNames) /\ Len(q) = Len(r) + 3
      /\ q[1] = "exists" /\ q[2] = "point" /\ q[3] = "reset"
  BY <1>1, <1>2
<1>4. \A i \in 1..Len(r) : q[i + 3] = r[i]
  BY <1>1, <1>2
<1>5. ASSUME NEW i \in 1..Len(q)
      PROVE  i \in 1..3 \/ (i - 3 \in 1..Len(r) /\ q[i] = r[i - 3])
  BY <1>1, <1>3, <1>4
<1> HIDE DEF q
<1>6. Chained(q)
  <2> SUFFICES ASSUME NEW i \in 1..Len(q), i + 1 \in 1..Len(q)
               PROVE  <<q[i], q[i + 1]>> \in Follows
    BY DEF Chained
  <2>1. CASE i = 1 \/ i = 2
    BY <1>3, <2>1 DEF Follows
  <2>2. CASE i = 3
    <3>1. 1 \in 1..Len(r) /\ q[1 + 3] = r[1]
      BY <1>1, <1>3, <1>4, <2>2
    <3>2. q[4] = "path"
      BY <1>1, <3>1
    <3> QED
      BY <1>3, <2>2, <3>2 DEF Follows
  <2>3. CASE i > 3
    <3>1. i - 3 \in 1..Len(r) /\ (i - 3) + 1 \in 1..Len(r)
          /\ q[i] = r[i - 3] /\ q[i + 1] = r[(i - 3) + 1]
      BY <1>1, <1>3, <1>5, <2>3
    <3> QED
      BY <1>1, <3>1 DEF Chained
  <2> QED
    BY <1>3, <2>1, <2>2, <2>3
<1>7. Ordered(q)
  <2> SUFFICES ASSUME NEW i \in 1..Len(q), NEW j \in 1..Len(q), i < j
               PROVE  /\ q[j] \in Early \cup {"enter"} => q[i] \in BeforeEarly
                      /\ q[i] = "act" => q[j] = "leave"
                      /\ q[i] = "edit" => q[j] \in AfterEdit
    BY DEF Ordered
  <2>1. CASE j <= 3
    <3>1. (i = 1 /\ j \in {2, 3}) \/ (i = 2 /\ j = 3)
      BY <1>1, <1>3, <2>1
    <3> QED
      BY <1>3, <3>1 DEF Early, BeforeEarly
  <2>2. CASE j > 3
    <3>1. j - 3 \in 1..Len(r) /\ q[j] = r[j - 3]
      BY <1>1, <1>3, <1>5, <2>2
    <3>2. q[j] \notin Early \cup {"enter"}
      BY <1>1, <3>1 DEF Has
    <3>3. CASE i <= 3
      <4>1. q[i] \in {"exists", "point", "reset"}
        BY <1>1, <1>3, <3>3
      <4> QED
        BY <3>2, <4>1
    <3>4. CASE i > 3
      <4>1. i - 3 \in 1..Len(r) /\ q[i] = r[i - 3] /\ i - 3 < j - 3
        BY <1>1, <1>3, <1>5, <3>4
      <4> QED
        BY <1>1, <3>1, <3>2, <4>1 DEF Ordered
    <3> QED
      BY <1>1, <1>3, <3>3, <3>4
  <2> QED
    BY <1>1, <1>3, <2>1, <2>2
<1>8. ASSUME NEW x PROVE Has(q, x) <=> x \in {"exists", "point", "reset"} \/ Has(r, x)
  <2>1. ASSUME NEW i \in 1..Len(q), q[i] = x
        PROVE  x \in {"exists", "point", "reset"} \/ Has(r, x)
    <3>1. CASE i \in 1..3
      BY <1>3, <2>1, <3>1
    <3>2. CASE i - 3 \in 1..Len(r) /\ q[i] = r[i - 3]
      BY <2>1, <3>2 DEF Has
    <3> QED
      BY <1>5, <3>1, <3>2
  <2>2. ASSUME NEW i \in 1..Len(r), r[i] = x PROVE Has(q, x)
    BY <1>1, <1>3, <1>4, <2>2 DEF Has
  <2>3. x \in {"exists", "point", "reset"} => Has(q, x)
    <3>1. 1 \in 1..Len(q) /\ 2 \in 1..Len(q) /\ 3 \in 1..Len(q)
      BY <1>1, <1>3
    <3> QED
      BY <1>3, <3>1 DEF Has
  <2> QED
    BY <2>1, <2>2, <2>3 DEF Has
<1>9. q # <<>> /\ Head(q) = "exists"
  BY <1>1, <1>3
<1>10. q \in Plans
  BY <1>3, <1>6, <1>7 DEF Plans
<1> QED
  BY <1>1, <1>8, <1>9, <1>10 DEF q, r

\* The parts of the plans, and the plans a request begins with.
LEMMA PiecesOfPlans ==
    /\ Piece(Get, "path", "take", {"path", "settle", "take"})
    /\ Piece(Select, "exists", "reset", {"exists", "point", "reset"})
    /\ Piece(Archive, "check_active", "archive", {"check_active", "archive"})
    /\ Piece(<<"act", "leave">>, "act", "leave", {"act", "leave"})
<1>1. Get \in Plans /\ Get # <<>> /\ Head(Get) = "path" /\ Get[Len(Get)] = "take"
  BY DEF Get, Plans, StepNames, Chained, Follows, Ordered, Early, BeforeEarly
<1>2. Select \in Plans /\ Select # <<>> /\ Head(Select) = "exists" /\ Select[Len(Select)] = "reset"
  BY DEF Select, Plans, StepNames, Chained, Follows, Ordered, Early, BeforeEarly
<1>3. Archive \in Plans /\ Archive # <<>> /\ Head(Archive) = "check_active"
      /\ Archive[Len(Archive)] = "archive"
  BY DEF Archive, Plans, StepNames, Chained, Follows, Ordered, Early, BeforeEarly
<1>4. <<"act", "leave">> \in Plans
  BY DEF Plans, StepNames, Chained, Follows, Ordered, Early, BeforeEarly
<1>5. \A x : Has(Get, x) <=> x \in {"path", "settle", "take"}
  BY DEF Get, Has
<1>6. \A x : Has(Select, x) <=> x \in {"exists", "point", "reset"}
  BY DEF Select, Has
<1>7. \A x : Has(Archive, x) <=> x \in {"check_active", "archive"}
  BY DEF Archive, Has
<1>8. \A x : Has(<<"act", "leave">>, x) <=> x \in {"act", "leave"}
  BY DEF Has
<1> QED
  BY <1>1, <1>2, <1>3, <1>4, <1>5, <1>6, <1>7, <1>8 DEF Piece

\* The plan of an agent call and of an update, with their steps.
LEMMA PiecesOfCalls ==
    /\ Piece(AgentCall, "enter", "leave",
             {"enter", "leave", "path", "settle", "take", "unlock", "data", "compare",
              "target", "is_unlocked", "policy", "act"})
    /\ Piece(Update, "compare", "save",
             {"compare", "path", "settle", "take", "unlock", "data", "edit", "save"})
<1> USE DEF StepNames, Follows, Early, BeforeEarly, AfterEdit
<1>1. \A x \in StepNames : Piece(<<x>>, x, x, {x})
  BY Single
<1>2. Piece(TryAutoUnlock, "path", "unlock", {"path", "settle", "take", "unlock"})
  <2>1. Piece(Get \o <<"unlock">>, "path", "unlock", {"path", "settle", "take"} \cup {"unlock"})
    BY <1>1, PiecesOfPlans, Join
  <2> QED
    BY <2>1 DEF TryAutoUnlock, Piece
<1>3. Piece(GetVaultData, "path", "data", {"path", "settle", "take", "data"})
  <2>1. Piece(Get \o <<"data">>, "path", "data", {"path", "settle", "take"} \cup {"data"})
    BY <1>1, PiecesOfPlans, Join
  <2> QED
    BY <2>1 DEF GetVaultData, Piece
<1>4. Piece(Ensure, "compare", "unlock", {"compare", "path", "settle", "take", "unlock"})
  <2>1. Piece(<<"compare">> \o TryAutoUnlock, "compare", "unlock",
              {"compare"} \cup {"path", "settle", "take", "unlock"})
    BY <1>1, <1>2, Join
  <2> QED
    BY <2>1 DEF Ensure, Piece
<1>5. Piece(LookUpPolicy, "path", "policy", {"path", "settle", "take", "is_unlocked", "policy"})
  <2> DEFINE S == {"path", "settle", "take"} \cup {"is_unlocked"}
  <2>1. Piece(Get \o <<"is_unlocked">>, "path", "is_unlocked", S)
    BY <1>1, PiecesOfPlans, Join
  <2>2. Piece(Get \o <<"is_unlocked">> \o Get, "path", "take", S \cup {"path", "settle", "take"})
    BY <2>1, PiecesOfPlans, Join
  <2>3. Piece(Get \o <<"is_unlocked">> \o Get \o <<"policy">>, "path", "policy",
              S \cup {"path", "settle", "take"} \cup {"policy"})
    BY <1>1, <2>2, Join
  <2> QED
    BY <2>3 DEF LookUpPolicy, Piece
<1>6. Piece(Update, "compare", "save",
            {"compare", "path", "settle", "take", "unlock", "data", "edit", "save"})
  <2> DEFINE S == {"compare", "path", "settle", "take", "unlock", "data"}
             T == {"path", "settle", "take"}
  <2>1. Piece(Ensure \o GetVaultData, "compare", "data", S)
    <3>1. Piece(Ensure \o GetVaultData, "compare", "data",
                {"compare", "path", "settle", "take", "unlock"}
                \cup {"path", "settle", "take", "data"})
      BY <1>3, <1>4, Join
    <3> QED
      BY <3>1 DEF Piece
  <2>2. Piece(Ensure \o GetVaultData \o <<"edit">>, "compare", "edit", S \cup {"edit"})
    BY <1>1, <2>1, Join
  <2>3. Piece(Ensure \o GetVaultData \o <<"edit">> \o Get, "compare", "take",
              S \cup {"edit"} \cup T)
    BY <2>2, PiecesOfPlans, Join
  <2>4. Piece(Ensure \o GetVaultData \o <<"edit">> \o Get \o <<"save">>, "compare", "save",
              S \cup {"edit"} \cup T \cup {"save"})
    BY <1>1, <2>3, Join
  <2> QED
    BY <2>4 DEF Update, Piece
<1>7. Piece(AgentCall, "enter", "leave",
            {"enter", "leave", "path", "settle", "take", "unlock", "data", "compare",
             "target", "is_unlocked", "policy", "act"})
  <2> DEFINE A == <<"enter">> \o TryAutoUnlock
             B == A \o GetVaultData \o <<"leave">>
             C == B \o <<"enter">> \o Ensure
             D == C \o GetVaultData \o <<"target">>
             S == {"enter", "path", "settle", "take", "unlock", "data", "leave"}
             T == S \cup {"compare"}
  <2>1. Piece(A, "enter", "unlock", {"enter"} \cup {"path", "settle", "take", "unlock"})
    BY <1>1, <1>2, Join
  <2>2. Piece(B, "enter", "leave", S)
    <3>1. Piece(A \o GetVaultData, "enter", "data", {"enter", "path", "settle", "take", "unlock"}
                                                   \cup {"path", "settle", "take", "data"})
      <4>1. Piece(A, "enter", "unlock", {"enter", "path", "settle", "take", "unlock"})
        BY <2>1 DEF Piece
      <4> HIDE DEF A
      <4> QED
        BY <1>3, <4>1, Join
    <3> HIDE DEF A
    <3>2. Piece(B, "enter", "leave", {"enter", "path", "settle", "take", "unlock"}
                \cup {"path", "settle", "take", "data"} \cup {"leave"})
      BY <1>1, <3>1, Join
    <3> HIDE DEF B
    <3> QED
      BY <3>2 DEF Piece
  <2> HIDE DEF A, B
  <2>3. Piece(C, "enter", "unlock", T)
    <3>1. Piece(B \o <<"enter">>, "enter", "enter", S \cup {"enter"})
      BY <1>1, <2>2, Join
    <3>2. Piece(C, "enter", "unlock",
                S \cup {"enter"} \cup {"compare", "path", "settle", "take", "unlock"})
      BY <1>4, <3>1, Join
    <3> HIDE DEF C
    <3> QED
      BY <3>2 DEF Piece
  <2> HIDE DEF C
  <2>4. Piece(D, "enter", "target", T \cup {"target"})
    <3>1. Piece(C \o GetVaultData, "enter", "data", T \cup {"path", "settle", "take", "data"})
      BY <1>3, <2>3, Join
    <3>2. Piece(D, "enter", "target", T \cup {"path", "settle", "take", "data"} \cup {"target"})
      BY <1>1, <3>1, Join
    <3> HIDE DEF D
    <3> QED
      BY <3>2 DEF Piece
  <2> HIDE DEF D
  <2>5. Piece(D \o LookUpPolicy, "enter", "policy",
              T \cup {"target"} \cup {"path", "settle", "take", "is_unlocked", "policy"})
    BY <1>5, <2>4, Join
  <2>6. Piece(D \o LookUpPolicy \o <<"act", "leave">>, "enter", "leave",
              T \cup {"target"} \cup {"path", "settle", "take", "is_unlocked", "policy"}
                \cup {"act", "leave"})
    BY <2>5, PiecesOfPlans, Join
  <2>7. AgentCall = D \o LookUpPolicy \o <<"act", "leave">>
    BY DEF AgentCall, A, B, C, D
  <2> QED
    BY <2>6, <2>7 DEF Piece
<1> QED
  BY <1>6, <1>7

\* No steps at all.
LEMMA PlanShort == <<>> \in Plans /\ \A x : ~Has(<<>>, x)
BY DEF Plans, Chained, Ordered, Has

----------------------------------------------------------------------------
(* A step of a thread                                                      *)

\* Proceed goes on to the next step, and forgets the locals after the last.
LEMMA Proceeding ==
    ASSUME NEW t \in Threads, NEW l, todo \in [Threads -> Plans], loc \in [Threads -> Locals],
           todo[t] # <<>>, Proceed(t, l)
    PROVE  /\ todo' = [todo EXCEPT ![t] = Tail(todo[t])]
           /\ loc' = [loc EXCEPT ![t] = IF Tail(todo[t]) = <<>> THEN NoCall ELSE l]
<1> DEFINE r == Tail(todo[t])
<1>1. /\ todo[t] \in Seq(StepNames) /\ Len(todo[t]) \in Nat \ {0}
      /\ r \in Seq(StepNames) /\ Len(r) = Len(todo[t]) - 1
  BY DEF Plans
<1>2. Proceed(t, l) <=> IF Len(todo[t]) = 1 THEN Done(t)
                        ELSE todo' = [todo EXCEPT ![t] = r] /\ Local(t, l)
  BY DEF Proceed
<1> HIDE DEF r
<1>3. r = <<>> <=> Len(r) = 0
  <2>1. \A q \in Seq(StepNames) : q # <<>> => Len(q) \in Nat \ {0}
    BY EmptySeq
  <2>2. Len(<<>>) = 0
    OBVIOUS
  <2> QED
    BY <1>1, <2>1, <2>2
<1>4. CASE Len(todo[t]) = 1
  <2>1. r = <<>>
    BY <1>1, <1>3, <1>4
  <2> QED
    BY <1>2, <1>4, <2>1 DEF Done, Local, r
<1>5. CASE Len(todo[t]) # 1
  <2>1. r # <<>>
    BY <1>1, <1>3, <1>5
  <2> QED
    BY <1>2, <1>5, <2>1 DEF Local, r
<1> QED
  BY <1>4, <1>5

\* Threads that take no step stay ready.
LEMMA OthersReady ==
    ASSUME TInv, NEW t \in Threads, NEW s \in Plans, NEW l \in Locals,
           todo' = [todo EXCEPT ![t] = s], loc' = [loc EXCEPT ![t] = l], Ready(t)'
    PROVE  /\ todo' \in [Threads -> Plans] /\ loc' \in [Threads -> Locals]
           /\ \A u \in Threads : Ready(u)'
<1>1. todo \in [Threads -> Plans] /\ loc \in [Threads -> Locals]
  BY DEF TInv, Types
<1>2. ASSUME NEW u \in Threads, u # t PROVE Ready(u)'
  <2>1. todo'[u] = todo[u] /\ loc'[u] = loc[u] /\ Ready(u)
    BY <1>1, <1>2 DEF TInv
  <2> QED
    BY <2>1 DEF Ready, At, Ahead, StepsOf
<1> QED
  BY <1>1, <1>2

\* The steps of a plan and of what is left of it.
LEMMA StepOf ==
    ASSUME TInv, NEW t \in Threads, NEW step, At(t, step)
    PROVE  /\ todo[t] \in Plans /\ todo[t] # <<>> /\ Head(todo[t]) = step /\ step \in StepNames
           /\ Has(todo[t], step) /\ step \in StepsOf(t)
           /\ loc[t] \in Locals /\ loc[t].asked \in Names /\ Ready(t)
<1>1. todo[t] \in Plans /\ todo[t] # <<>> /\ Head(todo[t]) = step /\ loc[t] \in Locals /\ Ready(t)
  BY DEF TInv, Types, At
<1>2. step \in StepNames /\ Has(todo[t], step)
  BY <1>1, PlanTail
<1>3. step \in StepsOf(t) /\ loc[t].asked \in Names
  BY <1>1, <1>2 DEF Ready
<1> QED
  BY <1>1, <1>2, <1>3

\* A thread that has taken a step is ready for the next one.
LEMMA ProceedReady ==
    ASSUME TInv, NEW t \in Threads, NEW step, At(t, step), NEW l \in Locals, Proceed(t, l),
           l.asked = loc[t].asked, l.form = loc[t].form,
           step = "path" => l.path \in Names,
           step = "take" => l.v \in Objects,
           step = "data" => l.d \in Objects,
           IF step = "target" THEN l.target \in Names ELSE l.target = loc[t].target
    PROVE  /\ todo' \in [Threads -> Plans] /\ loc' \in [Threads -> Locals]
           /\ \A u \in Threads : Ready(u)'
<1> DEFINE s == todo[t]
           r == Tail(s)
           m == IF r = <<>> THEN NoCall ELSE l
<1>1. /\ s \in Plans /\ s # <<>> /\ Head(s) = step /\ loc[t] \in Locals /\ Ready(t)
      /\ loc[t].asked \in Names /\ todo \in [Threads -> Plans] /\ loc \in [Threads -> Locals]
  BY StepOf DEF TInv, Types
<1>2. todo' = [todo EXCEPT ![t] = r] /\ loc' = [loc EXCEPT ![t] = m]
  BY <1>1, Proceeding
<1>3. todo'[t] = r /\ loc'[t] = m
  BY <1>1, <1>2
<1>4. /\ r \in Plans /\ step \in StepNames
      /\ \A x : Has(s, x) <=> x = step \/ Has(r, x)
      /\ r # <<>> => <<step, Head(r)>> \in Follows
      /\ \A x \in Early \cup {"enter"} : Has(r, x) => step \in BeforeEarly
      /\ step = "act" => \A x : Has(r, x) => x = "leave"
      /\ step = "edit" => \A x : Has(r, x) => x \in AfterEdit
  BY <1>1, PlanTail
<1>5. m \in Locals
  BY <1>1 DEF NoCall, Locals
<1>6. Ready(t)'
  <2>1. CASE r = <<>>
    <3>1. todo'[t] = <<>> /\ loc'[t] = NoCall
      BY <1>3, <2>1
    <3> QED
      BY <3>1, PlanShort DEF Ready, At, Ahead, NoCall
  <2>2. CASE r # <<>>
    <3>1. m = l
      BY <2>2
    <3> HIDE DEF r, s, m
    <3>2. \A x \in StepNames : Has(r, x) => x \in StepsOf(t)
      BY <1>1, <1>4 DEF Ready, s
    <3>3. Head(r) = "settle" => l.path \in Names
      BY <1>4, <2>2 DEF Follows
    <3>4. Head(r) \in UsesVault => l.v \in Objects
      BY <1>4, <2>2 DEF Follows, UsesVault
    <3>5. Head(r) \in UsesData => l.d \in Objects
      BY <1>4, <2>2 DEF Follows, UsesData
    <3>10. Has(r, "enter") => Has(r, "compare")
      BY <1>1, <1>4 DEF Ready, s, BeforeEarly
    <3>6. Has(r, "edit") => l.form \in Forms
      BY <1>1, <1>4 DEF Ready, s
    <3>7. Has(r, "act") => Has(r, "target") \/ l.target # None
      BY <1>1, <1>4, RequestsAssumption DEF Ready, s
    <3>8. l.target # None => t \in Agents /\ \A x \in Early : ~Has(r, x)
      <4>1. step = "target" => t \in Agents
        BY StepOf DEF StepsOf, AdminSteps, Threads
      <4> QED
        BY <1>1, <1>4, <4>1 DEF Ready, s, BeforeEarly
    <3>9. Has(r, "save") => Has(r, "edit") \/ \A x \in StepNames : Has(r, x) => x \in AfterEdit
      BY <1>1, <1>4 DEF Ready, s
    <3> QED
      BY <1>1, <1>3, <2>2, <3>1, <3>2, <3>3, <3>4, <3>5, <3>6, <3>7, <3>8, <3>9, <3>10
         DEF Ready, At, Ahead, StepsOf
  <2> QED
    BY <2>1, <2>2
<1> QED
  BY <1>2, <1>4, <1>5, <1>6, OthersReady

\* A request that is over, or not begun, needs nothing.
LEMMA DoneReady ==
    ASSUME TInv, NEW t \in Threads, Done(t)
    PROVE  /\ todo' = [todo EXCEPT ![t] = <<>>] /\ loc' = [loc EXCEPT ![t] = NoCall]
           /\ todo' \in [Threads -> Plans] /\ loc' \in [Threads -> Locals]
           /\ \A u \in Threads : Ready(u)'
<1>1. todo' = [todo EXCEPT ![t] = <<>>] /\ loc' = [loc EXCEPT ![t] = NoCall]
  BY DEF Done, Local
<1>2. <<>> \in Plans /\ NoCall \in Locals /\ todo'[t] = <<>> /\ loc'[t] = NoCall
  BY <1>1, PlanShort DEF TInv, Types, NoCall, Locals
<1>3. Ready(t)'
  BY <1>2, PlanShort DEF Ready, At, Ahead, NoCall
<1> QED
  BY <1>1, <1>2, <1>3, OthersReady

\* The default policy stands in for one that could not be looked up.
LEMMA DefaultReady ==
    ASSUME TInv, NEW t \in Threads, todo[t] # <<>>, DefaultPolicy(t)
    PROVE  /\ t \in Agents /\ todo' = [todo EXCEPT ![t] = <<"act", "leave">>]
           /\ loc' = loc /\ loop' = loop
           /\ todo' \in [Threads -> Plans] /\ loc' \in [Threads -> Locals]
           /\ \A u \in Threads : Ready(u)'
<1> DEFINE s == <<"act", "leave">>
<1>1. /\ loc[t].target # None /\ todo' = [todo EXCEPT ![t] = s] /\ loc' = loc /\ loop' = loop
      /\ todo \in [Threads -> Plans] /\ loc \in [Threads -> Locals] /\ Ready(t)
  BY DEF DefaultPolicy, TInv, Types
<1>2. /\ s \in Plans /\ s # <<>> /\ Head(s) = "act"
      /\ \A x : Has(s, x) <=> x \in {"act", "leave"}
  BY PiecesOfPlans DEF Piece
<1> HIDE DEF s
<1>3. todo'[t] = s /\ loc'[t] = loc[t] /\ loc' = [loc EXCEPT ![t] = loc[t]]
  BY <1>1
<1>4. loc[t].asked \in Names /\ t \in Agents /\ loc[t] \in Locals
  BY <1>1 DEF Ready
<1>5. Ready(t)'
  BY <1>1, <1>2, <1>3, <1>4, RequestsAssumption
     DEF Ready, At, Ahead, StepsOf, AgentSteps, Early, UsesVault, UsesData
<1> QED
  BY <1>1, <1>2, <1>3, <1>4, <1>5, OthersReady DEF s

\* Between entering and leaving, the event loop runs nobody else.
LEMMA StaysOnLoop ==
    ASSUME TInv, NEW t \in Threads, NEW step, At(t, step), step # "enter", NEW s,
           todo' = [todo EXCEPT ![t] = s], loop' = loop
    PROVE  \A u \in Threads : OnLoop(u)'
<1>1. todo \in [Threads -> Plans] /\ \A u \in Threads : OnLoop(u)
  BY DEF TInv, Types
<1>2. t \in Agents => loop = t
  BY <1>1 DEF OnLoop, At
<1>3. ASSUME NEW u \in Threads, u # t PROVE OnLoop(u)'
  <2>1. todo'[u] = todo[u] /\ OnLoop(u)
    BY <1>1, <1>3
  <2> QED
    BY <2>1 DEF OnLoop, At
<1>4. OnLoop(t)'
  BY <1>2 DEF OnLoop
<1> QED
  BY <1>3, <1>4

\* An error response leaves the loop to the others.
LEMMA RaiseReady ==
    ASSUME TInv, NEW t \in Threads, Raise(t)
    PROVE  /\ todo' = [todo EXCEPT ![t] = <<>>] /\ loc' = [loc EXCEPT ![t] = NoCall]
           /\ loop' \in Agents \cup {None}
           /\ todo' \in [Threads -> Plans] /\ loc' \in [Threads -> Locals]
           /\ \A u \in Threads : Ready(u)' /\ OnLoop(u)'
<1>1. Done(t) /\ loop' = (IF loop = t THEN None ELSE loop)
  BY DEF Raise
<1>2. /\ todo \in [Threads -> Plans] /\ loop \in Agents \cup {None}
      /\ \A u \in Threads : OnLoop(u)
  BY DEF TInv, Types
<1>3. todo' = [todo EXCEPT ![t] = <<>>]
  BY <1>1, DoneReady
<1>4. ASSUME NEW u \in Threads PROVE OnLoop(u)'
  <2>1. CASE u = t
    BY <1>2, <1>3, <2>1 DEF OnLoop
  <2>2. CASE u # t
    <3>1. todo'[u] = todo[u] /\ OnLoop(u)
      BY <1>2, <1>3, <2>2
    <3> QED
      BY <1>1, <2>2, <3>1 DEF OnLoop, At
  <2> QED
    BY <2>1, <2>2
<1> QED
  BY <1>1, <1>2, <1>4, DoneReady

\* There is an identity that nobody refers to.
LEMMA FreeObject == TInv => Objects \ InUse # {}
<1> SUFFICES ASSUME TInv PROVE Objects \ InUse # {}
  OBVIOUS
<1> DEFINE N == Cardinality(Threads)
           V == {loc[t].v : t \in Threads}
           D == {loc[t].d : t \in Threads}
<1>1. IsFiniteSet(Threads) /\ N \in Nat
  BY RequestsAssumption, FS_CardinalityType DEF Threads
<1>2. IsFiniteSet(V) /\ Cardinality(V) \in Nat /\ Cardinality(V) <= N
  <2>1. [t \in Threads |-> loc[t].v] \in Surjection(Threads, V)
    BY DEF Surjection
  <2> QED
    BY <1>1, <2>1, FS_Surjection, FS_CardinalityType
<1>3. IsFiniteSet(D) /\ Cardinality(D) \in Nat /\ Cardinality(D) <= N
  <2>1. [t \in Threads |-> loc[t].d] \in Surjection(Threads, D)
    BY DEF Surjection
  <2> QED
    BY <1>1, <2>1, FS_Surjection, FS_CardinalityType
<1>4. IsFiniteSet({vault}) /\ Cardinality({vault}) = 1
  BY FS_Singleton
<1>5. IsFiniteSet(Objects) /\ Cardinality(Objects) = 2 * N + 2
  BY <1>1, FS_Interval DEF Objects
<1> HIDE DEF N, V, D
<1>6. IsFiniteSet({vault} \cup V) /\ Cardinality({vault} \cup V) \in Nat
      /\ Cardinality({vault} \cup V) <= 1 + N
  <2>1. /\ IsFiniteSet({vault} \cup V) /\ IsFiniteSet({vault} \cap V)
        /\ Cardinality({vault} \cup V) = 1 + Cardinality(V) - Cardinality({vault} \cap V)
    BY <1>2, <1>4, FS_Union, FS_Intersection
  <2>2. Cardinality({vault} \cup V) \in Nat /\ Cardinality({vault} \cap V) \in Nat
    BY <2>1, FS_CardinalityType
  <2> QED
    BY <1>1, <1>2, <2>1, <2>2
<1>7. IsFiniteSet(InUse) /\ Cardinality(InUse) <= 1 + N + N /\ Cardinality(InUse) \in Nat
  <2>1. InUse = ({vault} \cup V) \cup D
    BY DEF InUse, V, D
  <2>2. /\ IsFiniteSet(InUse) /\ IsFiniteSet(({vault} \cup V) \cap D)
        /\ Cardinality(InUse)
             = Cardinality({vault} \cup V) + Cardinality(D) - Cardinality(({vault} \cup V) \cap D)
    BY <1>3, <1>6, <2>1, FS_Union, FS_Intersection
  <2>3. Cardinality(InUse) \in Nat /\ Cardinality(({vault} \cup V) \cap D) \in Nat
    BY <2>2, FS_CardinalityType
  <2> QED
    BY <1>1, <1>3, <1>6, <2>2, <2>3
<1>8. ASSUME Objects \subseteq InUse PROVE FALSE
  <2>1. Cardinality(Objects) <= Cardinality(InUse)
    BY <1>7, <1>8, FS_Subset
  <2> QED
    BY <1>1, <1>5, <1>7, <2>1
<1> QED
  BY <1>8

----------------------------------------------------------------------------
(* Types                                                                   *)

\* What concerns the requests, and what they share.
Going ==
    /\ todo \in [Threads -> Plans] /\ loc \in [Threads -> Locals]
    /\ loop \in Agents \cup {None}
    /\ \A t \in Threads : Ready(t) /\ OnLoop(t)

SharedTypes ==
    /\ file \in [Names -> Forms \cup {None}]
    /\ pointer \in Names
    /\ vault \in Objects \cup {None}
    /\ object \in [Objects -> [name : Names, form : Forms \cup {None}]]

History ==
    /\ latest \in [Names -> Forms] /\ crossed \in BOOLEAN
    /\ raced \subseteq Names /\ calls \in 0..MaxCalls

\* The invariant in three parts: the requests, what they share, and the history.
LEMMA Parts == TInv <=> Going /\ SharedTypes /\ History
BY DEF TInv, Types, Going, SharedTypes, History

\* A step that goes on, on the event loop or beside it.
LEMMA StepGoes ==
    ASSUME TInv, NEW t \in Threads, NEW step, At(t, step), step \notin {"enter", "leave"},
           NEW l \in Locals, Proceed(t, l), loop' = loop,
           l.asked = loc[t].asked, l.form = loc[t].form,
           step = "path" => l.path \in Names,
           step = "take" => l.v \in Objects,
           step = "data" => l.d \in Objects,
           IF step = "target" THEN l.target \in Names ELSE l.target = loc[t].target
    PROVE  Going'
<1>1. /\ todo' \in [Threads -> Plans] /\ loc' \in [Threads -> Locals]
      /\ \A u \in Threads : Ready(u)'
  BY ProceedReady
<1>2. todo' = [todo EXCEPT ![t] = Tail(todo[t])]
  BY Proceeding DEF TInv, Types, At
<1>3. \A u \in Threads : OnLoop(u)'
  BY <1>2, StaysOnLoop
<1> QED
  BY <1>1, <1>3 DEF Going, TInv, Types

\* A step that learns nothing.
LEMMA PlainGoes ==
    ASSUME TInv, NEW t \in Threads, NEW step, At(t, step), Proceed(t, loc[t]), loop' = loop,
           step \notin {"enter", "leave", "path", "take", "data", "target"}
    PROVE  Going'
BY StepOf, StepGoes

\* An error response.
LEMMA RaiseGoes ==
    ASSUME TInv, NEW t \in Threads, Raise(t)
    PROVE  Going'
BY RaiseReady DEF Going

\* The default policy.
LEMMA DefaultGoes ==
    ASSUME TInv, NEW t \in Threads, NEW step, At(t, step), step # "enter", DefaultPolicy(t)
    PROVE  Going'
<1>1. /\ todo' = [todo EXCEPT ![t] = <<"act", "leave">>] /\ loop' = loop
      /\ todo' \in [Threads -> Plans] /\ loc' \in [Threads -> Locals]
      /\ \A u \in Threads : Ready(u)'
  BY DefaultReady DEF At
<1>2. \A u \in Threads : OnLoop(u)'
  BY <1>1, StaysOnLoop
<1> QED
  BY <1>1, <1>2 DEF Going, TInv, Types

\* A request that begins has the whole plan of its handler before it.
LEMMA RequestGoes ==
    ASSUME TInv, NEW t \in Threads, Request(t)
    PROVE  Going'
<1>1. PICK n \in Names, f \in Forms \cup {None},
            steps \in {AgentCall, Update, Select, Archive} :
         /\ Begin(t, n, f, steps)
         /\ \/ t \in Agents /\ steps = AgentCall
            \/ t \in Admins /\ steps = Update /\ f \in Forms
            \/ t \in Admins /\ steps \in {Select, Archive}
  BY RequestsAssumption DEF Request
<1>2. /\ todo[t] = <<>> /\ todo' = [todo EXCEPT ![t] = steps] /\ loop' = loop
      /\ loc' = [loc EXCEPT ![t] = [NoCall EXCEPT !.asked = n, !.form = f]]
  BY <1>1 DEF Begin, Local
<1>3. /\ todo \in [Threads -> Plans] /\ loc \in [Threads -> Locals] /\ loop \in Agents \cup {None}
      /\ \A u \in Threads : OnLoop(u)
  BY DEF TInv, Types
<1> DEFINE l == [NoCall EXCEPT !.asked = n, !.form = f]
<1>4. l \in Locals /\ l.asked = n /\ l.form = f /\ l.target = None
  BY DEF Locals, NoCall
<1> HIDE DEF l
<1>5. /\ steps \in Plans
      /\ \A x \in StepNames : Has(steps, x) => x \in StepsOf(t)
      /\ Head(steps) \in {"enter", "compare", "exists", "check_active"}
      /\ Has(steps, "edit") => f \in Forms
      /\ Has(steps, "enter") => Has(steps, "compare")
      /\ Has(steps, "act") => Has(steps, "target")
      /\ Has(steps, "save") => Has(steps, "edit")
      /\ t \in Agents => Head(steps) = "enter"
  <2>1. CASE t \in Agents /\ steps = AgentCall
    BY <2>1, PiecesOfCalls, RequestsAssumption DEF Piece, StepsOf, AgentSteps
  <2>2. CASE t \in Admins /\ steps = Update /\ f \in Forms
    BY <2>2, PiecesOfCalls, RequestsAssumption DEF Piece, StepsOf, AdminSteps
  <2>3. CASE t \in Admins /\ steps \in {Select, Archive}
    BY <2>3, PiecesOfPlans, RequestsAssumption DEF Piece, StepsOf, AdminSteps
  <2> QED
    BY <1>1, <2>1, <2>2, <2>3
<1>6. todo'[t] = steps /\ loc'[t] = l
  BY <1>2, <1>3 DEF l
<1>7. Ready(t)'
  BY <1>4, <1>5, <1>6 DEF Ready, At, Ahead, UsesVault, UsesData, StepsOf
<1>8. /\ todo' \in [Threads -> Plans] /\ loc' \in [Threads -> Locals]
      /\ \A u \in Threads : Ready(u)'
  BY <1>2, <1>4, <1>5, <1>7, OthersReady DEF l
<1>9. ASSUME NEW u \in Threads PROVE OnLoop(u)'
  <2>1. CASE u = t
    BY <1>5, <1>6, <2>1 DEF OnLoop, At
  <2>2. CASE u # t
    <3>1. todo'[u] = todo[u] /\ OnLoop(u)
      BY <1>2, <1>3, <2>2
    <3> QED
      BY <1>2, <3>1 DEF OnLoop, At
  <2> QED
    BY <2>1, <2>2
<1> QED
  BY <1>2, <1>3, <1>8, <1>9 DEF Going

\* Entering and leaving the event loop.
LEMMA LoopGoes ==
    ASSUME TInv, NEW t \in Threads, Enter(t) \/ Leave(t)
    PROVE  Going'
<1>1. PICK step \in {"enter", "leave"} :
         /\ At(t, step) /\ Proceed(t, loc[t])
         /\ IF step = "enter" THEN loop = None /\ loop' = t ELSE loop' = None
  BY DEF Enter, Leave
<1>2. /\ todo[t] \in Plans /\ todo[t] # <<>> /\ Head(todo[t]) = step /\ t \in Agents
      /\ loc[t] \in Locals
  <2>1. step \in StepsOf(t)
    BY <1>1, StepOf
  <2> QED
    BY <1>1, <2>1, StepOf DEF StepsOf, AdminSteps, Threads
<1>3. /\ todo' \in [Threads -> Plans] /\ loc' \in [Threads -> Locals]
      /\ \A u \in Threads : Ready(u)'
  BY <1>1, <1>2, ProceedReady
<1>4. todo' = [todo EXCEPT ![t] = Tail(todo[t])] /\ todo \in [Threads -> Plans]
      /\ \A u \in Threads : OnLoop(u)
  BY <1>1, <1>2, Proceeding DEF TInv, Types
<1>5. step = "leave" => Tail(todo[t]) = <<>> \/ Head(Tail(todo[t])) = "enter"
  BY <1>2, PlanTail DEF Follows
<1>6. ASSUME NEW u \in Threads, u # t PROVE OnLoop(u)'
  <2>1. todo'[u] = todo[u] /\ OnLoop(u)
    BY <1>4, <1>6
  <2>2. step = "leave" => loop = t
    BY <1>1, <1>2, <1>4 DEF OnLoop, At
  <2> QED
    BY <1>1, <1>6, <2>1, <2>2, RequestsAssumption DEF OnLoop, At
<1>7. OnLoop(t)'
  <2>1. todo'[t] = Tail(todo[t])
    BY <1>4
  <2> QED
    BY <1>1, <1>5, <2>1 DEF OnLoop, At
<1>8. loop' \in Agents \cup {None}
  BY <1>1, <1>2
<1> QED
  BY <1>3, <1>6, <1>7, <1>8 DEF Going

\* ensure_profile_active_and_unlocked goes on, or switches first.
LEMMA SwitchGoes ==
    ASSUME TInv, NEW t \in Threads, Compare(t)
    PROVE  Going'
<1> DEFINE s == Select \o Tail(todo[t])
<1>1. /\ At(t, "compare") /\ loc' = loc /\ loop' = loop
      /\ todo' = [todo EXCEPT ![t] = IF pointer = loc[t].asked THEN Tail(todo[t]) ELSE s]
  BY DEF Compare
<1>2. /\ todo[t] \in Plans /\ todo[t] # <<>> /\ Head(todo[t]) = "compare" /\ Ready(t)
      /\ loc[t] \in Locals /\ loc[t].asked \in Names
      /\ "compare" \in StepsOf(t) /\ Has(todo[t], "compare")
      /\ todo \in [Threads -> Plans] /\ loc \in [Threads -> Locals]
  BY <1>1, StepOf DEF TInv, Types
<1>3. /\ s \in Plans /\ s # <<>> /\ Head(s) = "exists"
      /\ \A x : Has(s, x) <=> x \in {"exists", "point", "reset"} \/ Has(Tail(todo[t]), x)
      /\ \A x \in Early \cup {"enter"} : ~Has(Tail(todo[t]), x)
  BY <1>2, PlanSwitch
<1>4. /\ Tail(todo[t]) \in Plans
      /\ \A x : Has(todo[t], x) <=> x = "compare" \/ Has(Tail(todo[t]), x)
      /\ Tail(todo[t]) # <<>> => Head(Tail(todo[t])) = "path"
  BY <1>2, PlanTail DEF Follows
<1>5. loc[t].target = None
  BY <1>2 DEF Ready, Early
<1> DEFINE r == Tail(todo[t])
           n == IF pointer = loc[t].asked THEN r ELSE s
<1>6. /\ n \in Plans /\ \A x : Has(n, x) => x \in {"exists", "point", "reset"} \/ Has(todo[t], x)
      /\ \A x : Has(r, x) => Has(n, x)
      /\ ~Has(n, "enter")
      /\ n # <<>> => Head(n) \in {"exists", "path"}
  BY <1>3, <1>4
<1>7. todo'[t] = n /\ loc'[t] = loc[t]
  BY <1>1, <1>2
<1>8. Has(n, "act") => Has(n, "target")
  BY <1>2, <1>4, <1>5, <1>6 DEF Ready
<1>9. Has(n, "save") => Has(n, "edit")
  <2>1. Has(n, "save") => Has(todo[t], "save")
    BY <1>6
  <2>2. "compare" \in StepNames /\ "compare" \notin AfterEdit
    BY DEF StepNames, AfterEdit
  <2> QED
    BY <1>2, <1>4, <1>6, <2>1, <2>2 DEF Ready
<1>10. Has(n, "edit") => loc[t].form \in Forms
  BY <1>2, <1>6 DEF Ready
<1>11. \A x \in StepNames : Has(n, x) => x \in StepsOf(t)
  BY <1>2, <1>6 DEF Ready, StepsOf, AdminSteps, AgentSteps
<1> HIDE DEF n
<1>12. Ready(t)'
  BY <1>2, <1>5, <1>6, <1>7, <1>8, <1>9, <1>10, <1>11
     DEF Ready, At, Ahead, UsesVault, UsesData, StepsOf
<1>13. loc' = [loc EXCEPT ![t] = loc[t]] /\ todo' = [todo EXCEPT ![t] = n]
  BY <1>1, <1>2 DEF n
<1>14. /\ todo' \in [Threads -> Plans] /\ loc' \in [Threads -> Locals]
       /\ \A u \in Threads : Ready(u)'
  BY <1>2, <1>6, <1>12, <1>13, OthersReady
<1>15. \A u \in Threads : OnLoop(u)'
  BY <1>1, <1>13, StaysOnLoop
<1> QED
  BY <1>1, <1>14, <1>15 DEF Going, TInv, Types

\* The shared state keeps its domains.
LEMMA SettleShares ==
    ASSUME TInv, NEW t \in Threads, Settle(t)
    PROVE  SharedTypes'
<1>1. /\ loc[t].path \in Names /\ SharedTypes
      /\ file' = file /\ pointer' = pointer
  BY StepOf, Parts DEF Settle, Ready
<1>2. CASE UNCHANGED <<vault, object>>
  BY <1>1, <1>2 DEF SharedTypes
<1>3. CASE ~UNCHANGED <<vault, object>>
  <2> DEFINE v == CHOOSE o \in Objects \ InUse : TRUE
  <2>1. v \in Objects
    BY FreeObject
  <2>2. /\ vault' = v
        /\ object' = [o \in Objects |-> IF o = v THEN [name |-> loc[t].path, form |-> None]
                                        ELSE IF o \in InUse THEN object[o] ELSE Unborn]
    BY <1>3 DEF Settle
  <2> HIDE DEF v
  <2>3. Unborn \in [name : Names, form : Forms \cup {None}]
    BY RequestsAssumption DEF Unborn
  <2>4. [name |-> loc[t].path, form |-> None] \in [name : Names, form : Forms \cup {None}]
    BY <1>1
  <2>5. object' \in [Objects -> [name : Names, form : Forms \cup {None}]]
    BY <1>1, <2>2, <2>3, <2>4 DEF SharedTypes
  <2> QED
    BY <1>1, <2>1, <2>2, <2>5 DEF SharedTypes
<1> QED
  BY <1>2, <1>3

\* Nothing is under way at the start.
LEMMA TInit == Init => TInv
<1> SUFFICES ASSUME Init PROVE TInv
  OBVIOUS
<1>1. <<>> \in Plans /\ NoCall \in Locals /\ Unborn \in [name : Names, form : Forms \cup {None}]
  BY PlanShort, RequestsAssumption DEF NoCall, Locals, Unborn
<1>2. /\ \A t \in Threads : todo[t] = <<>> /\ loc[t] = NoCall
      /\ todo \in [Threads -> Plans] /\ loc \in [Threads -> Locals]
  BY <1>1 DEF Init
<1>3. \A t \in Threads : Ready(t) /\ OnLoop(t)
  BY <1>2, PlanShort DEF Ready, OnLoop, At, Ahead, NoCall
<1>4. /\ file \in [Names -> Forms \cup {None}] /\ pointer \in Names /\ vault = None /\ loop = None
      /\ latest \in [Names -> Forms] /\ crossed = FALSE /\ raced = {}
      /\ calls \in 0..MaxCalls
  BY RequestsAssumption DEF Init
<1>5. object \in [Objects -> [name : Names, form : Forms \cup {None}]]
  BY <1>1 DEF Init
<1> QED
  BY <1>2, <1>3, <1>4, <1>5 DEF TInv, Types

\* Every step keeps the domains, and what the next step of each request relies on.
LEMMA TStep == TInv /\ [Next]_vars => TInv'
<1> SUFFICES ASSUME TInv, [Next]_vars PROVE TInv'
  OBVIOUS
<1> USE DEF shared
<1>1. SharedTypes /\ History /\ Going
  BY Parts
<1>2. ASSUME Going', SharedTypes', History' PROVE TInv'
  BY <1>2 DEF TInv, Types, Going, SharedTypes, History
<1>3. ASSUME UNCHANGED shared PROVE SharedTypes'
  BY <1>1, <1>3 DEF SharedTypes
<1>4. ASSUME UNCHANGED <<latest, crossed, raced, calls>> PROVE History'
  BY <1>1, <1>4 DEF History
<1>5. ASSUME NEW t \in Threads, Cross(t) PROVE crossed' \in BOOLEAN
  BY <1>1, <1>5 DEF Cross, Beside, History
<1>6. ASSUME NEW t \in Threads, Request(t) PROVE TInv'
  <2>1. UNCHANGED <<shared, latest, crossed, raced>> /\ calls' = calls + 1 /\ calls < MaxCalls
    BY <1>6 DEF Request, Begin
  <2>2. History'
    BY <1>1, <2>1, RequestsAssumption DEF History
  <2> QED
    BY <1>2, <1>3, <1>6, <2>1, <2>2, RequestGoes
<1>7. ASSUME NEW t \in Threads, Enter(t) \/ Leave(t) PROVE TInv'
  BY <1>2, <1>3, <1>4, <1>7, LoopGoes DEF Enter, Leave
<1>8. ASSUME NEW t \in Threads, GetPath(t) PROVE TInv'
  <2> DEFINE l == [loc[t] EXCEPT !.path = pointer]
  <2>1. At(t, "path") /\ Proceed(t, l) /\ UNCHANGED <<shared, loop, latest, crossed, raced, calls>>
    BY <1>8 DEF GetPath
  <2>2. l \in Locals /\ l.path \in Names /\ l.asked = loc[t].asked /\ l.form = loc[t].form
        /\ l.target = loc[t].target
    BY <1>1, <2>1, StepOf DEF Locals, SharedTypes
  <2> HIDE DEF l
  <2>3. Going'
    BY <2>1, <2>2, StepGoes
  <2> QED
    BY <1>2, <1>3, <1>4, <2>1, <2>3
<1>9. ASSUME NEW t \in Threads, Settle(t) PROVE TInv'
  <2>1. Going'
    BY <1>9, PlainGoes DEF Settle
  <2> QED
    BY <1>2, <1>4, <1>9, <2>1, SettleShares DEF Settle
<1>10. ASSUME NEW t \in Threads, Take(t) PROVE TInv'
  <2>1. At(t, "take") /\ UNCHANGED <<shared, latest, crossed, raced, calls>>
    BY <1>10 DEF Take
  <2>2. CASE vault # None /\ Proceed(t, [loc[t] EXCEPT !.v = vault]) /\ UNCHANGED loop
    <3> DEFINE l == [loc[t] EXCEPT !.v = vault]
    <3>1. l \in Locals /\ l.v \in Objects /\ l.asked = loc[t].asked /\ l.form = loc[t].form
          /\ l.target = loc[t].target
      BY <1>1, <2>1, <2>2, StepOf DEF Locals, SharedTypes
    <3> HIDE DEF l
    <3>2. Proceed(t, l) /\ loop' = loop
      BY <2>2 DEF l
    <3>3. Going'
      BY <2>1, <3>1, <3>2, StepGoes
    <3> QED
      BY <1>2, <1>3, <1>4, <2>1, <3>3
  <2>3. CASE DefaultPolicy(t)
    BY <1>2, <1>3, <1>4, <2>1, <2>3, DefaultGoes
  <2>4. CASE Raise(t)
    BY <1>2, <1>3, <1>4, <2>1, <2>4, RaiseGoes
  <2> QED
    BY <1>10, <2>2, <2>3, <2>4 DEF Take
<1>11. ASSUME NEW t \in Threads, Unlock(t) PROVE TInv'
  <2>1. At(t, "unlock") /\ UNCHANGED <<file, pointer, vault, latest, crossed, raced, calls>>
    BY <1>11 DEF Unlock
  <2>2. loc[t].v \in Objects
    BY <2>1, StepOf DEF Ready, Ahead, UsesVault
  <2>3. SharedTypes'
    BY <1>1, <1>11, <2>1, <2>2 DEF Unlock, SharedTypes
  <2>4. Going'
    BY <1>11, <2>1, PlainGoes, RaiseGoes DEF Unlock
  <2> QED
    BY <1>2, <1>4, <2>1, <2>3, <2>4
<1>12. ASSUME NEW t \in Threads, GetData(t) PROVE TInv'
  <2>1. At(t, "data") /\ UNCHANGED <<shared, latest, crossed, raced, calls>>
    BY <1>12 DEF GetData
  <2>2. CASE Proceed(t, [loc[t] EXCEPT !.d = loc[t].v]) /\ UNCHANGED loop
    <3> DEFINE l == [loc[t] EXCEPT !.d = loc[t].v]
    <3>1. loc[t].v \in Objects
      BY <2>1, StepOf DEF Ready, Ahead, UsesVault
    <3>2. l \in Locals /\ l.d \in Objects /\ l.asked = loc[t].asked /\ l.form = loc[t].form
          /\ l.target = loc[t].target
      BY <2>1, <3>1, StepOf DEF Locals
    <3> HIDE DEF l
    <3>3. Proceed(t, l) /\ loop' = loop
      BY <2>2 DEF l
    <3>4. Going'
      BY <2>1, <3>2, <3>3, StepGoes
    <3> QED
      BY <1>2, <1>3, <1>4, <2>1, <3>4
  <2>3. CASE Raise(t)
    BY <1>2, <1>3, <1>4, <2>1, <2>3, RaiseGoes
  <2> QED
    BY <1>12, <2>2, <2>3 DEF GetData
<1>13. ASSUME NEW t \in Threads, Compare(t) PROVE TInv'
  BY <1>2, <1>3, <1>4, <1>13, SwitchGoes DEF Compare
<1>14. ASSUME NEW t \in Threads, Exists(t) PROVE TInv'
  BY <1>2, <1>3, <1>4, <1>14, PlainGoes, RaiseGoes DEF Exists
<1>15. ASSUME NEW t \in Threads, Point(t) PROVE TInv'
  <2>1. /\ At(t, "point") /\ pointer' = loc[t].asked /\ crossed' \in BOOLEAN
        /\ raced' = raced \/ raced' = raced \cup {loc[t].asked}
        /\ UNCHANGED <<file, vault, object, loop, latest, calls>>
    BY <1>5, <1>15 DEF Point, Race
  <2>2. pointer' \in Names /\ loc[t].asked \in Names
    BY <2>1, StepOf
  <2>3. Going'
    BY <1>15, PlainGoes DEF Point
  <2> QED
    BY <1>1, <1>2, <2>1, <2>2, <2>3 DEF SharedTypes, History
<1>16. ASSUME NEW t \in Threads, Reset(t) PROVE TInv'
  <2>1. /\ vault' = None /\ crossed' \in BOOLEAN
        /\ UNCHANGED <<file, pointer, object, loop, latest, raced, calls>>
    BY <1>5, <1>16 DEF Reset
  <2>2. Going'
    BY <1>16, PlainGoes DEF Reset
  <2> QED
    BY <1>1, <1>2, <2>1, <2>2 DEF SharedTypes, History
<1>17. ASSUME NEW t \in Threads, Target(t) PROVE TInv'
  <2> DEFINE l == [loc[t] EXCEPT !.target = object[loc[t].d].name]
  <2>1. At(t, "target") /\ Proceed(t, l) /\ UNCHANGED <<shared, loop, latest, crossed, raced, calls>>
    BY <1>17 DEF Target
  <2>2. object[loc[t].d].name \in Names
    <3>1. loc[t].d \in Objects
      BY <2>1, StepOf DEF Ready, Ahead, UsesData
    <3> QED
      BY <1>1, <3>1 DEF SharedTypes
  <2>3. l \in Locals /\ l.target \in Names /\ l.asked = loc[t].asked /\ l.form = loc[t].form
    BY <2>1, <2>2, StepOf DEF Locals
  <2> HIDE DEF l
  <2>4. Going'
    BY <2>1, <2>3, StepGoes
  <2> QED
    BY <1>2, <1>3, <1>4, <2>1, <2>4
<1>18. ASSUME NEW t \in Threads, IsUnlocked(t) PROVE TInv'
  BY <1>2, <1>3, <1>4, <1>18, PlainGoes, DefaultGoes DEF IsUnlocked
<1>19. ASSUME NEW t \in Threads, Policy(t) PROVE TInv'
  <2>1. At(t, "policy") /\ UNCHANGED <<shared, latest, crossed, raced, calls>>
    BY <1>19 DEF Policy
  <2>2. CASE Proceed(t, [loc[t] EXCEPT !.policy = object[loc[t].v].name]) /\ UNCHANGED loop
    <3> DEFINE l == [loc[t] EXCEPT !.policy = object[loc[t].v].name]
    <3>1. loc[t].v \in Objects
      BY <2>1, StepOf DEF Ready, Ahead, UsesVault
    <3>2. object[loc[t].v].name \in Names
      BY <1>1, <3>1 DEF SharedTypes
    <3>3. l \in Locals /\ l.asked = loc[t].asked /\ l.form = loc[t].form
          /\ l.target = loc[t].target
      BY <2>1, <3>2, StepOf DEF Locals
    <3> HIDE DEF l
    <3>4. Proceed(t, l) /\ loop' = loop
      BY <2>2 DEF l
    <3>5. Going'
      BY <2>1, <3>3, <3>4, StepGoes
    <3> QED
      BY <1>2, <1>3, <1>4, <2>1, <3>5
  <2>3. CASE DefaultPolicy(t)
    BY <1>2, <1>3, <1>4, <2>1, <2>3, DefaultGoes
  <2> QED
    BY <1>19, <2>2, <2>3 DEF Policy
<1>20. ASSUME NEW t \in Threads, Act(t) PROVE TInv'
  BY <1>2, <1>3, <1>4, <1>20, PlainGoes DEF Act
<1>21. ASSUME NEW t \in Threads, Edit(t) PROVE TInv'
  <2>1. /\ At(t, "edit") /\ Proceed(t, loc[t]) /\ loop' = loop
        /\ object' = [object EXCEPT ![loc[t].d].form = loc[t].form]
        /\ latest' = [latest EXCEPT ![loc[t].asked] = loc[t].form]
        /\ UNCHANGED <<file, pointer, vault, crossed, raced, calls>>
    BY <1>21 DEF Edit
  <2>2. loc[t].d \in Objects /\ loc[t].form \in Forms /\ loc[t].asked \in Names
    BY <2>1, StepOf DEF Ready, Ahead, UsesData
  <2>3. Going'
    BY <2>1, PlainGoes
  <2>4. SharedTypes' /\ History'
    BY <1>1, <2>1, <2>2 DEF SharedTypes, History
  <2> QED
    BY <1>2, <2>3, <2>4
<1>22. ASSUME NEW t \in Threads, Save(t) PROVE TInv'
  <2>1. At(t, "save") /\ UNCHANGED <<pointer, vault, object, loop, latest, crossed, raced, calls>>
    BY <1>22 DEF Save
  <2>2. loc[t].v \in Objects /\ "save" \in StepsOf(t)
    BY <2>1, StepOf DEF Ready, Ahead, UsesVault
  <2>3. SharedTypes'
    BY <1>1, <1>22, <2>1, <2>2 DEF Save, SharedTypes
  <2>4. CASE Proceed(t, loc[t])
    BY <1>2, <1>4, <2>1, <2>3, <2>4, PlainGoes
  <2>5. CASE Done(t)
    <3>1. Going'
      BY <1>1, <2>1, <2>5, DoneReady, StaysOnLoop DEF Going
    <3> QED
      BY <1>2, <1>4, <2>1, <2>3, <3>1
  <2> QED
    BY <1>22, <2>4, <2>5 DEF Save
<1>23. ASSUME NEW t \in Threads, CheckActive(t) PROVE TInv'
  <2>1. At(t, "check_active") /\ UNCHANGED <<shared, loop, latest, crossed, raced, calls>>
    BY <1>23 DEF CheckActive
  <2>2. Going'
    BY <1>1, <1>23, <2>1, DoneReady, StaysOnLoop, PlainGoes DEF CheckActive, Going
  <2> QED
    BY <1>2, <1>3, <1>4, <2>1, <2>2
<1>24. ASSUME NEW t \in Threads, ArchiveFile(t) PROVE TInv'
  <2>1. /\ At(t, "archive") /\ file' = [file EXCEPT ![loc[t].asked] = None]
        /\ crossed' \in BOOLEAN /\ UNCHANGED <<pointer, vault, object, loop, latest, calls>>
        /\ raced' = raced \/ raced' = raced \cup {loc[t].asked}
    BY <1>5, <1>24 DEF ArchiveFile, Race
  <2>2. Going'
    BY <1>24, PlainGoes DEF ArchiveFile
  <2>3. loc[t].asked \in Names
    BY <2>1, StepOf
  <2> QED
    BY <1>1, <1>2, <2>1, <2>2, <2>3 DEF SharedTypes, History
<1>25. CASE UNCHANGED vars
  BY <1>25 DEF vars, TInv, Types, Ready, OnLoop, At, Ahead, StepsOf
<1> QED
  BY <1>6, <1>7, <1>8, <1>9, <1>10, <1>11, <1>12, <1>13, <1>14, <1>15, <1>16, <1>17, <1>18,
     <1>19, <1>20, <1>21, <1>22, <1>23, <1>24, <1>25 DEF Next

\* Every variable stays in its domain, and no request goes on with the None that
\* get_vault() can return where another one dropped the object: it is always the
\* look-up right before that gave it one, for any number of requests at a time.
THEOREM SpecTypeOK == Spec => []TypeOK
<1>1. TInv => TypeOK
  <2> SUFFICES ASSUME TInv PROVE TypeOK
    OBVIOUS
  <2>1. \A t \in Threads : At(t, "unlock") \/ At(t, "data") \/ At(t, "save") => loc[t].v # None
    <3>1. None \notin Objects
      <4>1. Objects \subseteq Nat
        BY RequestsAssumption, FS_CardinalityType DEF Objects, Threads
      <4> QED
        BY <4>1, RequestsAssumption
    <3> QED
      BY <3>1 DEF TInv, Ready, At, Ahead, UsesVault
  <2>2. todo \in [Threads -> Seq(StepNames)]
    BY DEF TInv, Types, Plans
  <2> QED
    BY <2>1, <2>2 DEF TInv, Types, TypeOK, Locals
<1> QED
  BY TInit, TStep, <1>1, PTL DEF Spec


----------------------------------------------------------------------------
(* Requests that nothing has crossed                                       *)

\* What every step leaves alone but those that switch or archive a definition.
Steady ==
    /\ pointer' = pointer
    /\ VaultIsActive => VaultIsActive' /\ vault' = vault
    /\ VaultIsActive /\ object[vault].form = latest[pointer] =>
        object'[vault'].form = latest'[pointer']

Elsewhere(t) == \A u \in Threads \ {t} : todo'[u] = todo[u] /\ loc'[u] = loc[u]

\* A step that changes nothing shared is steady.
LEMMA Unshared ==
    ASSUME UNCHANGED <<pointer, vault, object, latest>>
    PROVE  Steady
BY DEF Steady, VaultIsActive

\* A step of one thread is none of another's.
LEMMA ProceedElsewhere ==
    ASSUME TInv, NEW t \in Threads, NEW step, At(t, step), NEW l, Proceed(t, l)
    PROVE  Elsewhere(t)
<1>1. todo \in [Threads -> Plans] /\ loc \in [Threads -> Locals] /\ todo[t] # <<>>
  BY DEF TInv, Types, At
<1>2. /\ todo' = [todo EXCEPT ![t] = Tail(todo[t])]
      /\ loc' = [loc EXCEPT ![t] = IF Tail(todo[t]) = <<>> THEN NoCall ELSE l]
  BY <1>1, Proceeding
<1> QED
  BY <1>1, <1>2 DEF Elsewhere

\* Nor is the end of its request.
LEMMA DoneElsewhere ==
    ASSUME TInv, NEW t \in Threads, Done(t)
    PROVE  Elsewhere(t) /\ todo'[t] = <<>> /\ loc'[t] = NoCall
BY DEF Done, Local, Elsewhere, TInv, Types

\* What a tool needs, an edit and a save come when the definition has been found active.
LEMMA LateSteps ==
    ASSUME TInv, NEW t \in Threads, NEW step, At(t, step),
           step \in {"target", "is_unlocked", "policy", "act", "edit", "save"}
    PROVE  Late(t)
<1>1. /\ todo[t] \in Plans /\ todo[t] # <<>> /\ Head(todo[t]) = step /\ step \in StepsOf(t)
      /\ Ready(t)
  BY StepOf
<1>2. /\ \A x : Has(todo[t], x) <=> x = step \/ Has(Tail(todo[t]), x)
      /\ \A x \in Early : ~Has(Tail(todo[t]), x)
      /\ Tail(todo[t]) # <<>> => <<step, Head(Tail(todo[t]))>> \in Follows
      /\ step = "edit" => \A x : Has(Tail(todo[t]), x) => x \in AfterEdit
  BY <1>1, PlanTail DEF BeforeEarly
<1>3. CASE step \in {"target", "is_unlocked", "policy", "act"}
  <2>1. \A x \in StepNames : Has(todo[t], x) => x \in AgentSteps
    BY <1>1, <1>3 DEF Ready, StepsOf, AdminSteps
  <2>2. ~Has(todo[t], "check_active") /\ ~Has(todo[t], "archive")
    BY <2>1 DEF StepNames, AgentSteps
  <2> QED
    BY <1>1, <1>2, <1>3, <2>2 DEF Late, Early
<1>4. CASE step = "edit"
  BY <1>1, <1>2, <1>4 DEF Late, Early, AfterEdit
<1>5. CASE step = "save"
  <2>1. Tail(todo[t]) = <<>>
    BY <1>2, <1>5 DEF Follows
  <2> QED
    BY <1>1, <1>2, <1>5, <2>1, PlanShort DEF Late, Early
<1> QED
  BY <1>3, <1>4, <1>5

\* A step other than the switch does not make a request a late one.
LEMMA LateBefore ==
    ASSUME TInv, NEW t \in Threads, NEW step, At(t, step), todo'[t] = Tail(todo[t]), Late(t)',
           step \notin {"compare", "point"}
    PROVE  Late(t)
<1>1. todo[t] \in Plans /\ todo[t] # <<>> /\ Head(todo[t]) = step
  BY StepOf
<1> DEFINE r == Tail(todo[t])
<1>2. /\ \A x : Has(todo[t], x) <=> x = step \/ Has(r, x)
      /\ r \in Plans
      /\ r # <<>> => <<step, Head(r)>> \in Follows
  BY <1>1, PlanTail
<1>3. r # <<>> /\ \A x \in Early \cup {"check_active", "archive"} : ~Has(r, x)
  BY DEF Late
<1>4. Has(r, Head(r))
  BY <1>2, <1>3, PlanTail
<1> HIDE DEF r
<1>5. step \notin Early \cup {"check_active", "archive"}
  BY <1>2, <1>3, <1>4 DEF Follows, Early
<1> QED
  BY <1>1, <1>2, <1>3, <1>5 DEF Late

\* A request that is over, or not begun, needs nothing.
LEMMA OverStraight ==
    ASSUME NEW t \in Threads, todo'[t] = <<>>, loc'[t] = NoCall
    PROVE  Straight(t)'
BY DEF Straight, At, Ahead, Late, NoCall

\* A request is on its way after a step of its own that leaves the shared state steady.
LEMMA OwnStraight ==
    ASSUME TInv, Steady, NEW t \in Threads, Straight(t),
           NEW step, At(t, step), step \notin {"compare", "point", "reset", "archive"},
           NEW l \in Locals, Proceed(t, l), l.asked = loc[t].asked,
           step = "path" => l.path = pointer,
           step = "settle" => VaultIsActive',
           step = "take" => l.v = vault,
           step = "data" => l.d = loc[t].v,
           step = "edit" => VaultIsActive' /\ object'[vault'].form = latest'[pointer'],
           t \in Agents => l.target \in {l.asked, None} /\ l.policy \in {l.asked, None}
    PROVE  Straight(t)' /\ Elsewhere(t)
<1> DEFINE s == todo[t]
           r == Tail(s)
<1>1. /\ s \in Plans /\ s # <<>> /\ Head(s) = step /\ loc[t].asked \in Names /\ Ready(t)
      /\ todo \in [Threads -> Plans] /\ loc \in [Threads -> Locals]
  BY StepOf DEF TInv, Types
<1>2. /\ todo'[t] = r /\ loc'[t] = IF r = <<>> THEN NoCall ELSE l
  BY <1>1, Proceeding
<1>3. /\ r # <<>> => <<step, Head(r)>> \in Follows
      /\ \A x : Has(s, x) <=> x = step \/ Has(r, x)
  BY <1>1, PlanTail
<1>4. Elsewhere(t)
  BY ProceedElsewhere
<1>5. CASE r = <<>>
  BY <1>2, <1>4, <1>5, OverStraight
<1>6. CASE r # <<>>
  <2>1. loc'[t] = l /\ todo'[t] = r /\ pointer' = pointer
    BY <1>2, <1>6 DEF Steady
  <2>2. Late(t)' => Late(t)
    BY <1>2, LateBefore
  <2>3. At(t, "settle")' => loc'[t].path = pointer'
    BY <1>3, <1>6, <2>1 DEF At, Follows
  <2>4. At(t, "take")' => VaultIsActive'
    BY <1>3, <1>6, <2>1 DEF At, Follows
  <2>5. Late(t)' => pointer' = loc'[t].asked
    BY <2>1, <2>2 DEF Straight
  <2>6. Late(t)' /\ Ahead(t, UsesVault)' => VaultIsActive' /\ loc'[t].v = vault'
    <3>1. Ahead(t, UsesVault)' => step = "take"
      BY <1>3, <1>6, <2>1 DEF Ahead, UsesVault, Follows
    <3>2. step = "take" => VaultIsActive
      BY DEF Straight
    <3> QED
      BY <2>1, <3>1, <3>2 DEF Steady
  <2>7. Late(t)' /\ Ahead(t, UsesData)' => VaultIsActive' /\ loc'[t].d = vault'
    <3>1. Ahead(t, UsesData)' => step = "data"
      BY <1>3, <1>6, <2>1 DEF Ahead, UsesData, Follows
    <3>2. step = "data" /\ Late(t) => VaultIsActive /\ loc[t].v = vault
      BY <1>1 DEF Straight, Ahead, UsesVault
    <3> QED
      BY <2>1, <2>2, <3>1, <3>2 DEF Steady
  <2>8. Late(t)' /\ Has(todo'[t], "save") /\ ~Has(todo'[t], "edit") =>
            VaultIsActive' /\ object'[vault'].form = latest'[pointer']
    <3>1. CASE step = "edit"
      BY <3>1
    <3>2. CASE step # "edit"
      <4> SUFFICES ASSUME Late(t)', Has(todo'[t], "save"), ~Has(todo'[t], "edit")
                   PROVE  VaultIsActive' /\ object'[vault'].form = latest'[pointer']
        OBVIOUS
      <4>1. Late(t) /\ Has(s, "save") /\ ~Has(s, "edit")
        BY <1>3, <2>1, <2>2, <3>2
      <4>2. VaultIsActive /\ object[vault].form = latest[pointer]
        BY <4>1 DEF Straight
      <4> QED
        BY <4>2 DEF Steady
    <3> QED
      BY <3>1, <3>2
  <2>9. Straight(t)'
    BY <2>1, <2>3, <2>4, <2>5, <2>6, <2>7, <2>8 DEF Straight
  <2> QED
    BY <1>4, <2>9
<1> QED
  BY <1>5, <1>6

\* So it is after a step that learns nothing and changes nothing they share.
LEMMA PlainStraight ==
    ASSUME TInv, Steady, NEW t \in Threads, Straight(t),
           NEW step, At(t, step), Proceed(t, loc[t]),
           step \in {"unlock", "exists", "is_unlocked", "act", "check_active", "enter", "leave",
                     "save"}
    PROVE  Straight(t)' /\ Elsewhere(t)
<1>1. loc[t] \in Locals
  BY StepOf
<1>2. t \in Agents => /\ loc[t].target \in {loc[t].asked, None}
                      /\ loc[t].policy \in {loc[t].asked, None}
  BY DEF Straight
<1> QED
  BY <1>1, <1>2, OwnStraight

\* The steps that switch or archive leave the request itself on its way.
LEMMA SwitchStraight ==
    ASSUME TInv, NEW t \in Threads, Straight(t),
           NEW step, At(t, step), step \in {"point", "reset", "archive"}, Proceed(t, loc[t]),
           IF step = "point" THEN pointer' = loc[t].asked ELSE pointer' = pointer
    PROVE  Straight(t)' /\ Elsewhere(t)
<1> DEFINE s == todo[t]
           r == Tail(s)
<1>1. /\ s \in Plans /\ s # <<>> /\ Head(s) = step /\ Ready(t)
      /\ todo \in [Threads -> Plans] /\ loc \in [Threads -> Locals]
  BY StepOf DEF TInv, Types
<1>2. /\ todo'[t] = r /\ loc'[t] = IF r = <<>> THEN NoCall ELSE loc[t]
  BY <1>1, Proceeding
<1>3. /\ r # <<>> => <<step, Head(r)>> \in Follows
      /\ \A x : Has(s, x) <=> x = step \/ Has(r, x)
      /\ step \in StepNames
  BY <1>1, PlanTail
<1>4. Elsewhere(t)
  BY ProceedElsewhere
<1>5. CASE r = <<>>
  BY <1>2, <1>4, <1>5, OverStraight
<1>6. CASE r # <<>>
  <2>1. loc'[t] = loc[t] /\ todo'[t] = r
    BY <1>2, <1>6
  <2>2. Head(r) \in {"reset", "path"}
    BY <1>3, <1>6 DEF Follows
  <2>3. Late(t)' => pointer' = loc'[t].asked
    <3>1. CASE step = "point"
      BY <2>1, <3>1
    <3>2. CASE step # "point"
      <4>1. Late(t)' => Late(t)
        BY <1>2, <3>2, LateBefore
      <4> QED
        BY <2>1, <3>2, <4>1 DEF Straight
    <3> QED
      BY <3>1, <3>2
  <2>4. Has(r, "save") => Has(r, "edit")
    <3>1. step \notin AfterEdit /\ step # "edit"
      BY DEF AfterEdit
    <3> QED
      BY <1>1, <1>3, <3>1 DEF Ready
  <2>5. Straight(t)'
    BY <2>1, <2>2, <2>3, <2>4 DEF Straight, At, Ahead, UsesVault, UsesData
  <2> QED
    BY <1>4, <2>5
<1> QED
  BY <1>5, <1>6

\* The default policy is for a request that has found its definition active.
LEMMA DefaultStraight ==
    ASSUME TInv, Steady, NEW t \in Threads, Straight(t), todo[t] # <<>>, DefaultPolicy(t)
    PROVE  Straight(t)' /\ Elsewhere(t)
<1>1. /\ t \in Agents /\ todo' = [todo EXCEPT ![t] = <<"act", "leave">>] /\ loc' = loc
      /\ loc[t].target # None /\ Ready(t) /\ todo \in [Threads -> Plans]
  BY DefaultReady DEF DefaultPolicy, TInv, Types
<1>2. todo'[t] = <<"act", "leave">> /\ loc'[t] = loc[t] /\ pointer' = pointer /\ Elsewhere(t)
  BY <1>1 DEF Elsewhere, Steady
<1>3. Late(t)
  <2>1. \A x \in Early : ~Has(todo[t], x)
    BY <1>1 DEF Ready
  <2>2. ~Has(todo[t], "check_active") /\ ~Has(todo[t], "archive")
    BY <1>1, RequestsAssumption DEF Ready, StepsOf, AgentSteps, StepNames
  <2> QED
    BY <2>1, <2>2 DEF Late
<1>4. pointer = loc[t].asked
  BY <1>3 DEF Straight
<1> DEFINE s == <<"act", "leave">>
<1>5. s # <<>> /\ Head(s) = "act" /\ ~Has(s, "save")
  BY PiecesOfPlans DEF Piece
<1>6. todo'[t] = s
  BY <1>2
<1> HIDE DEF s
<1>7. Straight(t)'
  BY <1>2, <1>4, <1>5, <1>6 DEF Straight, At, Ahead, UsesVault, UsesData
<1> QED
  BY <1>2, <1>7

\* A comparison leaves the request on its way, with a switch or without.
LEMMA CompareStraight ==
    ASSUME TInv, NEW t \in Threads, Straight(t), Compare(t)
    PROVE  Straight(t)' /\ Elsewhere(t)
<1> DEFINE r == Tail(todo[t])
           q == Select \o r
           n == IF pointer = loc[t].asked THEN r ELSE q
<1>1. /\ At(t, "compare") /\ loc' = loc /\ pointer' = pointer
      /\ todo' = [todo EXCEPT ![t] = n]
  BY DEF Compare, shared
<1>2. /\ todo[t] \in Plans /\ todo[t] # <<>> /\ Head(todo[t]) = "compare" /\ Ready(t)
      /\ todo \in [Threads -> Plans]
  BY <1>1, StepOf DEF TInv, Types
<1>3. /\ r # <<>> => Head(r) = "path"
      /\ \A x : Has(todo[t], x) <=> x = "compare" \/ Has(r, x)
      /\ "compare" \in StepNames
  BY <1>2, PlanTail DEF Follows
<1>4. /\ q # <<>> /\ Head(q) = "exists"
      /\ \A x : Has(q, x) <=> x \in {"exists", "point", "reset"} \/ Has(r, x)
  BY <1>2, PlanSwitch
<1>5. todo'[t] = n /\ loc'[t] = loc[t] /\ Elsewhere(t)
  BY <1>1, <1>2 DEF Elsewhere
<1> HIDE DEF q, r
<1>6. /\ n # <<>> => Head(n) \in {"path", "exists"}
      /\ pointer # loc[t].asked => Has(n, "exists")
      /\ \A x : Has(r, x) => Has(n, x)
  BY <1>3, <1>4
<1>7. Has(n, "save") => Has(n, "edit")
  <2>1. "compare" \notin AfterEdit /\ "compare" \in StepNames
    BY <1>3 DEF AfterEdit
  <2>2. Has(todo[t], "save") => Has(todo[t], "edit")
    BY <1>2, <1>3, <2>1 DEF Ready
  <2> QED
    BY <1>3, <1>4, <1>6, <2>2
<1> HIDE DEF n
<1>8. Straight(t)'
  BY <1>1, <1>5, <1>6, <1>7 DEF Straight, At, Ahead, UsesVault, UsesData, Late, Early
<1> QED
  BY <1>5, <1>8

\* A request that begins is not a late one.
LEMMA RequestStraight ==
    ASSUME TInv, NEW t \in Threads, Request(t)
    PROVE  Straight(t)' /\ Elsewhere(t)
<1>1. PICK n \in Names, f \in Forms \cup {None},
            steps \in {AgentCall, Update, Select, Archive} :
         Begin(t, n, f, steps)
  BY RequestsAssumption DEF Request
<1> DEFINE l == [NoCall EXCEPT !.asked = n, !.form = f]
<1>2. l.target = None /\ l.policy = None
  BY DEF NoCall
<1>3. todo' = [todo EXCEPT ![t] = steps] /\ loc' = [loc EXCEPT ![t] = l]
  BY <1>1 DEF Begin, Local
<1> HIDE DEF l
<1>4. todo'[t] = steps /\ loc'[t] = l /\ Elsewhere(t)
  BY <1>3 DEF Elsewhere, TInv, Types
<1>5. /\ Head(steps) \in {"enter", "compare", "exists", "check_active"}
      /\ \/ Has(steps, "compare") \/ Has(steps, "exists") \/ Has(steps, "check_active")
  <2>1. CASE steps = AgentCall
    BY <2>1, PiecesOfCalls DEF Piece
  <2>2. CASE steps = Update
    BY <2>2, PiecesOfCalls DEF Piece
  <2>3. CASE steps \in {Select, Archive}
    BY <2>3, PiecesOfPlans DEF Piece
  <2> QED
    BY <1>1, <2>1, <2>2, <2>3
<1>6. ~Late(t)'
  BY <1>4, <1>5 DEF Late, Early
<1>7. Straight(t)'
  BY <1>2, <1>4, <1>5, <1>6 DEF Straight, At
<1> QED
  BY <1>4, <1>7

\* Requests that take no step are not disturbed by a steady one.
LEMMA OthersStraight ==
    ASSUME TInv, CInv, Steady, crossed' = crossed, NEW t \in Threads, Elsewhere(t),
           ~crossed => Straight(t)'
    PROVE  CInv'
<1> SUFFICES ASSUME ~crossed
             PROVE  \A u \in Threads : Straight(u)'
  BY DEF CInv
<1>1. \A u \in Threads : Straight(u)
  BY DEF CInv
<1>3. ASSUME NEW u \in Threads, u # t PROVE Straight(u)'
  <2>1. /\ todo'[u] = todo[u] /\ loc'[u] = loc[u] /\ Straight(u)
        /\ todo[u] # <<>> => loc[u].asked \in Names
    BY <1>1, <1>3 DEF Elsewhere, TInv, Ready
  <2>2. (At(u, "settle") => loc[u].path = pointer)'
    BY <2>1 DEF Straight, Steady, At
  <2>3. (At(u, "take") => VaultIsActive)'
    BY <2>1 DEF Straight, Steady, At
  <2>4. Late(u)' <=> Late(u)
    BY <2>1 DEF Late
  <2>5. (Late(u) => pointer = loc[u].asked)'
    BY <2>1, <2>4 DEF Straight, Steady
  <2>6. (Late(u) /\ Ahead(u, UsesVault) => VaultIsActive /\ loc[u].v = vault)'
    BY <2>1, <2>4 DEF Straight, Steady, Ahead
  <2>7. (Late(u) /\ Ahead(u, UsesData) => VaultIsActive /\ loc[u].d = vault)'
    BY <2>1, <2>4 DEF Straight, Steady, Ahead
  <2>8. (Late(u) /\ Has(todo[u], "save") /\ ~Has(todo[u], "edit") =>
             VaultIsActive /\ object[vault].form = latest[pointer])'
    BY <2>1, <2>4 DEF Straight, Steady
  <2>9. Straight(u)'
    BY <2>1, <2>2, <2>3, <2>5, <2>6, <2>7, <2>8 DEF Straight
  <2> QED
    BY <2>9
<1> QED
  BY <1>3

\* Nor are they by a switch that nobody is beside: at most they wait to enter.
LEMMA AloneStraight ==
    ASSUME TInv, CInv, NEW t \in Threads, NEW step, At(t, step), step # "enter",
           ~crossed', Cross(t), Elsewhere(t), Straight(t)'
    PROVE  CInv'
<1>1. ~crossed /\ ~Beside(t)
  BY DEF Cross
<1>2. /\ \A u \in Threads : Straight(u) /\ Ready(u) /\ OnLoop(u)
      /\ loop \in Agents \cup {None}
  BY <1>1 DEF CInv, TInv, Types
<1>3. ASSUME NEW u \in Threads, u # t PROVE Straight(u)'
  <2>1. todo'[u] = todo[u] /\ loc'[u] = loc[u] /\ Straight(u) /\ Ready(u)
    BY <1>2, <1>3 DEF Elsewhere
  <2>2. CASE todo[u] = <<>>
    BY <2>1, <2>2 DEF Straight, At, Ahead, Late
  <2>3. CASE todo[u] # <<>>
    <3>1. {t, u} \subseteq Agents
      BY <1>1, <1>3, <2>3 DEF Beside
    <3>2. loop = t
      BY <1>2, <3>1 DEF OnLoop, At
    <3>3. At(u, "enter")
      BY <1>2, <1>3, <2>3, <3>1, <3>2 DEF OnLoop
    <3>4. Has(todo[u], "compare")
      BY <2>1, <3>3, StepOf DEF Ready
    <3>5. ~Late(u)
      BY <3>4 DEF Late, Early
    <3>6. Head(todo[u]) = "enter"
      BY <3>3 DEF At
    <3> QED
      BY <2>1, <3>5, <3>6 DEF Straight, At, Late
  <2> QED
    BY <2>2, <2>3
<1> QED
  BY <1>3 DEF CInv

\* A look-up of the vault by a request on its way finds or makes one of the active definition.
LEMMA SettleSteady ==
    ASSUME TInv, NEW t \in Threads, Straight(t), Settle(t)
    PROVE  Steady /\ VaultIsActive'
<1>1. /\ At(t, "settle") /\ loc[t].path = pointer /\ UNCHANGED <<file, pointer, latest>>
      /\ vault \in Objects \cup {None}
  BY DEF Settle, Straight, TInv, Types
<1>2. CASE vault # None /\ object[vault].name = loc[t].path /\ UNCHANGED <<vault, object>>
  BY <1>1, <1>2, Unshared DEF VaultIsActive
<1>3. CASE ~(vault # None /\ object[vault].name = loc[t].path)
  <2> DEFINE v == CHOOSE o \in Objects \ InUse : TRUE
  <2>1. v \in Objects
    BY FreeObject
  <2>2. /\ vault' = v
        /\ object' = [o \in Objects |-> IF o = v THEN [name |-> loc[t].path, form |-> None]
                                        ELSE IF o \in InUse THEN object[o] ELSE Unborn]
    BY <1>3 DEF Settle
  <2> HIDE DEF v
  <2>3. ~VaultIsActive
    <3>1. None \notin Objects
      <4>1. Objects \subseteq Nat
        BY RequestsAssumption, FS_CardinalityType DEF Objects, Threads
      <4> QED
        BY <4>1, RequestsAssumption
    <3> QED
      BY <1>1, <1>3, <3>1 DEF VaultIsActive
  <2>4. object'[v].name = pointer
    BY <1>1, <2>1, <2>2
  <2>5. VaultIsActive'
    BY <1>1, <2>1, <2>2, <2>4 DEF VaultIsActive
  <2> QED
    BY <1>1, <2>3, <2>5 DEF Steady
<1> QED
  BY <1>2, <1>3 DEF Settle

\* Unlocking fills an object that is locked, and so none that holds a form.
LEMMA UnlockSteady ==
    ASSUME TInv, NEW t \in Threads, Unlock(t)
    PROVE  Steady
<1>1. /\ At(t, "unlock") /\ UNCHANGED <<file, pointer, vault, latest>>
      /\ \/ UNCHANGED object
         \/ /\ Locked(t)
            /\ object' = [object EXCEPT ![loc[t].v].form = file[object[loc[t].v].name]]
  BY DEF Unlock
<1>2. /\ object \in [Objects -> [name : Names, form : Forms \cup {None}]]
      /\ latest \in [Names -> Forms] /\ pointer \in Names
  BY DEF TInv, Types
<1>3. CASE UNCHANGED object
  BY <1>1, <1>3, Unshared
<1>4. CASE /\ Locked(t)
           /\ object' = [object EXCEPT ![loc[t].v].form = file[object[loc[t].v].name]]
  <2>1. \A o \in Objects : /\ object'[o].name = object[o].name
                           /\ o # loc[t].v => object'[o] = object[o]
    BY <1>2, <1>4
  <2>2. VaultIsActive => VaultIsActive' /\ vault' = vault
    BY <1>1, <2>1 DEF VaultIsActive
  <2>3. latest[pointer] # None
    BY <1>2, RequestsAssumption
  <2>4. VaultIsActive /\ object[vault].form = latest[pointer] =>
            object'[vault'].form = latest'[pointer']
    BY <1>1, <1>4, <2>1, <2>3 DEF VaultIsActive, Locked
  <2> QED
    BY <1>1, <2>2, <2>4 DEF Steady
<1> QED
  BY <1>1, <1>3, <1>4

\* An edit of a request on its way changes the cached object and its definition's form.
LEMMA EditSteady ==
    ASSUME TInv, NEW t \in Threads, Straight(t), Edit(t)
    PROVE  Steady /\ VaultIsActive' /\ object'[vault'].form = latest'[pointer']
<1>1. /\ At(t, "edit") /\ UNCHANGED <<file, pointer, vault>>
      /\ object' = [object EXCEPT ![loc[t].d].form = loc[t].form]
      /\ latest' = [latest EXCEPT ![loc[t].asked] = loc[t].form]
  BY DEF Edit
<1>2. /\ object \in [Objects -> [name : Names, form : Forms \cup {None}]]
      /\ latest \in [Names -> Forms] /\ pointer \in Names
  BY DEF TInv, Types
<1>3. Late(t) /\ Ahead(t, UsesData)
  BY <1>1, LateSteps DEF At, Ahead, UsesData
<1>4. VaultIsActive /\ loc[t].d = vault /\ pointer = loc[t].asked
  BY <1>3 DEF Straight
<1>5. VaultIsActive' /\ object'[vault'].form = loc[t].form /\ latest'[pointer'] = loc[t].form
  BY <1>1, <1>2, <1>4 DEF VaultIsActive
<1> QED
  BY <1>1, <1>5 DEF Steady

\* At first there is no request.
LEMMA CInit == Init => CInv
<1> SUFFICES ASSUME Init PROVE CInv
  OBVIOUS
<1>1. \A t \in Threads : todo[t] = <<>> /\ loc[t] = NoCall
  BY DEF Init
<1> QED
  BY <1>1 DEF CInv, Straight, At, Ahead, Late, NoCall

\* The invariant of undisturbed requests is kept: a steady step keeps what the other requests
\* found, and a step that switches or archives is taken while no other request is under way.
LEMMA CStep == TInv /\ CInv /\ [Next]_vars => CInv'
<1> SUFFICES ASSUME TInv, CInv, [Next]_vars PROVE CInv'
  OBVIOUS
<1> USE DEF shared
<1>1. ASSUME crossed PROVE CInv'
  <2>1. ASSUME NEW t \in Threads, Request(t) \/ Enter(t) \/ Leave(t) \/ GetPath(t) \/ Settle(t)
                                 \/ Take(t) \/ Unlock(t) \/ GetData(t) \/ Compare(t) \/ Exists(t)
        PROVE  UNCHANGED crossed
    BY <2>1 DEF Request, Begin, Enter, Leave, GetPath, Settle, Take, Unlock, GetData, Compare,
                Exists
  <2>2. ASSUME NEW t \in Threads, Target(t) \/ IsUnlocked(t) \/ Policy(t) \/ Act(t) \/ Edit(t)
                                 \/ Save(t) \/ CheckActive(t)
        PROVE  UNCHANGED crossed
    BY <2>2 DEF Target, IsUnlocked, Policy, Act, Edit, Save, CheckActive
  <2>3. ASSUME NEW t \in Threads, Point(t) \/ Reset(t) \/ ArchiveFile(t) PROVE crossed'
    BY <1>1, <2>3 DEF Point, Reset, ArchiveFile, Cross
  <2>4. crossed'
    BY <1>1, <2>1, <2>2, <2>3 DEF Next, vars
  <2> QED
    BY <2>4 DEF CInv
<1> SUFFICES ASSUME ~crossed PROVE CInv'
  BY <1>1
<1>2. /\ \A t \in Threads : Straight(t)
      /\ file \in [Names -> Forms \cup {None}] /\ pointer \in Names
  BY DEF CInv, TInv, Types
\* A steady step that leaves the request of its thread on its way.
<1>3. ASSUME NEW t \in Threads, Steady, crossed' = crossed,
             Straight(t)' /\ Elsewhere(t)
      PROVE  CInv'
  BY <1>3, OthersStraight
<1>4. ASSUME NEW t \in Threads, Steady, crossed' = crossed, Done(t) PROVE CInv'
  BY <1>3, <1>4, DoneElsewhere, OverStraight
<1>5. ASSUME NEW t \in Threads, Steady, crossed' = crossed, Raise(t) PROVE CInv'
  BY <1>4, <1>5 DEF Raise
<1>6. ASSUME NEW t \in Threads, Steady, crossed' = crossed, todo[t] # <<>>, DefaultPolicy(t)
      PROVE  CInv'
  BY <1>2, <1>3, <1>6, DefaultStraight
<1>7. ASSUME NEW t \in Threads, Request(t) PROVE CInv'
  <2>1. UNCHANGED <<shared, latest, crossed>>
    BY <1>7 DEF Request, Begin
  <2> QED
    BY <1>3, <1>7, <2>1, Unshared, RequestStraight
<1>8. ASSUME NEW t \in Threads, Enter(t) \/ Leave(t) PROVE CInv'
  <2>1. UNCHANGED <<shared, latest, crossed>> /\ Steady
    BY <1>8, Unshared DEF Enter, Leave
  <2> QED
    BY <1>2, <1>3, <1>8, <2>1, PlainStraight DEF Enter, Leave
<1>9. ASSUME NEW t \in Threads, GetPath(t) PROVE CInv'
  <2> DEFINE l == [loc[t] EXCEPT !.path = pointer]
  <2>1. At(t, "path") /\ Proceed(t, l) /\ UNCHANGED <<shared, latest, crossed>> /\ Steady
    BY <1>9, Unshared DEF GetPath
  <2>2. /\ l \in Locals /\ l.path = pointer /\ l.asked = loc[t].asked
        /\ l.target = loc[t].target /\ l.policy = loc[t].policy
    BY <1>2, <2>1, StepOf DEF Locals
  <2> HIDE DEF l
  <2>3. t \in Agents => l.target \in {l.asked, None} /\ l.policy \in {l.asked, None}
    BY <1>2, <2>2 DEF Straight
  <2> QED
    BY <1>2, <1>3, <2>1, <2>2, <2>3, OwnStraight
<1>10. ASSUME NEW t \in Threads, Settle(t) PROVE CInv'
  <2>1. At(t, "settle") /\ Proceed(t, loc[t]) /\ crossed' = crossed /\ loc[t] \in Locals
    BY <1>10, StepOf DEF Settle
  <2>2. Steady /\ VaultIsActive'
    BY <1>2, <1>10, SettleSteady
  <2>3. t \in Agents => /\ loc[t].target \in {loc[t].asked, None}
                        /\ loc[t].policy \in {loc[t].asked, None}
    BY <1>2 DEF Straight
  <2> QED
    BY <1>2, <1>3, <2>1, <2>2, <2>3, OwnStraight
<1>11. ASSUME NEW t \in Threads, Take(t) PROVE CInv'
  <2>1. At(t, "take") /\ UNCHANGED <<shared, latest, crossed>> /\ Steady /\ todo[t] # <<>>
    BY <1>11, Unshared DEF Take, At
  <2>2. CASE vault # None /\ Proceed(t, [loc[t] EXCEPT !.v = vault])
    <3> DEFINE l == [loc[t] EXCEPT !.v = vault]
    <3>1. /\ l \in Locals /\ l.v = vault /\ l.asked = loc[t].asked
          /\ l.target = loc[t].target /\ l.policy = loc[t].policy
      BY <2>1, <2>2, StepOf DEF Locals, TInv, Types
    <3>2. Proceed(t, l)
      BY <2>2
    <3> HIDE DEF l
    <3>3. t \in Agents => l.target \in {l.asked, None} /\ l.policy \in {l.asked, None}
      BY <1>2, <3>1 DEF Straight
    <3> QED
      BY <1>2, <1>3, <2>1, <3>1, <3>2, <3>3, OwnStraight
  <2>3. CASE DefaultPolicy(t) \/ Raise(t)
    BY <1>5, <1>6, <2>1, <2>3
  <2> QED
    BY <1>11, <2>2, <2>3 DEF Take
<1>12. ASSUME NEW t \in Threads, Unlock(t) PROVE CInv'
  <2>1. At(t, "unlock") /\ crossed' = crossed /\ Steady
    BY <1>12, UnlockSteady DEF Unlock
  <2>2. Proceed(t, loc[t]) \/ Raise(t)
    BY <1>12 DEF Unlock
  <2> QED
    BY <1>2, <1>3, <1>5, <2>1, <2>2, PlainStraight
<1>13. ASSUME NEW t \in Threads, GetData(t) PROVE CInv'
  <2>1. At(t, "data") /\ UNCHANGED <<shared, latest, crossed>> /\ Steady
    BY <1>13, Unshared DEF GetData
  <2>2. CASE Proceed(t, [loc[t] EXCEPT !.d = loc[t].v])
    <3> DEFINE l == [loc[t] EXCEPT !.d = loc[t].v]
    <3>1. /\ l \in Locals /\ l.d = loc[t].v /\ l.asked = loc[t].asked
          /\ l.target = loc[t].target /\ l.policy = loc[t].policy
      BY <2>1, StepOf DEF Locals
    <3>2. Proceed(t, l)
      BY <2>2
    <3> HIDE DEF l
    <3>3. t \in Agents => l.target \in {l.asked, None} /\ l.policy \in {l.asked, None}
      BY <1>2, <3>1 DEF Straight
    <3> QED
      BY <1>2, <1>3, <2>1, <3>1, <3>2, <3>3, OwnStraight
  <2>3. CASE Raise(t)
    BY <1>5, <2>1, <2>3
  <2> QED
    BY <1>13, <2>2, <2>3 DEF GetData
<1>14. ASSUME NEW t \in Threads, Compare(t) PROVE CInv'
  <2>1. UNCHANGED <<shared, latest, crossed>> /\ Steady
    BY <1>14, Unshared DEF Compare
  <2> QED
    BY <1>2, <1>3, <1>14, <2>1, CompareStraight
<1>15. ASSUME NEW t \in Threads, Exists(t) PROVE CInv'
  <2>1. At(t, "exists") /\ UNCHANGED <<shared, latest, crossed>> /\ Steady
    BY <1>15, Unshared DEF Exists
  <2>2. CASE Proceed(t, loc[t])
    BY <1>2, <1>3, <2>1, <2>2, PlainStraight
  <2>3. CASE Raise(t)
    BY <1>5, <2>1, <2>3
  <2> QED
    BY <1>15, <2>2, <2>3 DEF Exists
<1>16. ASSUME NEW t \in Threads, Point(t) \/ Reset(t) PROVE CInv'
  <2>1. PICK step \in {"point", "reset"} :
           /\ At(t, step) /\ Proceed(t, loc[t]) /\ Cross(t)
           /\ IF step = "point" THEN pointer' = loc[t].asked ELSE pointer' = pointer
    BY <1>16 DEF Point, Reset
  <2>2. Straight(t)' /\ Elsewhere(t)
    BY <1>2, <2>1, SwitchStraight
  <2>3. crossed' => CInv'
    BY DEF CInv
  <2> QED
    BY <2>1, <2>2, <2>3, AloneStraight
<1>17. ASSUME NEW t \in Threads, Target(t) PROVE CInv'
  <2> DEFINE l == [loc[t] EXCEPT !.target = object[loc[t].d].name]
  <2>1. At(t, "target") /\ Proceed(t, l) /\ UNCHANGED <<shared, latest, crossed>> /\ Steady
    BY <1>17, Unshared DEF Target
  <2>2. loc[t] \in Locals /\ loc[t].asked \in Names /\ Late(t) /\ Ahead(t, UsesData)
    BY <2>1, StepOf, LateSteps DEF At, Ahead, UsesData
  <2>3. object[loc[t].d].name = loc[t].asked
    BY <1>2, <2>2 DEF Straight, VaultIsActive
  <2>4. l \in Locals /\ l.target = l.asked /\ l.asked = loc[t].asked /\ l.policy = loc[t].policy
    BY <2>2, <2>3 DEF Locals
  <2> HIDE DEF l
  <2>5. t \in Agents => l.target \in {l.asked, None} /\ l.policy \in {l.asked, None}
    BY <1>2, <2>4 DEF Straight
  <2> QED
    BY <1>2, <1>3, <2>1, <2>4, <2>5, OwnStraight
<1>18. ASSUME NEW t \in Threads, IsUnlocked(t) PROVE CInv'
  <2>1. At(t, "is_unlocked") /\ UNCHANGED <<shared, latest, crossed>> /\ Steady /\ todo[t] # <<>>
    BY <1>18, Unshared DEF IsUnlocked, At
  <2>2. Proceed(t, loc[t]) \/ DefaultPolicy(t)
    BY <1>18 DEF IsUnlocked
  <2> QED
    BY <1>2, <1>3, <1>6, <2>1, <2>2, PlainStraight
<1>19. ASSUME NEW t \in Threads, Policy(t) PROVE CInv'
  <2>1. At(t, "policy") /\ UNCHANGED <<shared, latest, crossed>> /\ Steady /\ todo[t] # <<>>
    BY <1>19, Unshared DEF Policy, At
  <2>2. CASE Proceed(t, [loc[t] EXCEPT !.policy = object[loc[t].v].name])
    <3> DEFINE l == [loc[t] EXCEPT !.policy = object[loc[t].v].name]
    <3>1. loc[t] \in Locals /\ loc[t].asked \in Names /\ Late(t) /\ Ahead(t, UsesVault)
      BY <2>1, StepOf, LateSteps DEF At, Ahead, UsesVault
    <3>2. object[loc[t].v].name = loc[t].asked
      BY <1>2, <3>1 DEF Straight, VaultIsActive
    <3>3. l \in Locals /\ l.policy = l.asked /\ l.asked = loc[t].asked /\ l.target = loc[t].target
      BY <3>1, <3>2 DEF Locals
    <3>4. Proceed(t, l)
      BY <2>2
    <3> HIDE DEF l
    <3>5. t \in Agents => l.target \in {l.asked, None} /\ l.policy \in {l.asked, None}
      BY <1>2, <3>3 DEF Straight
    <3> QED
      BY <1>2, <1>3, <2>1, <3>3, <3>4, <3>5, OwnStraight
  <2>3. CASE DefaultPolicy(t)
    BY <1>6, <2>1, <2>3
  <2> QED
    BY <1>19, <2>2, <2>3 DEF Policy
<1>20. ASSUME NEW t \in Threads, Act(t) PROVE CInv'
  <2>1. At(t, "act") /\ Proceed(t, loc[t]) /\ UNCHANGED <<shared, latest, crossed>> /\ Steady
    BY <1>20, Unshared DEF Act
  <2> QED
    BY <1>2, <1>3, <2>1, PlainStraight
<1>21. ASSUME NEW t \in Threads, Edit(t) PROVE CInv'
  <2>1. At(t, "edit") /\ Proceed(t, loc[t]) /\ crossed' = crossed /\ loc[t] \in Locals
    BY <1>21, StepOf DEF Edit
  <2>2. Steady /\ VaultIsActive' /\ object'[vault'].form = latest'[pointer']
    BY <1>2, <1>21, EditSteady
  <2>3. t \in Agents => /\ loc[t].target \in {loc[t].asked, None}
                        /\ loc[t].policy \in {loc[t].asked, None}
    BY <1>2 DEF Straight
  <2> QED
    BY <1>2, <1>3, <2>1, <2>2, <2>3, OwnStraight
<1>22. ASSUME NEW t \in Threads, Save(t) PROVE CInv'
  <2>1. At(t, "save") /\ crossed' = crossed /\ Steady
    BY <1>22, Unshared DEF Save
  <2>2. Proceed(t, loc[t]) \/ Done(t)
    BY <1>22 DEF Save
  <2> QED
    BY <1>2, <1>3, <1>4, <2>1, <2>2, PlainStraight
<1>23. ASSUME NEW t \in Threads, CheckActive(t) PROVE CInv'
  <2>1. At(t, "check_active") /\ UNCHANGED <<shared, latest, crossed>> /\ Steady
    BY <1>23, Unshared DEF CheckActive
  <2>2. CASE Proceed(t, loc[t])
    BY <1>2, <1>3, <2>1, <2>2, PlainStraight
  <2>3. CASE Done(t)
    BY <1>4, <2>1, <2>3
  <2> QED
    BY <1>23, <2>2, <2>3 DEF CheckActive
<1>24. ASSUME NEW t \in Threads, ArchiveFile(t) PROVE CInv'
  <2>1. /\ At(t, "archive") /\ Proceed(t, loc[t]) /\ Cross(t) /\ pointer' = pointer
    BY <1>24 DEF ArchiveFile
  <2>2. Straight(t)' /\ Elsewhere(t)
    BY <1>2, <2>1, SwitchStraight
  <2>3. crossed' => CInv'
    BY DEF CInv
  <2> QED
    BY <2>1, <2>2, <2>3, AloneStraight
<1>25. CASE UNCHANGED vars
  BY <1>25 DEF vars, CInv, Straight, At, Ahead, Late, VaultIsActive
<1> QED
  BY <1>7, <1>8, <1>9, <1>10, <1>11, <1>12, <1>13, <1>14, <1>15, <1>16, <1>17, <1>18,
     <1>19, <1>20, <1>21, <1>22, <1>23, <1>24, <1>25 DEF Next

\* A tool acts on the definition its call named, under that definition's policy or the
\* read-only default, among any number of agents that switch between definitions; only an
\* admin request that switches, archives or is switched under can divert it.
THEOREM SpecToolIsOnlyDivertedSo == Spec => []ToolIsOnlyDivertedSo
<1>1. TInv /\ CInv => ToolIsOnlyDivertedSo
  <2> SUFFICES ASSUME TInv, CInv, ~crossed, NEW t \in Agents, At(t, "act")
               PROVE  loc[t].target = loc[t].asked /\ loc[t].policy \in {loc[t].asked, None}
    BY DEF ToolIsOnlyDivertedSo, ToolActsOnProfile
  <2>1. t \in Threads
    BY DEF Threads
  <2>2. /\ todo[t] \in Plans /\ todo[t] # <<>> /\ Head(todo[t]) = "act" /\ Ready(t)
        /\ Has(todo[t], "act")
    BY <2>1, StepOf
  <2>3. ~Has(todo[t], "target")
    BY <2>2, PlanTail
  <2>4. loc[t].target # None
    BY <2>2, <2>3 DEF Ready
  <2> QED
    BY <2>1, <2>4 DEF CInv, Straight
<1> QED
  BY TInit, TStep, CInit, CStep, <1>1, PTL DEF Spec

\* Only the thread itself ends its request.
LEMMA OwnEnd ==
    ASSUME TInv, NEW t \in Threads, At(t, "save"), todo'[t] = <<>>, [Next]_vars
    PROVE  Save(t)
<1>1. todo \in [Threads -> Plans] /\ todo[t] # <<>> /\ Head(todo[t]) = "save"
  BY DEF TInv, Types, At
<1>2. todo' # todo
  BY <1>1
<1>3. ASSUME NEW u \in Threads, u # t,
             \/ \E step, l : At(u, step) /\ Proceed(u, l)
             \/ Done(u) \/ DefaultPolicy(u) \/ Compare(u)
             \/ \E n, f, steps : Begin(u, n, f, steps)
      PROVE  FALSE
  <2>1. PICK s : todo' = [todo EXCEPT ![u] = s]
    BY <1>1, <1>3 DEF Proceed, Done, DefaultPolicy, Compare, Begin
  <2> QED
    BY <1>1, <1>3, <2>1
<1>4. PICK u \in Threads :
        \/ Request(u) \/ Enter(u) \/ Leave(u)
        \/ GetPath(u) \/ Settle(u) \/ Take(u) \/ Unlock(u) \/ GetData(u)
        \/ Compare(u) \/ Exists(u) \/ Point(u) \/ Reset(u)
        \/ Target(u) \/ IsUnlocked(u) \/ Policy(u) \/ Act(u) \/ Edit(u) \/ Save(u)
        \/ CheckActive(u) \/ ArchiveFile(u)
  BY <1>2 DEF Next, vars
<1>5. CASE u = t
  BY <1>1, <1>4, <1>5 DEF Request, Begin, Enter, Leave, GetPath, Settle, Take, Unlock, GetData,
      Compare, Exists, Point, Reset, Target, IsUnlocked, Policy, Act, Edit, CheckActive,
      ArchiveFile, At
<1>6. CASE u # t
  <2>1. \/ \E step, l : At(u, step) /\ Proceed(u, l)
        \/ Done(u) \/ DefaultPolicy(u) \/ Compare(u)
        \/ \E n, f, steps : Begin(u, n, f, steps)
    BY <1>4 DEF Request, Enter, Leave, GetPath, Settle, Take, Unlock, GetData,
        Exists, Point, Reset, Target, IsUnlocked, Policy, Act, Edit, Save, CheckActive,
        ArchiveFile, Raise
  <2> QED
    BY <1>3, <1>6, <2>1
<1> QED
  BY <1>5, <1>6

\* A save writes the form last submitted for the definition that was edited to that
\* definition's file and no other, beside any requests that leave the active definition alone.
THEOREM SpecUpdateReachesItsFile == Spec => UpdateReachesItsFile
<1> DEFINE Reaches == \A t \in Admins : ~crossed /\ At(t, "save") /\ ~Locked(t) /\ todo'[t] = <<>>
                          => file' = [file EXCEPT ![loc[t].asked] = latest[loc[t].asked]]
<1>1. TInv /\ CInv /\ [Next]_vars => Reaches
  <2> SUFFICES ASSUME TInv, CInv, [Next]_vars, NEW t \in Admins, ~crossed, At(t, "save"),
                      ~Locked(t), todo'[t] = <<>>
               PROVE  file' = [file EXCEPT ![loc[t].asked] = latest[loc[t].asked]]
    OBVIOUS
  <2>1. t \in Threads
    BY DEF Threads
  <2>2. Save(t)
    BY <2>1, OwnEnd
  <2>3. file' = [file EXCEPT ![object[loc[t].v].name] = object[loc[t].v].form]
    BY <2>2 DEF Save
  <2>4. /\ todo[t] \in Plans /\ todo[t] # <<>> /\ Head(todo[t]) = "save"
        /\ Has(todo[t], "save") /\ Late(t) /\ Straight(t)
    BY <2>1, StepOf, LateSteps DEF CInv
  <2>5. ~Has(todo[t], "edit")
    <3>1. /\ Tail(todo[t]) # <<>> => <<"save", Head(Tail(todo[t]))>> \in Follows
          /\ \A x : Has(todo[t], x) <=> x = "save" \/ Has(Tail(todo[t]), x)
      BY <2>4, PlanTail
    <3>2. Tail(todo[t]) = <<>>
      BY <3>1 DEF Follows
    <3> QED
      BY <3>1, <3>2, PlanShort
  <2>6. VaultIsActive /\ loc[t].v = vault /\ pointer = loc[t].asked
        /\ object[vault].form = latest[pointer]
    BY <2>4, <2>5 DEF Straight, Ahead, UsesVault
  <2> QED
    BY <2>3, <2>6 DEF VaultIsActive
<1> QED
  BY TInit, TStep, CInit, CStep, <1>1, PTL DEF Spec, UpdateReachesItsFile

----------------------------------------------------------------------------
(* Archived definitions                                                    *)

\* Nobody can bring the definition back: it is not the active one, no object of it that
\* is decrypted will be saved, and nobody is about to switch to it.
Gone(n) ==
    /\ pointer # n /\ ~Open(n)
    /\ \A t \in Threads : At(t, "point") => loc[t].asked # n

\* What is not raced and has no file is gone, and what is about to be archived is not
\* the active definition.
AInv ==
    /\ \A t \in Threads : loc[t].d # None => object[loc[t].d].form # None
    /\ \A n \in Names \ raced : file[n] = None => Gone(n)
    /\ \A t \in Threads : At(t, "archive") /\ loc[t].asked \notin raced => pointer # loc[t].asked

\* What a step may make of the Vault objects: those in use are neither renamed nor locked,
\* and only one whose file exists is decrypted; a new one is locked.
Keeping ==
    /\ \A o \in InUse \ {None} :
        /\ object'[o].name = object[o].name
        /\ object[o].form # None => object'[o].form # None
        /\ object'[o].form # None => object[o].form # None \/ file'[object[o].name] # None
    /\ vault' = vault \/ vault' = None \/ object'[vault'].form = None

\* A step that is so opens no definition that has no file.
LEMMA OpenStays ==
    ASSUME NEW t \in Threads, Elsewhere(t), Keeping, loc'[t].v \in {loc[t].v, vault, None},
           NEW n, Open(n)'
    PROVE  Open(n) \/ file'[n] # None
<1>1. PICK v \in ({vault'} \cup {loc'[u].v : u \in Admins}) \ {None} :
         object'[v].name = n /\ object'[v].form # None
  BY DEF Open
<1>2. v \in ({vault} \cup {loc[u].v : u \in Admins}) \ {None}
  <2>1. CASE v = vault'
    BY <1>1, <2>1 DEF Keeping
  <2>2. ASSUME NEW u \in Admins, v = loc'[u].v PROVE v \in {vault, loc[u].v}
    BY <1>1, <2>2 DEF Elsewhere, Threads
  <2> QED
    BY <1>1, <2>1, <2>2
<1>3. v \in InUse \ {None}
  BY <1>2 DEF InUse, Threads
<1>4. object[v].name = n /\ (object[v].form # None \/ file'[n] # None)
  BY <1>1, <1>3 DEF Keeping
<1> QED
  BY <1>2, <1>4 DEF Open

\* The invariant is kept if a switch and an archiving name a definition as raced when
\* they meet the other half, and are prepared by what comes before them.
LEMMA ArchivedStays ==
    ASSUME TInv, AInv, NEW t \in Threads, Elsewhere(t), Keeping, raced \subseteq raced',
           loc'[t].v \in {loc[t].v, vault, None},
           loc'[t].d # None => object'[loc'[t].d].form # None,
           \/ pointer' = pointer
           \/ /\ At(t, "point") /\ pointer' = loc[t].asked
              /\ About(t, "archive", loc[t].asked) => loc[t].asked \in raced',
           \A n \in Names \ raced' : file'[n] = None => Gone(n),
           At(t, "point")' => file'[loc'[t].asked] # None,
           At(t, "archive")' => pointer' # loc'[t].asked
    PROVE  AInv'
<1>1. \A u \in Threads \ {t} : todo'[u] = todo[u] /\ loc'[u] = loc[u]
  BY DEF Elsewhere
<1>2. ASSUME NEW u \in Threads, loc'[u].d # None PROVE object'[loc'[u].d].form # None
  <2>1. CASE u # t
    <3>1. loc[u].d \in InUse \ {None} /\ object[loc[u].d].form # None /\ loc'[u] = loc[u]
      BY <1>1, <1>2, <2>1 DEF InUse, AInv
    <3> QED
      BY <3>1 DEF Keeping
  <2> QED
    BY <1>2, <2>1
<1>3. ASSUME NEW n \in Names \ raced', file'[n] = None PROVE Gone(n)'
  <2>1. Gone(n)
    BY <1>3
  <2>2. pointer' # n
    BY <2>1 DEF Gone
  <2>3. ~Open(n)'
    BY <1>3, <2>1, OpenStays DEF Gone
  <2>4. ASSUME NEW u \in Threads, At(u, "point")' PROVE loc'[u].asked # n
    <3>1. CASE u = t
      BY <1>3, <2>4, <3>1
    <3>2. CASE u # t
      BY <1>1, <2>1, <2>4, <3>2 DEF Gone, At
    <3> QED
      BY <3>1, <3>2
  <2> QED
    BY <2>2, <2>3, <2>4 DEF Gone
<1>4. ASSUME NEW u \in Threads, At(u, "archive")', loc'[u].asked \notin raced'
      PROVE  pointer' # loc'[u].asked
  <2>1. CASE u # t
    <3>1. loc'[u] = loc[u] /\ At(u, "archive") /\ pointer # loc[u].asked
      BY <1>1, <1>4, <2>1 DEF At, AInv
    <3>2. ~About(t, "archive", loc[u].asked) => FALSE
      BY <2>1, <3>1 DEF About
    <3> QED
      BY <1>4, <3>1, <3>2
  <2> QED
    BY <1>4, <2>1
<1> QED
  BY <1>2, <1>3, <1>4 DEF AInv

\* So it is by a step that changes nothing shared, ...
LEMMA ArchivedQuiet ==
    ASSUME TInv, AInv, NEW t \in Threads, Elsewhere(t), UNCHANGED <<shared, raced>>,
           loc'[t].v \in {loc[t].v, vault, None},
           loc'[t].d # None => object[loc'[t].d].form # None,
           At(t, "point")' => file[loc'[t].asked] # None,
           At(t, "archive")' => pointer # loc'[t].asked
    PROVE  AInv'
<1>1. UNCHANGED <<file, pointer, vault, object, raced>>
  BY DEF shared
<1>2. Keeping
  BY <1>1 DEF Keeping
<1>3. \A n \in Names \ raced : file[n] = None => Gone(n)
  BY DEF AInv
<1> QED
  BY <1>1, <1>2, <1>3, ArchivedStays

\* ... and by the end of a request.
LEMMA ArchivedDone ==
    ASSUME TInv, AInv, NEW t \in Threads, Done(t), UNCHANGED <<shared, raced>>
    PROVE  AInv'
<1>1. Elsewhere(t) /\ todo'[t] = <<>> /\ loc'[t] = NoCall
  BY DoneElsewhere
<1> QED
  BY <1>1, ArchivedQuiet DEF At, NoCall

\* Only "exists" comes before a switch, and only "check_active" before an archiving.
LEMMA NextSteps ==
    ASSUME TInv, NEW t \in Threads, NEW step, At(t, step), NEW l, Proceed(t, l)
    PROVE  /\ Elsewhere(t) /\ (loc'[t] = NoCall \/ loc'[t] = l)
           /\ At(t, "point")' => step = "exists" /\ loc'[t] = l
           /\ At(t, "archive")' => step = "check_active" /\ loc'[t] = l
<1> DEFINE r == Tail(todo[t])
<1>1. /\ todo[t] \in Plans /\ todo[t] # <<>> /\ Head(todo[t]) = step
      /\ todo \in [Threads -> Plans] /\ loc \in [Threads -> Locals]
  BY StepOf DEF TInv, Types
<1>2. todo'[t] = r /\ loc'[t] = IF r = <<>> THEN NoCall ELSE l
  BY <1>1, Proceeding
<1>3. r # <<>> => <<step, Head(r)>> \in Follows
  BY <1>1, PlanTail
<1>4. Elsewhere(t)
  BY ProceedElsewhere
<1> HIDE DEF r
<1>5. At(t, "point")' => step = "exists" /\ r # <<>>
  BY <1>2, <1>3 DEF At, Follows
<1>6. At(t, "archive")' => step = "check_active" /\ r # <<>>
  BY <1>2, <1>3 DEF At, Follows
<1> QED
  BY <1>2, <1>4, <1>5, <1>6

\* A step on the way that changes nothing shared.
LEMMA ArchivedPlain ==
    ASSUME TInv, AInv, NEW t \in Threads, NEW step, At(t, step),
           step \notin {"exists", "check_active"}, UNCHANGED <<shared, raced>>,
           NEW l, Proceed(t, l), l.v \in {loc[t].v, vault},
           l.d = loc[t].d \/ object[l.d].form # None
    PROVE  AInv'
<1>1. /\ Elsewhere(t) /\ (loc'[t] = NoCall \/ loc'[t] = l)
      /\ ~At(t, "point")' /\ ~At(t, "archive")'
  BY NextSteps
<1>2. loc[t].d # None => object[loc[t].d].form # None
  BY DEF AInv
<1>3. loc'[t].v \in {loc[t].v, vault, None} /\ (loc'[t].d # None => object[loc'[t].d].form # None)
  BY <1>1, <1>2 DEF NoCall
<1> QED
  BY <1>1, <1>3, ArchivedQuiet

\* The default policy leads to neither.
LEMMA ArchivedDefault ==
    ASSUME TInv, AInv, NEW t \in Threads, todo[t] # <<>>, DefaultPolicy(t),
           UNCHANGED <<shared, raced>>
    PROVE  AInv'
<1> DEFINE s == <<"act", "leave">>
<1>1. todo' = [todo EXCEPT ![t] = s] /\ loc' = loc /\ todo \in [Threads -> Plans]
  BY DefaultReady DEF TInv, Types
<1>2. Head(s) = "act"
  OBVIOUS
<1> HIDE DEF s
<1>3. Elsewhere(t) /\ todo'[t] = s /\ loc'[t] = loc[t]
  BY <1>1 DEF Elsewhere
<1>4. ~At(t, "point")' /\ ~At(t, "archive")'
  BY <1>2, <1>3 DEF At
<1>5. loc[t].d # None => object[loc[t].d].form # None
  BY DEF AInv
<1> QED
  BY <1>3, <1>4, <1>5, ArchivedQuiet

\* At first every definition has its file.
LEMMA AInit == Init => AInv
<1> SUFFICES ASSUME Init PROVE AInv
  OBVIOUS
<1>1. \A t \in Threads : todo[t] = <<>> /\ loc[t] = NoCall
  BY DEF Init
<1>2. \A n \in Names : file[n] # None
  BY RequestsAssumption DEF Init
<1> QED
  BY <1>1, <1>2 DEF AInv, At, NoCall

\* The steps of get_vault(), of unlocking and of an edit keep the objects as they should.
LEMMA SettleKeeps ==
    ASSUME TInv, NEW t \in Threads, Settle(t)
    PROVE  Keeping
<1>1. CASE UNCHANGED <<vault, object>>
  BY <1>1 DEF Keeping
<1>2. CASE ~UNCHANGED <<vault, object>>
  <2> DEFINE v == CHOOSE o \in Objects \ InUse : TRUE
  <2>1. v \in Objects \ InUse
    BY FreeObject
  <2>2. /\ vault' = v
        /\ object' = [o \in Objects |-> IF o = v THEN [name |-> loc[t].path, form |-> None]
                                        ELSE IF o \in InUse THEN object[o] ELSE Unborn]
    BY <1>2 DEF Settle
  <2> HIDE DEF v
  <2>3. object'[vault'].form = None
    BY <2>1, <2>2
  <2>4. \A o \in InUse \ {None} : o \in Objects
    BY DEF InUse, TInv, Types, Locals
  <2>5. \A o \in InUse \ {None} : object'[o] = object[o]
    BY <2>1, <2>2, <2>4
  <2> QED
    BY <2>3, <2>5 DEF Keeping
<1> QED
  BY <1>1, <1>2

LEMMA UnlockKeeps ==
    ASSUME TInv, NEW t \in Threads, Unlock(t)
    PROVE  Keeping
<1>1. /\ UNCHANGED <<file, vault>>
      /\ \/ UNCHANGED object
         \/ /\ file[object[loc[t].v].name] # None
            /\ object' = [object EXCEPT ![loc[t].v].form = file[object[loc[t].v].name]]
  BY DEF Unlock
<1>2. object \in [Objects -> [name : Names, form : Forms \cup {None}]]
  BY DEF TInv, Types
<1>3. CASE UNCHANGED object
  BY <1>1, <1>3 DEF Keeping
<1>4. CASE /\ file[object[loc[t].v].name] # None
           /\ object' = [object EXCEPT ![loc[t].v].form = file[object[loc[t].v].name]]
  <2>1. \A o \in InUse \ {None} : o \in Objects
    BY DEF InUse, TInv, Types, Locals
  <2>2. \A o \in Objects : /\ object'[o].name = object[o].name
                           /\ o # loc[t].v => object'[o] = object[o]
                           /\ o = loc[t].v => object'[o].form = file[object[o].name]
    BY <1>2, <1>4
  <2> QED
    BY <1>1, <1>4, <2>1, <2>2 DEF Keeping
<1> QED
  BY <1>1, <1>3, <1>4

LEMMA EditKeeps ==
    ASSUME TInv, AInv, NEW t \in Threads, Edit(t)
    PROVE  Keeping
<1>1. /\ At(t, "edit") /\ UNCHANGED vault
      /\ object' = [object EXCEPT ![loc[t].d].form = loc[t].form]
  BY DEF Edit
<1>2. /\ object \in [Objects -> [name : Names, form : Forms \cup {None}]]
      /\ None \notin Forms /\ None \notin Objects
  <2>1. Objects \subseteq Nat
    BY RequestsAssumption, FS_CardinalityType DEF Objects, Threads
  <2> QED
    BY <2>1, RequestsAssumption DEF TInv, Types
<1>3. loc[t].d \in Objects /\ loc[t].form \in Forms
  BY <1>1, StepOf DEF Ready, Ahead, UsesData, At
<1>4. object[loc[t].d].form # None
  BY <1>2, <1>3 DEF AInv
<1>5. \A o \in InUse \ {None} : o \in Objects
  BY DEF InUse, TInv, Types, Locals
<1>6. \A o \in Objects : /\ object'[o].name = object[o].name
                         /\ o # loc[t].d => object'[o] = object[o]
                         /\ o = loc[t].d => object'[o].form # None
  BY <1>1, <1>2, <1>3
<1> QED
  BY <1>1, <1>4, <1>5, <1>6 DEF Keeping

\* A save finds its object decrypted, and so the definition has its file unless raced.
LEMMA SaveFinds ==
    ASSUME TInv, AInv, NEW t \in Threads, Save(t)
    PROVE  \A n \in Names \ raced : /\ file[n] = None => file'[n] = None
                                    /\ file'[n] = None => file[n] = None
<1>1. /\ At(t, "save")
      /\ \/ UNCHANGED file
         \/ /\ ~Locked(t)
            /\ file' = [file EXCEPT ![object[loc[t].v].name] = object[loc[t].v].form]
  BY DEF Save
<1>2. CASE UNCHANGED file
  BY <1>2
<1>3. CASE /\ ~Locked(t)
           /\ file' = [file EXCEPT ![object[loc[t].v].name] = object[loc[t].v].form]
  <2>1. t \in Admins /\ loc[t].v \in Objects
    BY <1>1, StepOf DEF StepsOf, AgentSteps, Ready, Ahead, UsesVault, At
  <2>2. None \notin Objects
    <3>1. Objects \subseteq Nat
      BY RequestsAssumption, FS_CardinalityType DEF Objects, Threads
    <3> QED
      BY <3>1, RequestsAssumption
  <2>3. Open(object[loc[t].v].name)
    BY <1>3, <2>1, <2>2 DEF Open, Locked
  <2>4. \A n \in Names \ raced : n = object[loc[t].v].name => file[n] # None
    BY <2>3 DEF AInv, Gone
  <2> QED
    BY <1>3, <2>4 DEF Locked, TInv, Types
<1> QED
  BY <1>1, <1>2, <1>3

\* The invariant is kept, and only a raced definition gets its file back.
LEMMA AStep ==
    TInv /\ AInv /\ [Next]_vars =>
        AInv' /\ \A n \in Names \ raced' : file[n] = None => file'[n] = None
<1> SUFFICES ASSUME TInv, AInv, [Next]_vars
             PROVE  AInv' /\ \A n \in Names \ raced' : file[n] = None => file'[n] = None
  OBVIOUS
<1> USE DEF shared
<1> DEFINE Goal == AInv' /\ \A n \in Names \ raced' : file[n] = None => file'[n] = None
<1>1. CASE UNCHANGED vars
  <2>1. UNCHANGED <<file, pointer, vault, object, todo, loc, raced>>
    BY <1>1 DEF vars
  <2>2. AInv'
    BY <2>1 DEF AInv, Gone, Open, At
  <2> QED
    BY <2>1, <2>2
<1>2. \A n \in Names \ raced : file[n] = None => Gone(n)
  BY DEF AInv
<1>3. ASSUME NEW t \in Threads, Request(t) PROVE Goal
  <2>1. PICK n \in Names, f \in Forms \cup {None},
              steps \in {AgentCall, Update, Select, Archive} :
           Begin(t, n, f, steps)
    BY <1>3, RequestsAssumption DEF Request
  <2> DEFINE l == [NoCall EXCEPT !.asked = n, !.form = f]
  <2>2. l.v = None /\ l.d = None
    BY DEF NoCall
  <2>3. /\ todo' = [todo EXCEPT ![t] = steps] /\ loc' = [loc EXCEPT ![t] = l]
        /\ UNCHANGED <<shared, raced>>
    BY <2>1 DEF Begin, Local
  <2> HIDE DEF l
  <2>4. todo'[t] = steps /\ loc'[t] = l /\ Elsewhere(t)
    BY <2>3 DEF Elsewhere, TInv, Types
  <2>5. Head(steps) \in {"enter", "compare", "exists", "check_active"}
    <3>1. CASE steps = AgentCall
      BY <3>1, PiecesOfCalls DEF Piece
    <3>2. CASE steps = Update
      BY <3>2, PiecesOfCalls DEF Piece
    <3>3. CASE steps \in {Select, Archive}
      BY <3>3, PiecesOfPlans DEF Piece
    <3> QED
      BY <2>1, <3>1, <3>2, <3>3
  <2>6. ~At(t, "point")' /\ ~At(t, "archive")'
    BY <2>4, <2>5 DEF At
  <2> QED
    BY <2>2, <2>3, <2>4, <2>6, ArchivedQuiet
\* Steps that change nothing shared.
<1>4. ASSUME NEW t \in Threads, Enter(t) \/ Leave(t) \/ Act(t) PROVE Goal
  <2>1. /\ UNCHANGED <<shared, raced>> /\ Proceed(t, loc[t])
        /\ \E step \in {"enter", "leave", "act"} : At(t, step)
    BY <1>4 DEF Enter, Leave, Act
  <2> QED
    BY <2>1, ArchivedPlain
<1>5. ASSUME NEW t \in Threads, GetPath(t) PROVE Goal
  <2> DEFINE l == [loc[t] EXCEPT !.path = pointer]
  <2>1. At(t, "path") /\ Proceed(t, l) /\ UNCHANGED <<shared, raced>> /\ loc[t] \in Locals
    BY <1>5, StepOf DEF GetPath
  <2>2. l.v = loc[t].v /\ l.d = loc[t].d
    BY <2>1 DEF Locals
  <2> HIDE DEF l
  <2> QED
    BY <2>1, <2>2, ArchivedPlain
<1>6. ASSUME NEW t \in Threads, Take(t) PROVE Goal
  <2> DEFINE l == [loc[t] EXCEPT !.v = vault]
  <2>1. /\ At(t, "take") /\ UNCHANGED <<shared, raced>> /\ loc[t] \in Locals /\ todo[t] # <<>>
        /\ Proceed(t, l) \/ DefaultPolicy(t) \/ Done(t)
    BY <1>6, StepOf DEF Take, Raise
  <2>2. l.v = vault /\ l.d = loc[t].d
    BY <2>1 DEF Locals
  <2> HIDE DEF l
  <2> QED
    BY <2>1, <2>2, ArchivedPlain, ArchivedDefault, ArchivedDone
<1>7. ASSUME NEW t \in Threads, GetData(t) PROVE Goal
  <2> DEFINE l == [loc[t] EXCEPT !.d = loc[t].v]
  <2>1. /\ At(t, "data") /\ UNCHANGED <<shared, raced>> /\ loc[t] \in Locals
        /\ (object[loc[t].v].form # None /\ Proceed(t, l)) \/ Done(t)
    BY <1>7, StepOf DEF GetData, Raise, Locked
  <2>2. l.v = loc[t].v /\ l.d = loc[t].v
    BY <2>1 DEF Locals
  <2> HIDE DEF l
  <2> QED
    BY <2>1, <2>2, ArchivedPlain, ArchivedDone
<1>8. ASSUME NEW t \in Threads, Compare(t) PROVE Goal
  <2> DEFINE r == Tail(todo[t])
             q == Select \o r
             n == IF pointer = loc[t].asked THEN r ELSE q
  <2>1. At(t, "compare") /\ loc' = loc /\ UNCHANGED <<shared, raced>> /\ todo' = [todo EXCEPT ![t] = n]
    BY <1>8 DEF Compare
  <2>2. /\ todo[t] \in Plans /\ todo[t] # <<>> /\ Head(todo[t]) = "compare"
        /\ todo \in [Threads -> Plans]
    BY <2>1, StepOf DEF TInv, Types
  <2>3. (r # <<>> => Head(r) = "path") /\ Head(q) = "exists"
    BY <2>2, PlanTail, PlanSwitch DEF Follows
  <2> HIDE DEF r, q
  <2>4. n # <<>> => Head(n) \in {"path", "exists"}
    BY <2>3
  <2> HIDE DEF n
  <2>5. todo'[t] = n /\ loc'[t] = loc[t] /\ Elsewhere(t)
    BY <2>1, <2>2 DEF Elsewhere
  <2>6. ~At(t, "point")' /\ ~At(t, "archive")'
    BY <2>4, <2>5 DEF At
  <2>7. loc[t].d # None => object[loc[t].d].form # None
    BY DEF AInv
  <2> QED
    BY <2>1, <2>5, <2>6, <2>7, ArchivedQuiet
<1>9. ASSUME NEW t \in Threads, Target(t) PROVE Goal
  <2> DEFINE l == [loc[t] EXCEPT !.target = object[loc[t].d].name]
  <2>1. At(t, "target") /\ Proceed(t, l) /\ UNCHANGED <<shared, raced>> /\ loc[t] \in Locals
    BY <1>9, StepOf DEF Target
  <2>2. l.v = loc[t].v /\ l.d = loc[t].d
    BY <2>1 DEF Locals
  <2> HIDE DEF l
  <2> QED
    BY <2>1, <2>2, ArchivedPlain
<1>10. ASSUME NEW t \in Threads, IsUnlocked(t) PROVE Goal
  <2>1. /\ At(t, "is_unlocked") /\ UNCHANGED <<shared, raced>> /\ todo[t] # <<>>
        /\ Proceed(t, loc[t]) \/ DefaultPolicy(t)
    BY <1>10, StepOf DEF IsUnlocked
  <2> QED
    BY <2>1, ArchivedPlain, ArchivedDefault
<1>11. ASSUME NEW t \in Threads, Policy(t) PROVE Goal
  <2> DEFINE l == [loc[t] EXCEPT !.policy = object[loc[t].v].name]
  <2>1. /\ At(t, "policy") /\ UNCHANGED <<shared, raced>> /\ loc[t] \in Locals /\ todo[t] # <<>>
        /\ Proceed(t, l) \/ DefaultPolicy(t)
    BY <1>11, StepOf DEF Policy
  <2>2. l.v = loc[t].v /\ l.d = loc[t].d
    BY <2>1 DEF Locals
  <2> HIDE DEF l
  <2> QED
    BY <2>1, <2>2, ArchivedPlain, ArchivedDefault
<1>12. ASSUME NEW t \in Threads, Exists(t) PROVE Goal
  <2>1. /\ At(t, "exists") /\ UNCHANGED <<shared, raced>>
        /\ (file[loc[t].asked] # None /\ Proceed(t, loc[t])) \/ Done(t)
    BY <1>12 DEF Exists, Raise
  <2>2. CASE file[loc[t].asked] # None /\ Proceed(t, loc[t])
    <3>1. /\ Elsewhere(t) /\ (loc'[t] = NoCall \/ loc'[t] = loc[t])
          /\ At(t, "point")' => loc'[t] = loc[t]
          /\ ~At(t, "archive")'
      BY <2>1, <2>2, NextSteps
    <3>2. loc[t].d # None => object[loc[t].d].form # None
      BY DEF AInv
    <3> QED
      BY <2>1, <2>2, <3>1, <3>2, ArchivedQuiet DEF NoCall
  <2> QED
    BY <2>1, <2>2, ArchivedDone
<1>13. ASSUME NEW t \in Threads, CheckActive(t) PROVE Goal
  <2>1. /\ At(t, "check_active") /\ UNCHANGED <<shared, raced>>
        /\ (pointer # loc[t].asked /\ Proceed(t, loc[t])) \/ Done(t)
    BY <1>13 DEF CheckActive
  <2>2. CASE pointer # loc[t].asked /\ Proceed(t, loc[t])
    <3>1. /\ Elsewhere(t) /\ (loc'[t] = NoCall \/ loc'[t] = loc[t])
          /\ At(t, "archive")' => loc'[t] = loc[t]
          /\ ~At(t, "point")'
      BY <2>1, <2>2, NextSteps
    <3>2. loc[t].d # None => object[loc[t].d].form # None
      BY DEF AInv
    <3> QED
      BY <2>1, <2>2, <3>1, <3>2, ArchivedQuiet DEF NoCall
  <2> QED
    BY <2>1, <2>2, ArchivedDone
\* Steps that change the objects.
<1>14. ASSUME NEW t \in Threads, Settle(t) \/ Edit(t), Proceed(t, loc[t]) PROVE Goal
  <2>1. /\ UNCHANGED <<file, pointer, raced>> /\ Keeping
        /\ \E step \in {"settle", "edit"} : At(t, step)
    BY <1>14, SettleKeeps, EditKeeps DEF Settle, Edit
  <2>2. /\ Elsewhere(t) /\ (loc'[t] = NoCall \/ loc'[t] = loc[t])
        /\ ~At(t, "point")' /\ ~At(t, "archive")'
    BY <1>14, <2>1, NextSteps
  <2>3. loc[t].d # None => object'[loc[t].d].form # None
    BY <2>1 DEF AInv, Keeping, InUse
  <2>4. /\ loc'[t].v \in {loc[t].v, vault, None}
        /\ loc'[t].d # None => object'[loc'[t].d].form # None
    BY <2>2, <2>3 DEF NoCall
  <2> QED
    BY <1>2, <2>1, <2>2, <2>4, ArchivedStays
<1>15. ASSUME NEW t \in Threads, Unlock(t) PROVE Goal
  <2>1. /\ UNCHANGED <<file, pointer, raced>> /\ Keeping /\ At(t, "unlock")
        /\ Proceed(t, loc[t]) \/ Done(t)
    BY <1>15, UnlockKeeps DEF Unlock, Raise
  <2>2. /\ Elsewhere(t) /\ (loc'[t] = NoCall \/ loc'[t] = loc[t])
        /\ ~At(t, "point")' /\ ~At(t, "archive")'
    <3>1. CASE Proceed(t, loc[t])
      BY <2>1, <3>1, NextSteps
    <3>2. CASE Done(t)
      BY <3>2, DoneElsewhere DEF At
    <3> QED
      BY <2>1, <3>1, <3>2
  <2>3. loc[t].d # None => object'[loc[t].d].form # None
    BY <2>1 DEF AInv, Keeping, InUse
  <2>4. /\ loc'[t].v \in {loc[t].v, vault, None}
        /\ loc'[t].d # None => object'[loc'[t].d].form # None
    BY <2>2, <2>3 DEF NoCall
  <2> QED
    BY <1>2, <2>1, <2>2, <2>4, ArchivedStays
\* Steps that change the pointer, the cached object or the files.
<1>16. ASSUME NEW t \in Threads, Point(t) \/ Reset(t) PROVE Goal
  <2>1. /\ UNCHANGED <<file, object>> /\ Proceed(t, loc[t]) /\ raced \subseteq raced'
        /\ vault' = vault \/ vault' = None
        /\ \/ At(t, "reset") /\ pointer' = pointer
           \/ /\ At(t, "point") /\ pointer' = loc[t].asked
              /\ About(t, "archive", loc[t].asked) => loc[t].asked \in raced'
    BY <1>16 DEF Point, Reset, Race
  <2>2. /\ Elsewhere(t) /\ (loc'[t] = NoCall \/ loc'[t] = loc[t])
        /\ ~At(t, "point")' /\ ~At(t, "archive")'
    BY <2>1, NextSteps
  <2>3. Keeping
    BY <2>1 DEF Keeping
  <2>4. loc[t].d # None => object'[loc[t].d].form # None
    BY <2>1 DEF AInv
  <2>5. /\ loc'[t].v \in {loc[t].v, vault, None}
        /\ loc'[t].d # None => object'[loc'[t].d].form # None
    BY <2>2, <2>4 DEF NoCall
  <2> QED
    BY <1>2, <2>1, <2>2, <2>3, <2>5, ArchivedStays
<1>17. ASSUME NEW t \in Threads, Save(t) PROVE Goal
  <2>1. /\ UNCHANGED <<pointer, vault, object, raced>> /\ At(t, "save")
        /\ Proceed(t, loc[t]) \/ Done(t)
    BY <1>17 DEF Save
  <2>2. /\ Elsewhere(t) /\ (loc'[t] = NoCall \/ loc'[t] = loc[t])
        /\ ~At(t, "point")' /\ ~At(t, "archive")'
    <3>1. CASE Proceed(t, loc[t])
      BY <2>1, <3>1, NextSteps
    <3>2. CASE Done(t)
      BY <3>2, DoneElsewhere DEF At
    <3> QED
      BY <2>1, <3>1, <3>2
  <2>3. \A n \in Names \ raced : /\ file[n] = None => file'[n] = None
                                 /\ file'[n] = None => file[n] = None
    BY <1>17, SaveFinds
  <2>4. Keeping
    BY <2>1 DEF Keeping
  <2>5. loc[t].d # None => object'[loc[t].d].form # None
    BY <2>1 DEF AInv
  <2>6. /\ loc'[t].v \in {loc[t].v, vault, None}
        /\ loc'[t].d # None => object'[loc'[t].d].form # None
    BY <2>2, <2>5 DEF NoCall
  <2>7. \A n \in Names \ raced' : file'[n] = None => Gone(n)
    BY <1>2, <2>1, <2>3
  <2> QED
    BY <2>1, <2>2, <2>3, <2>4, <2>6, <2>7, ArchivedStays
<1>18. ASSUME NEW t \in Threads, ArchiveFile(t) PROVE Goal
  <2> DEFINE a == loc[t].asked
  <2>1. /\ UNCHANGED <<pointer, vault, object>> /\ At(t, "archive") /\ Proceed(t, loc[t])
        /\ file' = [file EXCEPT ![a] = None]
        /\ raced' = IF About(t, "point", a) \/ Open(a) THEN raced \cup {a} ELSE raced
    BY <1>18 DEF ArchiveFile, Race
  <2>2. /\ Elsewhere(t) /\ (loc'[t] = NoCall \/ loc'[t] = loc[t])
        /\ ~At(t, "point")' /\ ~At(t, "archive")'
    BY <2>1, NextSteps
  <2>3. Keeping /\ raced \subseteq raced' /\ file \in [Names -> Forms \cup {None}]
    BY <2>1 DEF Keeping, TInv, Types
  <2>4. loc[t].d # None => object'[loc[t].d].form # None
    BY <2>1 DEF AInv
  <2>5. /\ loc'[t].v \in {loc[t].v, vault, None}
        /\ loc'[t].d # None => object'[loc'[t].d].form # None
    BY <2>2, <2>4 DEF NoCall
  <2>6. a \notin raced' => Gone(a)
    <3> SUFFICES ASSUME a \notin raced' PROVE Gone(a)
      OBVIOUS
    <3>1. ~About(t, "point", a) /\ ~Open(a) /\ a \notin raced
      BY <2>1
    <3>2. pointer # a /\ ~At(t, "point")
      BY <2>1, <3>1 DEF AInv, At
    <3> QED
      BY <3>1, <3>2 DEF Gone, About
  <2>7. \A n \in Names \ raced' : file'[n] = None => Gone(n)
    BY <1>2, <2>1, <2>3, <2>6
  <2>8. \A n \in Names : file[n] = None => file'[n] = None
    BY <2>1, <2>3
  <2> QED
    BY <2>1, <2>2, <2>3, <2>5, <2>7, <2>8, ArchivedStays
<1> HIDE DEF Goal
<1>19. ASSUME NEW t \in Threads, Settle(t) \/ Edit(t) PROVE Goal
  BY <1>14, <1>19 DEF Settle, Edit
<1>20. ASSUME Next PROVE Goal
  BY <1>3, <1>4, <1>5, <1>6, <1>7, <1>8, <1>9, <1>10, <1>11, <1>12, <1>13,
     <1>15, <1>16, <1>17, <1>18, <1>19, <1>20 DEF Next
<1> QED
  BY <1>1, <1>20 DEF Goal

\* A definition that has been archived is not made active again, and no save brings its
\* file back, unless a switch that had found its file or a decrypted object of it was there
\* when it was archived.
THEOREM SpecArchivedStaysArchived == Spec => ArchivedStaysArchived
<1>1. TInv /\ AInv /\ [Next]_vars =>
        [\A n \in Names \ raced' : /\ file[n] = None => file'[n] = None
                                   /\ file'[n] = None => pointer' # n]_vars
  <2> SUFFICES ASSUME TInv, AInv, [Next]_vars
               PROVE  \A n \in Names \ raced' : /\ file[n] = None => file'[n] = None
                                                /\ file'[n] = None => pointer' # n
    OBVIOUS
  <2>1. \A n \in Names \ raced' : file[n] = None => file'[n] = None
    BY AStep
  <2>2. AInv'
    BY AStep
  <2>3. \A n \in Names \ raced' : file'[n] = None => pointer' # n
    BY <2>2 DEF AInv, Gone
  <2> QED
    BY <2>1, <2>3
<1> QED
  BY TInit, TStep, AInit, AStep, <1>1, PTL DEF Spec, ArchivedStaysArchived

=============================================================================
