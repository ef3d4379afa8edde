---------------------------- MODULE AtomicVault ----------------------------
(***************************************************************************)
(* What one encrypted definition promises to the code above it: a single   *)
(* durable record that is replaced in one step, that survives a crash of   *)
(* the process unchanged, and that an unlock reads back exactly as the     *)
(* last completed save left it.  Files, temporary names, salts and derived *)
(* keys do not appear: VaultFile implements this specification.            *)
(***************************************************************************)

CONSTANTS
    Passwords,       \* master passwords
    Contents,        \* decrypted contents of a definition
    InitialContent,  \* the content create() starts from
    None             \* no vault, locked, or no save under way

VARIABLES
    stored,  \* None, or the record [pw, content] on disk
    view,    \* None while locked, else the decrypted content in memory
    draft    \* None, or the content a save under way will store

avars == <<stored, view, draft>>

Record == [pw : Passwords, content : Contents]

AInit == stored \in Record \cup {None} /\ view = None /\ draft = None

\* A new definition exists in memory before its first save.
ACreate == stored = None /\ view' = InitialContent /\ UNCHANGED <<stored, draft>>

\* An unlock shows what is stored.
AOpen == /\ stored # None
         /\ view = None
         /\ view' = stored.content
         /\ UNCHANGED <<stored, draft>>

AEdit == view # None /\ view' \in Contents /\ UNCHANGED <<stored, draft>>

ALock == view' = None /\ UNCHANGED <<stored, draft>>

\* A save takes the decrypted content as it is when the save starts ...
ASnapshot == /\ view # None
             /\ draft = None
             /\ draft' = view
             /\ UNCHANGED <<stored, view>>

\* ... and either stores exactly that or leaves the stored record alone.
APersist == /\ draft # None
            /\ \E pw \in Passwords : stored' = [pw |-> pw, content |-> draft]
            /\ draft' = None
            /\ UNCHANGED view

AAbort == draft' = None /\ UNCHANGED <<stored, view>>

ACrash == view' = None /\ draft' = None /\ UNCHANGED stored

ANext == \/ ACreate \/ AOpen \/ AEdit \/ ALock
         \/ ASnapshot \/ APersist \/ AAbort \/ ACrash

ASpec == AInit /\ [][ANext]_avars
=============================================================================
