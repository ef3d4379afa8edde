-------------------------- MODULE VaultFileProofs --------------------------
(***************************************************************************)
(* Proofs about VaultFile.  SpecTypeOK holds for any number of threads;    *)
(* SpecFileAlwaysOpens is for one request thread beside lock(), crashes    *)
(* and disk faults (SerialUse), the use the model checker confirms.  The   *)
(* last part is for any number of threads that edit and unlock, with       *)
(* crashes and disk faults but without lock() and changes of the password. *)
(***************************************************************************)
EXTENDS VaultFile, TLAPS

\* The initial envelope is one its password opens.
LEMMA FirstEnvelopeOpens ==
    ASSUME NEW pw \in Passwords, NEW c \in Contents
    PROVE  FirstEnvelope(pw, c) \in Envelope /\ Opens(FirstEnvelope(pw, c))
BY DEF FirstEnvelope, Envelope, Key, Opens

\* The locals of save() after it captured a key and a salt are locals.
LEMMA CaptureIsLocal ==
    ASSUME NEW l \in Local, NEW k \in MaybeKey, NEW s \in Nat
    PROVE  [l EXCEPT !.key = k, !.salt = s] \in Local
BY DEF Local

\* Typing, with the locals each step relies on: the induction for TypeOK.
TInv == TypeOK /\ LocalsReady

LEMMA TInit == Init => TInv
<1> SUFFICES ASSUME Init PROVE TInv
  OBVIOUS
<1>1. file \in File
  BY FirstEnvelopeOpens DEF Init, File
<1>2. NoCall \in Local
  BY DEF NoCall, Local, MaybeKey, MaybeContent, NoSalt
<1> QED
  BY <1>1, <1>2 DEF Init, TInv, TypeOK, LocalsReady, File, MaybeKey, MaybeContent, NoSalt,
     Steps, HasPassword, HasKey, Sealing

LEMMA TStep == TInv /\ [Next]_vars => TInv'
<1> SUFFICES ASSUME TInv, [Next]_vars PROVE TInv'
  OBVIOUS
<1> USE VaultFileAssumption, DiskAssumption
<1> USE DEF TInv, TypeOK, LocalsReady, File, MaybeKey, MaybeContent, Local, NoCall, NoSalt,
        Steps, HasPassword, HasKey, Sealing, disk, memory, Goto, Return, FreshSalt
<1>1. ASSUME NEW t \in Threads, NEW pw \in Passwords, CreateBegin(t, pw) PROVE TInv'
  BY <1>1 DEF CreateBegin
<1>2. ASSUME NEW t \in Threads, CreateData(t) PROVE TInv'
  BY <1>2 DEF CreateData
<1>3. ASSUME NEW t \in Threads, NEW from, NEW to, DeriveFrom(t, from, to),
             from \in HasPassword, to \in HasKey \ {"unlock_data"}
      PROVE  TInv'
  BY <1>3 DEF DeriveFrom, Key
<1>4. ASSUME NEW t \in Threads, CreateKey(t) PROVE TInv'
  BY <1>4 DEF CreateKey
<1>5. ASSUME NEW t \in Threads, NEW pw \in Passwords, UnlockBegin(t, pw) PROVE TInv'
  BY <1>5 DEF UnlockBegin
<1>6. ASSUME NEW t \in Threads, UnlockLoad(t) PROVE TInv'
  BY <1>6 DEF UnlockLoad, Envelope
<1>7. ASSUME NEW t \in Threads, UnlockDecrypt(t) PROVE TInv'
  <2>1. CASE cipher # None /\ cipher.key = loc[t].key
    <3>1. cipher.content \in Contents
      BY <2>1 DEF Envelope
    <3>2. loc' = [loc EXCEPT ![t] = [loc[t] EXCEPT !.text = cipher.content]]
      BY <1>7, <2>1 DEF UnlockDecrypt
    <3>3. [loc[t] EXCEPT !.text = cipher.content] \in Local
      BY <3>1
    <3> QED
      BY <1>7, <2>1, <3>1, <3>2, <3>3 DEF UnlockDecrypt
  <2>2. CASE ~(cipher # None /\ cipher.key = loc[t].key)
    <3>1. Return(t, "unlock_decrypt") /\ UNCHANGED <<disk, memory, fd, lockPc, salts>>
      BY <1>7, <2>2 DEF UnlockDecrypt
    <3> QED
      BY <3>1
  <2> QED
    BY <2>1, <2>2
<1>8. ASSUME NEW t \in Threads, UnlockData(t) PROVE TInv'
  BY <1>8 DEF UnlockData
<1>9. ASSUME NEW t \in Threads, UnlockKey(t) PROVE TInv'
  BY <1>9 DEF UnlockKey
<1>10. ASSUME Lock PROVE TInv'
  BY <1>10 DEF Lock, LockData, LockEnvelope, LockKey
<1>11. ASSUME NEW t \in Threads, NEW c \in Contents, Update(t, c) PROVE TInv'
  BY <1>11 DEF Update
<1>12. ASSUME NEW t \in Threads, NEW pw \in Passwords, ChangePassword(t, pw) PROVE TInv'
  BY <1>12 DEF ChangePassword
<1>13. ASSUME NEW t \in Threads, SaveCheck(t) PROVE TInv'
  BY <1>13 DEF SaveCheck
<1>14. ASSUME NEW t \in Threads, SaveKey(t) PROVE TInv'
  BY <1>14 DEF SaveKey
<1>15. ASSUME NEW t \in Threads, SaveCapture(t) PROVE TInv'
  <2>1. CASE key = None
    BY <1>15, <2>1 DEF SaveCapture
  <2>2. CASE key # None
    <3>1. loc' = [loc EXCEPT ![t] = [loc[t] EXCEPT !.key = key, !.salt = salt]]
      BY <1>15, <2>2 DEF SaveCapture
    <3>2. [loc[t] EXCEPT !.key = key, !.salt = salt] \in Local
      BY CaptureIsLocal
    <3> QED
      BY <1>15, <2>2, <3>1, <3>2 DEF SaveCapture
  <2> QED
    BY <2>1, <2>2
<1>16. ASSUME NEW t \in Threads, SaveEncrypt(t) PROVE TInv'
  BY <1>16 DEF SaveEncrypt
<1>17. ASSUME NEW t \in Threads, SaveOpen(t) PROVE TInv'
  BY <1>17 DEF SaveOpen
<1>18. ASSUME NEW t \in Threads, SaveWrite(t) PROVE TInv'
  <2>1. Sealed(t) \in Envelope
    BY <1>18 DEF SaveWrite, Sealed, Envelope
  <2>2. \A f : Written(t, f) \subseteq File
    BY <2>1 DEF Written
  <2> QED
    BY <1>18, <2>2 DEF SaveWrite
<1>19. ASSUME NEW t \in Threads, SaveBackup(t) PROVE TInv'
  BY <1>19 DEF SaveBackup
<1>20. ASSUME NEW t \in Threads, SaveCopy(t) PROVE TInv'
  BY <1>20 DEF SaveCopy
<1>21. ASSUME NEW t \in Threads, SaveReplace(t) PROVE TInv'
  <2>1. fd' \in [Threads -> {"none", "tmp", "file", "gone"}]
    BY <1>21 DEF SaveReplace
  <2> QED
    BY <1>21, <2>1 DEF SaveReplace
<1>22. ASSUME NEW t \in Threads, SaveCommit(t) PROVE TInv'
  <2>1. Sealed(t) \in Envelope
    BY <1>22 DEF SaveCommit, Sealed, Envelope
  <2> QED
    BY <1>22, <2>1 DEF SaveCommit
<1>23. ASSUME NEW t \in Threads, SaveFault(t) PROVE TInv'
  BY <1>23 DEF SaveFault
<1>24. ASSUME Crash PROVE TInv'
  BY <1>24 DEF Crash, Envelope
<1>25. CASE UNCHANGED vars
  BY <1>25 DEF vars
<1> QED
  BY <1>1, <1>2, <1>3, <1>4, <1>5, <1>6, <1>7, <1>8, <1>9, <1>10, <1>11, <1>12, <1>13,
     <1>14, <1>15, <1>16, <1>17, <1>18, <1>19, <1>20, <1>21, <1>22, <1>23, <1>24, <1>25
     DEF Next, Call, Create, Unlock, Save, CreateDerive, UnlockDerive, SaveDerive

\* Every variable of the vault stays in its domain, whatever the number of
\* threads and however their calls interleave: no step stores a key, a text or
\* an envelope that was not produced by the step it depends on.
THEOREM SpecTypeOK == Spec => []TypeOK
<1>1. TInv => TypeOK
  BY DEF TInv
<1> QED
  BY TInit, TStep, <1>1, PTL DEF Spec

----------------------------------------------------------------------------
(* One request thread: the file always opens.                              *)

LEMMA SerialInit == Init => IInv
<1> SUFFICES ASSUME Init PROVE IInv
  OBVIOUS
<1>1. TypeOK /\ LocalsReady
  BY TInit DEF TInv
<1>2. FileAlwaysOpens
  BY FirstEnvelopeOpens DEF Init, FileAlwaysOpens
<1>3. KeyFitsSalt /\ WritesToTmp /\ UnlockingIsLocked
  BY DEF Init, KeyFitsSalt, WritesToTmp, UnlockingIsLocked, HasKey, Sealing
<1> QED
  BY <1>1, <1>2, <1>3 DEF IInv

\* A text sealed by SaveWrite opens: the captured key has the captured salt.
LEMMA SealedOpens ==
    ASSUME IInv, NEW t \in Threads, pc[t] \in Sealing
    PROVE  Sealed(t) \in Envelope /\ Opens(Sealed(t))
BY DEF IInv, TypeOK, Local, LocalsReady, KeyFitsSalt, Sealed, Envelope, Opens

LEMMA SerialStep ==
    ASSUME SerialUse, IInv, [Next]_vars
    PROVE  IInv'
<1> USE VaultFileAssumption, DiskAssumption
<1>0. (TypeOK /\ LocalsReady)'
  BY TStep DEF TInv, IInv
<1> DEFINE Rest == FileAlwaysOpens /\ KeyFitsSalt /\ WritesToTmp /\ UnlockingIsLocked
<1> SUFFICES Rest'
  BY <1>0 DEF IInv
<1> USE DEF IInv, TypeOK, LocalsReady, FileAlwaysOpens, KeyFitsSalt, WritesToTmp,
        UnlockingIsLocked, Matches, MaybeKey, MaybeContent, Local, NoCall, NoSalt,
        HasPassword, HasKey, Sealing, Rekeying, disk, memory, Goto, Return, FreshSalt,
        SerialUse, Sealed
<1>1. ASSUME NEW t \in Threads, NEW pw \in Passwords, CreateBegin(t, pw) PROVE Rest'
  BY <1>1 DEF CreateBegin
<1>2. ASSUME NEW t \in Threads, CreateData(t) PROVE Rest'
  BY <1>2 DEF CreateData
<1>3. ASSUME NEW t \in Threads, NEW from, NEW to, DeriveFrom(t, from, to),
             <<from, to>> \in {<<"create_derive", "create_key">>,
                               <<"unlock_derive", "unlock_decrypt">>,
                               <<"save_derive", "save_key">>}
      PROVE  Rest'
  BY <1>3 DEF DeriveFrom, Key
<1>4. ASSUME NEW t \in Threads, CreateKey(t) PROVE Rest'
  BY <1>4 DEF CreateKey
<1>5. ASSUME NEW t \in Threads, NEW pw \in Passwords, UnlockBegin(t, pw) PROVE Rest'
  BY <1>5 DEF UnlockBegin
<1>6. ASSUME NEW t \in Threads, UnlockLoad(t) PROVE Rest'
  BY <1>6 DEF UnlockLoad
<1>7. ASSUME NEW t \in Threads, UnlockDecrypt(t) PROVE Rest'
  BY <1>7 DEF UnlockDecrypt
<1>8. ASSUME NEW t \in Threads, UnlockData(t) PROVE Rest'
  BY <1>8 DEF UnlockData
<1>9. ASSUME NEW t \in Threads, UnlockKey(t) PROVE Rest'
  BY <1>9 DEF UnlockKey
<1>10. ASSUME Lock PROVE Rest'
  BY <1>10 DEF Lock, LockData, LockEnvelope, LockKey
<1>11. ASSUME NEW t \in Threads, NEW c \in Contents, Update(t, c) PROVE Rest'
  BY <1>11 DEF Update
<1>12. ASSUME NEW t \in Threads, NEW pw \in Passwords, ChangePassword(t, pw) PROVE Rest'
  BY <1>12 DEF ChangePassword
<1>13. ASSUME NEW t \in Threads, SaveCheck(t) PROVE Rest'
  BY <1>13 DEF SaveCheck
<1>14. ASSUME NEW t \in Threads, SaveKey(t) PROVE Rest'
  BY <1>14 DEF SaveKey
<1>15. ASSUME NEW t \in Threads, SaveCapture(t) PROVE Rest'
  <2>1. CASE key = None
    BY <1>15, <2>1 DEF SaveCapture
  <2>2. CASE key # None
    <3>1. loc' = [loc EXCEPT ![t] = [loc[t] EXCEPT !.key = key, !.salt = salt]]
      BY <1>15, <2>2 DEF SaveCapture
    <3> QED
      BY <1>15, <2>2, <3>1 DEF SaveCapture
  <2> QED
    BY <2>1, <2>2
<1>16. ASSUME NEW t \in Threads, SaveEncrypt(t) PROVE Rest'
  BY <1>16 DEF SaveEncrypt
<1>17. ASSUME NEW t \in Threads, SaveOpen(t) PROVE Rest'
  BY <1>17 DEF SaveOpen
<1>18. ASSUME NEW t \in Threads, SaveWrite(t) PROVE Rest'
  BY <1>18 DEF SaveWrite, Written
<1>19. ASSUME NEW t \in Threads, SaveBackup(t) PROVE Rest'
  BY <1>19 DEF SaveBackup
<1>20. ASSUME NEW t \in Threads, SaveCopy(t) PROVE Rest'
  BY <1>20 DEF SaveCopy
<1>21. ASSUME NEW t \in Threads, SaveReplace(t) PROVE Rest'
  BY <1>21, SealedOpens DEF SaveReplace
<1>22. ASSUME NEW t \in Threads, SaveCommit(t) PROVE Rest'
  BY <1>22 DEF SaveCommit
<1>23. ASSUME NEW t \in Threads, SaveFault(t) PROVE Rest'
  BY <1>23 DEF SaveFault
<1>24. ASSUME Crash PROVE Rest'
  BY <1>24 DEF Crash
<1>25. CASE UNCHANGED vars
  BY <1>25 DEF vars
<1> QED
  BY <1>1, <1>2, <1>3, <1>4, <1>5, <1>6, <1>7, <1>8, <1>9, <1>10, <1>11, <1>12, <1>13,
     <1>14, <1>15, <1>16, <1>17, <1>18, <1>19, <1>20, <1>21, <1>22, <1>23, <1>24, <1>25
     DEF Next, Call, Create, Unlock, Save, CreateDerive, UnlockDerive, SaveDerive

\* Under serial use the vault file, once it exists, is at every instant a whole
\* envelope its password opens: through every crash, every OSError of open,
\* write, copy or replace, and every lock() that races the save.
THEOREM SpecFileAlwaysOpens ==
    ASSUME SerialUse
    PROVE  Spec => []FileAlwaysOpens
<1>1. IInv /\ [Next]_vars => IInv'
  BY SerialStep
<1>2. IInv => FileAlwaysOpens
  BY DEF IInv
<1> QED
  BY SerialInit, <1>1, <1>2, PTL DEF Spec

----------------------------------------------------------------------------
(* One request thread: the vault file is an AtomicVault.                   *)

RInv == IInv /\ UnlockReadsFile

LEMMA RefInvInit == Init => RInv
BY SerialInit DEF Init, RInv, UnlockReadsFile

LEMMA RefInvStep ==
    ASSUME SerialUse, RInv, [Next]_vars
    PROVE  RInv'
<1> USE VaultFileAssumption, DiskAssumption
<1>0. IInv'
  BY SerialStep DEF RInv
<1> SUFFICES UnlockReadsFile'
  BY <1>0 DEF RInv
<1>a. IInv /\ TypeOK /\ UnlockReadsFile
  BY DEF RInv, IInv
<1> USE <1>a DEF TypeOK, UnlockReadsFile, disk, memory, Goto, Return, SerialUse, Local
<1>1. ASSUME NEW t \in Threads, Call(t) PROVE UnlockReadsFile'
  BY <1>1 DEF Call, CreateBegin, UnlockBegin, ChangePassword, Update
<1>2. ASSUME NEW t \in Threads, Create(t) PROVE UnlockReadsFile'
  BY <1>2 DEF Create, CreateData, CreateDerive, DeriveFrom, CreateKey
<1>3. ASSUME NEW t \in Threads, Unlock(t) PROVE UnlockReadsFile'
  BY <1>3 DEF Unlock, UnlockLoad, UnlockDerive, DeriveFrom, UnlockDecrypt, UnlockData, UnlockKey
<1>4. ASSUME NEW t \in Threads, Save(t) PROVE UnlockReadsFile'
  <2>1. CASE SaveWrite(t)
    BY <2>1 DEF SaveWrite, IInv, WritesToTmp
  <2>2. CASE SaveCheck(t) \/ SaveDerive(t) \/ SaveKey(t) \/ SaveEncrypt(t) \/ SaveOpen(t)
    BY <2>2 DEF SaveCheck, SaveDerive, DeriveFrom, SaveKey, SaveEncrypt, SaveOpen
  <2>3. CASE SaveCapture(t) \/ SaveBackup(t) \/ SaveCopy(t) \/ SaveReplace(t)
                \/ SaveCommit(t) \/ SaveFault(t)
    BY <2>3 DEF SaveCapture, SaveBackup, SaveCopy, SaveReplace, SaveCommit, SaveFault
  <2> QED
    BY <1>4, <2>1, <2>2, <2>3 DEF Save
<1>5. ASSUME Lock PROVE UnlockReadsFile'
  BY <1>5 DEF Lock, LockData, LockEnvelope, LockKey
<1>6. CASE Crash
  BY <1>6 DEF Crash
<1>7. CASE UNCHANGED vars
  BY <1>7 DEF vars
<1> QED
  BY <1>1, <1>2, <1>3, <1>4, <1>5, <1>6, <1>7 DEF Next

\* The thread whose text Draft shows is the only one there is.
LEMMA DraftIs ==
    ASSUME SerialUse, NEW t \in Threads
    PROVE  Draft = IF pc[t] \in Writing THEN loc[t].text ELSE None
<1>1. CASE pc[t] \in Writing
  <2>1. (CHOOSE u \in Threads : pc[u] \in Writing) = t
    BY <1>1 DEF SerialUse
  <2> QED
    BY <1>1, <2>1 DEF Draft
<1>2. CASE pc[t] \notin Writing
  BY <1>2 DEF Draft, SerialUse
<1> QED
  BY <1>1, <1>2

LEMMA DraftIsNext ==
    ASSUME SerialUse, NEW t \in Threads
    PROVE  Draft' = IF pc'[t] \in Writing THEN loc'[t].text ELSE None
<1>1. CASE pc'[t] \in Writing
  <2>1. (CHOOSE u \in Threads : pc'[u] \in Writing) = t
    BY <1>1 DEF SerialUse
  <2> QED
    BY <1>1, <2>1 DEF Draft
<1>2. CASE pc'[t] \notin Writing
  BY <1>2 DEF Draft, SerialUse
<1> QED
  BY <1>1, <1>2

LEMMA RefInit == Init => AV!AInit
<1> SUFFICES ASSUME Init PROVE AV!AInit
  OBVIOUS
<1>1. Stored \in AV!Record \cup {None}
  BY DiskAssumption, FirstEnvelopeOpens DEF Init, Stored, AV!Record, FirstEnvelope
<1>2. Draft = None
  BY DEF Init, Draft, Writing
<1> QED
  BY <1>1, <1>2 DEF Init, AV!AInit

LEMMA RefStep ==
    ASSUME SerialUse, RInv, [Next]_vars
    PROVE  [AV!ANext]_(AV!avars)
<1> USE VaultFileAssumption, DiskAssumption
<1> USE DEF Stored, disk, memory, Goto, Return, RInv, IInv, TypeOK, Local, Writing, Steps
<1>1. ASSUME NEW t \in Threads, Call(t) PROVE [AV!ANext]_(AV!avars)
  <2>1. UNCHANGED Draft
    BY <1>1, DraftIs, DraftIsNext DEF Call, CreateBegin, UnlockBegin, ChangePassword, Update
  <2> QED
    BY <1>1, <2>1 DEF Call, CreateBegin, UnlockBegin, ChangePassword, Update,
       AV!ANext, AV!AEdit, AV!avars
<1>2. ASSUME NEW t \in Threads, Create(t) PROVE [AV!ANext]_(AV!avars)
  <2>1. UNCHANGED Draft
    BY <1>2, DraftIs, DraftIsNext DEF Create, CreateData, CreateDerive, DeriveFrom, CreateKey
  <2> QED
    BY <1>2, <2>1 DEF Create, CreateData, CreateDerive, DeriveFrom, CreateKey,
       UnlockReadsFile, AV!ANext, AV!ACreate, AV!avars
<1>3. ASSUME NEW t \in Threads, Unlock(t) PROVE [AV!ANext]_(AV!avars)
  <2>1. UNCHANGED Draft
    BY <1>3, DraftIs, DraftIsNext
       DEF Unlock, UnlockLoad, UnlockDerive, DeriveFrom, UnlockDecrypt, UnlockData, UnlockKey
  <2>2. CASE UnlockData(t)
    <3>1. file \in Envelope /\ file # None /\ data = None /\ data' = file.content
      BY <2>2 DEF UnlockData, UnlockReadsFile, UnlockingIsLocked
    <3>2. Stored # None /\ Stored.content = file.content /\ UNCHANGED Stored
      <4>1. Stored = [pw |-> file.key.pw, content |-> file.content]
        BY <3>1
      <4>2. [pw |-> file.key.pw, content |-> file.content] \in AV!Record
        BY <3>1 DEF Envelope, Key, AV!Record
      <4> QED
        BY <4>1, <4>2, <2>2, RecordAssumption DEF UnlockData, AV!Record
    <3> QED
      BY <2>1, <3>1, <3>2 DEF AV!ANext, AV!AOpen
  <2>3. CASE ~UnlockData(t)
    BY <1>3, <2>1, <2>3 DEF Unlock, UnlockLoad, UnlockDerive, DeriveFrom, UnlockDecrypt,
       UnlockKey, AV!avars
  <2> QED
    BY <2>2, <2>3
<1>4. ASSUME NEW t \in Threads, Save(t) PROVE [AV!ANext]_(AV!avars)
  <2>1. CASE SaveEncrypt(t)
    <3>1. data # None /\ pc' = [pc EXCEPT ![t] = "save_open"] => Draft = None /\ Draft' = data
      BY <2>1, DraftIs, DraftIsNext DEF SaveEncrypt
    <3>2. data = None \/ loc[t].salt = NoSalt => UNCHANGED Draft
      BY <2>1, DraftIs, DraftIsNext DEF SaveEncrypt
    <3> QED
      BY <2>1, <3>1, <3>2 DEF SaveEncrypt, AV!ANext, AV!ASnapshot, AV!avars
  <2>2. CASE SaveReplace(t)
    <3>1. /\ tmp = Sealed(t) /\ Sealed(t) \in Envelope
          /\ loc[t].text \in Contents /\ loc[t].key \in Key
      BY <2>2, SealedOpens DEF SaveReplace, WritesToTmp, LocalsReady, Sealing
    <3>2. Draft = loc[t].text /\ Draft' = None
      BY <2>2, <3>1, DraftIs, DraftIsNext DEF SaveReplace
    <3>3. Stored' = [pw |-> loc[t].key.pw, content |-> loc[t].text]
      BY <2>2, <3>1 DEF SaveReplace, Sealed
    <3> QED
      BY <2>2, <3>1, <3>2, <3>3 DEF SaveReplace, Key, AV!ANext, AV!APersist
  <2>3. CASE SaveFault(t)
    <3>1. Draft' = None
      BY <2>3, DraftIsNext DEF SaveFault
    <3> QED
      BY <2>3, <3>1 DEF SaveFault, AV!ANext, AV!AAbort
  <2>4. CASE SaveOpen(t) \/ SaveWrite(t) \/ SaveBackup(t) \/ SaveCopy(t)
    <3>1. UNCHANGED Draft
      BY <2>4, DraftIs, DraftIsNext DEF SaveOpen, SaveWrite, SaveBackup, SaveCopy
    <3> QED
      BY <2>4, <3>1 DEF SaveOpen, SaveWrite, SaveBackup, SaveCopy, WritesToTmp, AV!avars
  <2>5. CASE SaveCheck(t) \/ SaveDerive(t) \/ SaveKey(t) \/ SaveCapture(t) \/ SaveCommit(t)
    <3>1. UNCHANGED Draft
      BY <2>5, DraftIs, DraftIsNext
         DEF SaveCheck, SaveDerive, DeriveFrom, SaveKey, SaveCapture, SaveCommit
    <3> QED
      BY <2>5, <3>1 DEF SaveCheck, SaveDerive, DeriveFrom, SaveKey, SaveCapture, SaveCommit,
         AV!avars
  <2> QED
    BY <1>4, <2>1, <2>2, <2>3, <2>4, <2>5 DEF Save
<1>5. ASSUME Lock PROVE [AV!ANext]_(AV!avars)
  BY <1>5 DEF Lock, LockData, LockEnvelope, LockKey, Draft, AV!ANext, AV!ALock, AV!avars
<1>6. CASE Crash
  BY <1>6 DEF Crash, Draft, AV!ANext, AV!ACrash
<1>7. CASE UNCHANGED vars
  BY <1>7 DEF vars, Draft, AV!avars
<1> QED
  BY <1>1, <1>2, <1>3, <1>4, <1>5, <1>6, <1>7 DEF Next

\* Under serial use the multi-step save, with its temporary file, backup copy,
\* salts, faults and crashes, implements one durable record replaced in a
\* single step: no caller can observe or be left with part of a save.
THEOREM SpecImplementsAtomicVault ==
    ASSUME SerialUse
    PROVE  Spec => ImplementsAtomicVault
<1>1. RInv /\ [Next]_vars => RInv'
  BY RefInvStep
<1>2. RInv /\ [Next]_vars => [AV!ANext]_(AV!avars)
  BY RefStep
<1> QED
  BY RefInvInit, RefInit, <1>1, <1>2, PTL DEF Spec, ImplementsAtomicVault, AV!ASpec

----------------------------------------------------------------------------
(* Any number of threads that edit and unlock, beside no lock().           *)

\* The one key in use, by everything that holds one: the key the file began with.
OneKey(k) ==
    /\ k.salt = 1 /\ lockPc = "idle"
    /\ \A e \in {file, tmp, cipher} : e \in Envelope => e.key = k /\ e.salt = k.salt
    /\ salt \in {NoSalt, k.salt} /\ key \in {None, k}
    /\ \A t \in Threads :
        /\ pc[t] \notin {"create_data", "create_derive", "create_key", "save_derive", "save_key"}
        /\ pc[t] = "save_check" => loc[t].pw = None
        /\ pc[t] = "unlock_derive" => salt = k.salt
        /\ pc[t] \in {"unlock_data", "unlock_key", "save_encrypt"} \cup Sealing => loc[t].key = k
        /\ pc[t] = "save_encrypt" => loc[t].salt \in {NoSalt, k.salt}
        /\ pc[t] \in Sealing => loc[t].salt = k.salt

KInv == TInv /\ \E k : OneKey(k)

\* A process that starts has no key in use but its file's.
LEMMA KeyInit == Init => \E k : OneKey(k)
<1> SUFFICES ASSUME Init PROVE \E k : OneKey(k)
  OBVIOUS
<1>1. /\ tmp \notin Envelope /\ cipher \notin Envelope /\ salt = NoSalt /\ key = None
      /\ lockPc = "idle" /\ \A t \in Threads : pc[t] = "idle"
  BY DiskAssumption DEF Init
<1>2. ASSUME NEW k, k.salt = 1, file \in Envelope => file.key = k /\ file.salt = 1
      PROVE  OneKey(k)
  BY <1>1, <1>2 DEF OneKey, Sealing
<1>3. CASE file = None
  <2>1. [salt |-> 1].salt = 1 /\ file \notin Envelope
    BY <1>3, DiskAssumption
  <2> QED
    BY <1>2, <2>1
<1>4. ASSUME NEW pw \in Passwords, NEW c \in Contents, file = FirstEnvelope(pw, c)
      PROVE  \E k : OneKey(k)
  <2>1. file.key.salt = 1 /\ file.salt = 1
    BY <1>4 DEF FirstEnvelope
  <2> QED
    BY <1>2, <2>1
<1> QED
  BY <1>3, <1>4 DEF Init

\* What a save writes is sealed under the key and the salt in use.
LEMMA SealedUnderKey ==
    ASSUME NEW k, OneKey(k), NEW t \in Threads, pc[t] \in Sealing
    PROVE  Sealed(t).key = k /\ Sealed(t).salt = k.salt
BY DEF OneKey, Sealed

\* No step brings another key: a salt is drawn only where there is none, and there is one
\* wherever a key is derived; a wrong password derives a key that decrypts nothing.
LEMMA KeyStep ==
    ASSUME Operators = {}, ~Locking, TInv, NEW k, OneKey(k), [Next]_vars
    PROVE  OneKey(k)'
<1> USE VaultFileAssumption, DiskAssumption
<1> USE DEF OneKey, Sealing, HasKey, NoSalt, disk, memory, Goto, Return, FreshSalt
<1>0. /\ pc \in [Threads -> Steps] /\ loc \in [Threads -> Local] /\ cipher \in Envelope \cup {None}
      /\ 1 # 0
  BY DEF TInv, TypeOK
<1>1. ASSUME NEW t \in Threads, CreateData(t) \/ CreateDerive(t) \/ CreateKey(t) \/ SaveDerive(t)
                                \/ SaveKey(t)
      PROVE  FALSE
  BY <1>1 DEF CreateData, CreateDerive, CreateKey, SaveDerive, SaveKey, DeriveFrom
<1>2. ASSUME NEW t \in Threads, NEW pw \in Passwords, UnlockBegin(t, pw) PROVE OneKey(k)'
  BY <1>0, <1>2 DEF UnlockBegin
<1>3. ASSUME NEW t \in Threads, UnlockLoad(t) PROVE OneKey(k)'
  BY <1>0, <1>3 DEF UnlockLoad
<1>4. ASSUME NEW t \in Threads, UnlockDerive(t) PROVE OneKey(k)'
  BY <1>0, <1>4 DEF UnlockDerive, DeriveFrom
<1>5. ASSUME NEW t \in Threads, UnlockDecrypt(t) PROVE OneKey(k)'
  BY <1>0, <1>5 DEF UnlockDecrypt, Local
<1>6. ASSUME NEW t \in Threads, UnlockData(t) PROVE OneKey(k)'
  BY <1>0, <1>6 DEF UnlockData
<1>7. ASSUME NEW t \in Threads, UnlockKey(t) PROVE OneKey(k)'
  BY <1>0, <1>7 DEF UnlockKey
<1>8. ASSUME NEW t \in Threads, NEW c \in Contents, Update(t, c) PROVE OneKey(k)'
  BY <1>0, <1>8 DEF Update, NoCall
<1>9. ASSUME NEW t \in Threads, SaveCheck(t) PROVE OneKey(k)'
  BY <1>0, <1>9 DEF SaveCheck
<1>10. ASSUME NEW t \in Threads, SaveCapture(t) PROVE OneKey(k)'
  BY <1>0, <1>10 DEF SaveCapture, Local
<1>11. ASSUME NEW t \in Threads, SaveEncrypt(t) PROVE OneKey(k)'
  BY <1>0, <1>11 DEF SaveEncrypt, Local
<1>12. ASSUME NEW t \in Threads, SaveOpen(t) PROVE OneKey(k)'
  BY <1>0, <1>12 DEF SaveOpen
<1>13. ASSUME NEW t \in Threads, SaveWrite(t) PROVE OneKey(k)'
  <2>1. /\ pc[t] = "save_write" /\ pc' = [pc EXCEPT ![t] = "save_backup"]
        /\ \/ tmp' \in {Sealed(t), Partial} /\ file' = file
           \/ file' \in {Sealed(t), Partial} /\ tmp' = tmp
           \/ UNCHANGED <<file, tmp>>
        /\ UNCHANGED <<cipher, salt, key, loc, lockPc>>
    BY <1>13 DEF SaveWrite, Written
  <2>2. Sealed(t).key = k /\ Sealed(t).salt = k.salt
    BY <2>1, SealedUnderKey
  <2> QED
    BY <1>0, <2>1, <2>2
<1>14. ASSUME NEW t \in Threads, SaveBackup(t) \/ SaveCopy(t) PROVE OneKey(k)'
  BY <1>0, <1>14 DEF SaveBackup, SaveCopy
<1>15. ASSUME NEW t \in Threads, SaveReplace(t) PROVE OneKey(k)'
  BY <1>0, <1>15 DEF SaveReplace
<1>16. ASSUME NEW t \in Threads, SaveCommit(t) PROVE OneKey(k)'
  <2>1. Sealed(t).key = k /\ Sealed(t).salt = k.salt /\ loc[t].salt = k.salt
    BY <1>16, SealedUnderKey DEF SaveCommit
  <2> QED
    BY <1>0, <1>16, <2>1 DEF SaveCommit
<1>17. ASSUME NEW t \in Threads, SaveFault(t) PROVE OneKey(k)'
  BY <1>0, <1>17 DEF SaveFault
<1>18. ASSUME Lock PROVE FALSE
  BY <1>18 DEF Lock, LockData, LockEnvelope, LockKey
<1>19. ASSUME Crash PROVE OneKey(k)'
  BY <1>0, <1>19 DEF Crash
<1>20. CASE UNCHANGED vars
  BY <1>20 DEF vars
<1>21. ASSUME NEW t \in Threads, NEW pw \in Passwords,
              t \in Operators /\ (CreateBegin(t, pw) \/ ChangePassword(t, pw))
       PROVE  FALSE
  BY <1>21
<1> QED
  BY <1>1, <1>2, <1>3, <1>4, <1>5, <1>6, <1>7, <1>8, <1>9, <1>10, <1>11, <1>12, <1>13, <1>14,
     <1>15, <1>16, <1>17, <1>18, <1>19, <1>20, <1>21 DEF Next, Call, Create, Unlock, Save

LEMMA KInvHolds ==
    ASSUME Operators = {}, ~Locking
    PROVE  Spec => []KInv
<1>1. Init => KInv
  BY TInit, KeyInit DEF KInv
<1>2. KInv /\ [Next]_vars => KInv'
  <2> SUFFICES ASSUME KInv, [Next]_vars PROVE KInv'
    OBVIOUS
  <2>1. PICK k : OneKey(k)
    BY DEF KInv
  <2>2. OneKey(k)'
    BY <2>1, KeyStep DEF KInv
  <2>3. TInv'
    BY TStep DEF KInv
  <2> QED
    BY <2>2, <2>3 DEF KInv
<1> QED
  BY <1>1, <1>2, PTL DEF Spec

\* However the edits and unlocks of any number of threads interleave, and wherever they
\* crash or their writes fail, a vault file that is whole is sealed under the salt it
\* records, as long as nobody creates it, changes its password or locks it beside them.
THEOREM SpecSealedUnderItsSalt ==
    ASSUME Operators = {}, ~Locking
    PROVE  Spec => []SealedUnderItsSalt
<1>1. KInv => SealedUnderItsSalt
  BY DEF KInv, OneKey, SealedUnderItsSalt, Opens
<1> QED
  BY KInvHolds, <1>1, PTL

\* Nor do edits, crashes and failed writes change the password that opens the file:
\* it is sealed under the same key again.
THEOREM SpecPasswordChangesOnRequest ==
    ASSUME Operators = {}, ~Locking
    PROVE  Spec => PasswordChangesOnRequest
<1>1. KInv /\ [Next]_vars => (file' # file /\ Opens(file) /\ Opens(file') =>
          file'.key.pw = file.key.pw \/ \E t \in Threads : loc[t].pw = file'.key.pw)
  <2> SUFFICES ASSUME KInv, [Next]_vars, Opens(file), Opens(file')
               PROVE  file'.key.pw = file.key.pw
    OBVIOUS
  <2>1. PICK k : OneKey(k)
    BY DEF KInv
  <2>2. OneKey(k)'
    BY <2>1, KeyStep DEF KInv
  <2>3. file.key = k /\ file'.key = k
    BY <2>1, <2>2 DEF OneKey, Opens
  <2> QED
    BY <2>3
<1> QED
  BY KInvHolds, <1>1, PTL DEF Spec, PasswordChangesOnRequest
=============================================================================
