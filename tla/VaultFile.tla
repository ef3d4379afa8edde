----------------------------- MODULE VaultFile -----------------------------
(***************************************************************************)
(* app/core/vault.py: one Vault object, its file on disk, and the threads  *)
(* that call it.  Every method is split at the points where another thread *)
(* can run or the process can die: Argon2 and file I/O release the         *)
(* interpreter lock, and Vault takes no lock of its own.                   *)
(*                                                                         *)
(* A derived key is the pair it is computed from.  A vault file opens with *)
(* a password only when that password, with the salt written NEXT TO the   *)
(* ciphertext, gives the key the ciphertext was encrypted under.           *)
(***************************************************************************)
EXTENDS Naturals

CONSTANTS
    Threads,         \* threads that may call unlock / save
    Operators,       \* the threads among them that may create or change the password
    Passwords,
    Contents,        \* what VaultData can hold, as far as callers tell it apart
    InitialContent,  \* VaultData() as create() builds it
    None,            \* Python's None, and a missing file
    Partial,         \* a truncated, half-written or interleaved file
    MaxSalts,        \* bound: random salts drawn in one behaviour
    Locking,         \* whether lock() may run beside the other threads
    DiskFaults       \* whether open / write / copy / replace may raise OSError

ASSUME VaultFileAssumption ==
    /\ Operators \subseteq Threads
    /\ InitialContent \in Contents
    /\ None \notin Contents
    /\ None \notin Passwords
    /\ MaxSalts \in Nat
    /\ Locking \in BOOLEAN
    /\ DiskFaults \in BOOLEAN

NoSalt == 0

Key == [pw : Passwords, salt : Nat]

\* The JSON envelope of save(): the salt beside a ciphertext under a key.
Envelope == [key : Key, salt : Nat, content : Contents]

ASSUME DiskAssumption ==
    /\ None \notin Key
    /\ None \notin Envelope
    /\ Partial \notin Envelope
    /\ None # Partial

ASSUME RecordAssumption == None \notin [pw : Passwords, content : Contents]

VARIABLES
    file, tmp, bak,  \* vault.enc, vault.enc.tmp, vault.enc.bak
    data,            \* Vault._data: None while locked
    cipher,          \* Vault._cipher_text with its nonce: the envelope read or written last
    salt,            \* Vault._salt
    key,             \* Vault._derived_key
    pc,              \* the next step of each thread
    loc,             \* the locals of each thread's method call
    fd,              \* where the tmp handle a thread holds open now leads
    lockPc,          \* the next step of Vault.lock() in another thread
    salts            \* salts drawn so far

disk == <<file, tmp, bak>>
memory == <<data, cipher, salt, key>>
vars == <<file, tmp, bak, data, cipher, salt, key, pc, loc, fd, lockPc, salts>>

Steps == {"idle", "create_data", "create_derive", "create_key",
          "unlock_load", "unlock_derive", "unlock_decrypt", "unlock_data", "unlock_key",
          "save_check", "save_derive", "save_key", "save_capture", "save_encrypt",
          "save_open", "save_write", "save_backup", "save_copy", "save_replace",
          "save_commit"}

NoCall == [pw |-> None, key |-> None, salt |-> NoSalt, text |-> None]

\* The process starts over an empty directory or over a vault saved earlier.
FirstEnvelope(pw, c) == [key |-> [pw |-> pw, salt |-> 1], salt |-> 1, content |-> c]

Init ==
    /\ \/ file = None
       \/ \E pw \in Passwords, c \in Contents : file = FirstEnvelope(pw, c)
    /\ tmp = None /\ bak = None
    /\ data = None /\ cipher = None /\ salt = NoSalt /\ key = None
    /\ pc = [t \in Threads |-> "idle"]
    /\ loc = [t \in Threads |-> NoCall]
    /\ fd = [t \in Threads |-> "none"]
    /\ lockPc = "idle"
    /\ salts = 1

Goto(t, from, to) == pc[t] = from /\ pc' = [pc EXCEPT ![t] = to]

\* The method returns or raises: its locals are gone.
Return(t, from) == Goto(t, from, "idle") /\ loc' = [loc EXCEPT ![t] = NoCall]

\* secrets.token_bytes(SALT_BYTES): a value never drawn before.
FreshSalt(s) == salts < MaxSalts /\ s = salts + 1 /\ salts' = s

----------------------------------------------------------------------------
(* create()                                                                *)

CreateBegin(t, pw) ==
    /\ file = None
    /\ Goto(t, "idle", "create_data")
    /\ loc' = [loc EXCEPT ![t] = [NoCall EXCEPT !.pw = pw]]
    /\ UNCHANGED <<disk, memory, fd, lockPc, salts>>

\* Reached only after the agent token has been hashed: the existence check is old.
CreateData(t) ==
    /\ Goto(t, "create_data", "create_derive")
    /\ data' = InitialContent
    /\ FreshSalt(salt')
    /\ UNCHANGED <<disk, cipher, key, loc, fd, lockPc>>

\* _derive_key: the salt is read now, Argon2 runs, the result is used in the next step.
DeriveFrom(t, from, to) ==
    /\ Goto(t, from, to)
    /\ IF salt = NoSalt THEN FreshSalt(salt') ELSE UNCHANGED <<salt, salts>>
    /\ loc' = [loc EXCEPT ![t].key = [pw |-> loc[t].pw, salt |-> salt']]
    /\ UNCHANGED <<disk, data, cipher, key, fd, lockPc>>

CreateDerive(t) == DeriveFrom(t, "create_derive", "create_key")

CreateKey(t) ==
    /\ Goto(t, "create_key", "save_check")
    /\ key' = loc[t].key
    /\ UNCHANGED <<disk, data, cipher, salt, loc, fd, lockPc, salts>>

----------------------------------------------------------------------------
(* unlock()                                                                *)

UnlockBegin(t, pw) ==
    /\ data = None
    /\ file # None
    /\ Goto(t, "idle", "unlock_load")
    /\ loc' = [loc EXCEPT ![t] = [NoCall EXCEPT !.pw = pw]]
    /\ UNCHANGED <<disk, memory, fd, lockPc, salts>>

\* load_encrypted(): an unreadable file raises before any field is assigned.
UnlockLoad(t) ==
    /\ \/ /\ file \in Envelope
          /\ Goto(t, "unlock_load", "unlock_derive")
          /\ cipher' = file
          /\ salt' = file.salt
          /\ UNCHANGED loc
       \/ /\ file \notin Envelope
          /\ Return(t, "unlock_load")
          /\ UNCHANGED <<cipher, salt>>
    /\ UNCHANGED <<disk, data, key, fd, lockPc, salts>>

UnlockDerive(t) == DeriveFrom(t, "unlock_derive", "unlock_decrypt")

\* Seeded fault: the authentication tag is not checked.
UnlockDecryptUnauthenticated(t) ==
    /\ IF cipher # None
       THEN /\ Goto(t, "unlock_decrypt", "unlock_data")
            /\ loc' = [loc EXCEPT ![t].text = cipher.content]
       ELSE Return(t, "unlock_decrypt")
    /\ UNCHANGED <<disk, memory, fd, lockPc, salts>>

UnlockDecrypt(t) ==
    /\ IF cipher # None /\ cipher.key = loc[t].key
       THEN /\ Goto(t, "unlock_decrypt", "unlock_data")
            /\ loc' = [loc EXCEPT ![t].text = cipher.content]
       ELSE Return(t, "unlock_decrypt")
    /\ UNCHANGED <<disk, memory, fd, lockPc, salts>>

UnlockData(t) ==
    /\ Goto(t, "unlock_data", "unlock_key")
    /\ data' = loc[t].text
    /\ UNCHANGED <<disk, cipher, salt, key, loc, fd, lockPc, salts>>

UnlockKey(t) ==
    /\ Return(t, "unlock_key")
    /\ key' = loc[t].key
    /\ UNCHANGED <<disk, data, cipher, salt, fd, lockPc, salts>>

----------------------------------------------------------------------------
(* lock(), called by the auto-lock thread or a lock request.               *)

LockData ==
    /\ Locking
    /\ lockPc = "idle"
    /\ lockPc' = "envelope"
    /\ data' = None
    /\ UNCHANGED <<disk, cipher, salt, key, pc, loc, fd, salts>>

LockEnvelope ==
    /\ lockPc = "envelope"
    /\ lockPc' = "key"
    /\ cipher' = None
    /\ salt' = NoSalt
    /\ UNCHANGED <<disk, data, key, pc, loc, fd, salts>>

LockKey ==
    /\ lockPc = "key"
    /\ lockPc' = "idle"
    /\ key' = None
    /\ UNCHANGED <<disk, data, cipher, salt, pc, loc, fd, salts>>

----------------------------------------------------------------------------
(* save().  Its callers edit the decrypted data in place and then call it. *)

Update(t, c) ==
    /\ data # None
    /\ Goto(t, "idle", "save_check")
    /\ data' = c
    /\ loc' = [loc EXCEPT ![t] = NoCall]
    /\ UNCHANGED <<disk, cipher, salt, key, fd, lockPc, salts>>

ChangePassword(t, pw) ==
    /\ data # None
    /\ Goto(t, "idle", "save_check")
    /\ loc' = [loc EXCEPT ![t] = [NoCall EXCEPT !.pw = pw]]
    /\ UNCHANGED <<disk, memory, fd, lockPc, salts>>

\* Seeded fault: every save draws a new salt, with or without a new password.
SaveCheckResalts(t) ==
    /\ data # None
    /\ Goto(t, "save_check", IF loc[t].pw = None THEN "save_capture" ELSE "save_derive")
    /\ FreshSalt(salt')
    /\ UNCHANGED <<disk, data, cipher, key, loc, fd, lockPc>>

\* A new password replaces the salt in memory before anything is written.
SaveCheck(t) ==
    /\ \/ /\ data = None
          /\ Return(t, "save_check")
          /\ UNCHANGED <<salt, salts>>
       \/ /\ data # None
          /\ loc[t].pw = None
          /\ Goto(t, "save_check", "save_capture")
          /\ UNCHANGED <<loc, salt, salts>>
       \/ /\ data # None
          /\ loc[t].pw # None
          /\ Goto(t, "save_check", "save_derive")
          /\ FreshSalt(salt')
          /\ UNCHANGED loc
    /\ UNCHANGED <<disk, data, cipher, key, fd, lockPc>>

SaveDerive(t) == DeriveFrom(t, "save_derive", "save_key")

SaveKey(t) ==
    /\ Goto(t, "save_key", "save_capture")
    /\ key' = loc[t].key
    /\ UNCHANGED <<disk, data, cipher, salt, loc, fd, lockPc, salts>>

\* Seeded fault: a missing key is not noticed.
SaveCaptureUnchecked(t) ==
    /\ Goto(t, "save_capture", "save_encrypt")
    /\ loc' = [loc EXCEPT ![t].key = key, ![t].salt = salt]
    /\ UNCHANGED <<disk, memory, fd, lockPc, salts>>

SaveCapture(t) ==
    /\ IF key = None
       THEN Return(t, "save_capture")
       ELSE /\ Goto(t, "save_capture", "save_encrypt")
            /\ loc' = [loc EXCEPT ![t].key = key, ![t].salt = salt]
    /\ UNCHANGED <<disk, memory, fd, lockPc, salts>>

\* to_dict() on a None _data and b64encode on a None salt both raise.
SaveEncrypt(t) ==
    /\ IF data = None \/ loc[t].salt = NoSalt
       THEN Return(t, "save_encrypt")
       ELSE /\ Goto(t, "save_encrypt", "save_open")
            /\ loc' = [loc EXCEPT ![t].text = data]
    /\ UNCHANGED <<disk, memory, fd, lockPc, salts>>

\* Seeded fault: the vault file itself is opened for writing.
SaveOpenInPlace(t) ==
    /\ Goto(t, "save_open", "save_write")
    /\ file' = Partial
    /\ fd' = [fd EXCEPT ![t] = "file"]
    /\ UNCHANGED <<tmp, bak, memory, loc, lockPc, salts>>

\* open(tmp, "w"): one name for every save, truncated if it exists.
SaveOpen(t) ==
    /\ Goto(t, "save_open", "save_write")
    /\ tmp' = Partial
    /\ fd' = [fd EXCEPT ![t] = "tmp"]
    /\ UNCHANGED <<file, bak, memory, loc, lockPc, salts>>

Sealed(t) == [key |-> loc[t].key, salt |-> loc[t].salt, content |-> loc[t].text]

\* Writing over what another handle wrote leaves either text or a mixture.
Written(t, before) == IF before = Partial THEN {Sealed(t)} ELSE {Sealed(t), Partial}

SaveWrite(t) ==
    /\ Goto(t, "save_write", "save_backup")
    /\ fd' = [fd EXCEPT ![t] = "none"]
    /\ \/ fd[t] = "tmp" /\ tmp' \in Written(t, tmp) /\ UNCHANGED file
       \/ fd[t] = "file" /\ file' \in Written(t, file) /\ UNCHANGED tmp
       \/ fd[t] = "gone" /\ UNCHANGED <<file, tmp>>
    /\ UNCHANGED <<bak, memory, loc, lockPc, salts>>

\* shutil.copy2 truncates the backup first; its OSError is swallowed.
SaveBackup(t) ==
    /\ \/ file = None /\ Goto(t, "save_backup", "save_replace") /\ UNCHANGED bak
       \/ file # None /\ Goto(t, "save_backup", "save_copy") /\ bak' = Partial
       \/ file # None /\ DiskFaults /\ Goto(t, "save_backup", "save_replace") /\ UNCHANGED bak
    /\ UNCHANGED <<file, tmp, memory, loc, fd, lockPc, salts>>

SaveCopy(t) ==
    /\ Goto(t, "save_copy", "save_replace")
    /\ \/ bak' = file
       \/ DiskFaults /\ UNCHANGED bak
    /\ UNCHANGED <<file, tmp, memory, loc, fd, lockPc, salts>>

\* os.replace: handles other threads hold on the temporary file now lead to
\* the vault file, and those on the old vault file lead nowhere.
SaveReplace(t) ==
    /\ IF tmp = None
       THEN Return(t, "save_replace") /\ UNCHANGED <<file, tmp, fd>>
       ELSE /\ Goto(t, "save_replace", "save_commit")
            /\ UNCHANGED loc
            /\ file' = tmp
            /\ tmp' = None
            /\ fd' = [u \in Threads |-> CASE fd[u] = "tmp" -> "file"
                                          [] fd[u] = "file" -> "gone"
                                          [] OTHER -> fd[u]]
    /\ UNCHANGED <<bak, memory, lockPc, salts>>

SaveCommit(t) ==
    /\ Return(t, "save_commit")
    /\ salt' = loc[t].salt
    /\ cipher' = Sealed(t)
    /\ UNCHANGED <<disk, data, key, fd, lockPc, salts>>

\* OSError from open, write or replace leaves save() where it stands.
SaveFault(t) ==
    /\ DiskFaults
    /\ pc[t] \in {"save_open", "save_write", "save_replace"}
    /\ Return(t, pc[t])
    /\ fd' = [fd EXCEPT ![t] = "none"]
    /\ UNCHANGED <<disk, memory, lockPc, salts>>

----------------------------------------------------------------------------
\* Seeded fault: a restart adopts a temporary file that looks complete.
CrashAdoptsTmp ==
    /\ data' = None /\ key' = None /\ cipher' = None /\ salt' = NoSalt
    /\ file' = IF tmp \in Envelope THEN tmp ELSE file
    /\ pc' = [t \in Threads |-> "idle"]
    /\ loc' = [t \in Threads |-> NoCall]
    /\ fd' = [t \in Threads |-> "none"]
    /\ lockPc' = "idle"
    /\ UNCHANGED <<tmp, bak, salts>>

\* The process dies; the new one builds its Vault from the file, if readable.
Crash ==
    /\ data' = None
    /\ key' = None
    /\ IF file \in Envelope
       THEN cipher' = file /\ salt' = file.salt
       ELSE cipher' = None /\ salt' = NoSalt
    /\ pc' = [t \in Threads |-> "idle"]
    /\ loc' = [t \in Threads |-> NoCall]
    /\ fd' = [t \in Threads |-> "none"]
    /\ lockPc' = "idle"
    /\ UNCHANGED <<disk, salts>>

Call(t) ==
    \/ \E pw \in Passwords :
          \/ UnlockBegin(t, pw)
          \/ t \in Operators /\ (CreateBegin(t, pw) \/ ChangePassword(t, pw))
    \/ \E c \in Contents : Update(t, c)

Create(t) == CreateData(t) \/ CreateDerive(t) \/ CreateKey(t)

Unlock(t) == \/ UnlockLoad(t) \/ UnlockDerive(t) \/ UnlockDecrypt(t)
             \/ UnlockData(t) \/ UnlockKey(t)

Save(t) == \/ SaveCheck(t) \/ SaveDerive(t) \/ SaveKey(t) \/ SaveCapture(t)
           \/ SaveEncrypt(t) \/ SaveOpen(t) \/ SaveWrite(t) \/ SaveBackup(t)
           \/ SaveCopy(t) \/ SaveReplace(t) \/ SaveCommit(t) \/ SaveFault(t)

Lock == LockData \/ LockEnvelope \/ LockKey

Next == \/ \E t \in Threads : Call(t) \/ Create(t) \/ Unlock(t) \/ Save(t)
        \/ Lock
        \/ Crash

Spec == Init /\ [][Next]_vars

----------------------------------------------------------------------------
(* Properties                                                              *)

File == Envelope \cup {None, Partial}
MaybeKey == Key \cup {None}
MaybeContent == Contents \cup {None}
Local == [pw : Passwords \cup {None}, key : MaybeKey, salt : Nat, text : MaybeContent]

\* Every variable stays in its domain; a thread in the middle of writing
\* (SaveOpen on) holds a whole envelope to write.
TypeOK ==
    /\ file \in File /\ tmp \in File /\ bak \in File
    /\ data \in MaybeContent
    /\ cipher \in Envelope \cup {None}
    /\ salt \in Nat
    /\ key \in MaybeKey
    /\ pc \in [Threads -> Steps]
    /\ loc \in [Threads -> Local]
    /\ fd \in [Threads -> {"none", "tmp", "file", "gone"}]
    /\ lockPc \in {"idle", "envelope", "key"}
    /\ salts \in Nat

Opens(f) == f \in Envelope /\ f.key.salt = f.salt

\* The vault file, once it exists, is at every instant a whole envelope that
\* its master password opens: a crash or an OSError at any step of a save, and
\* a lock() racing it, never leave the only copy of the credentials
\* half-written or sealed under a key whose salt was not recorded.
FileAlwaysOpens == file = None \/ Opens(file)

\* A save that was not given a master password leaves the one that opens the
\* file as it was: editing a definition never changes how it is unlocked.
PasswordChangesOnRequest ==
    [][file' # file /\ Opens(file) /\ Opens(file')
         => \/ file'.key.pw = file.key.pw
            \/ \E t \in Threads : loc[t].pw = file'.key.pw]_vars

\* Whenever save() replaces the vault file, vault.enc.bak holds the content
\* that was replaced ("each vault save keeps previous content").
BackupHoldsPrevious == [][file' # file /\ file # None => bak' = file]_vars

\* However edits and unlocks of several threads interleave, a vault file that
\* is whole is sealed under the salt it records: two edits can mix their text
\* in the temporary file they share, but never shut everybody out of a whole one.
SealedUnderItsSalt == file \in Envelope => Opens(file)

\* The strengthening used by the proofs, part 1: the locals of a thread that
\* the steps ahead of it rely on.  True for any number of threads.
HasPassword == {"create_data", "create_derive", "unlock_load", "unlock_derive", "save_derive"}
HasKey == {"create_key", "save_key", "unlock_decrypt", "unlock_data", "unlock_key",
           "save_encrypt"}
Sealing == {"save_open", "save_write", "save_backup", "save_copy", "save_replace",
            "save_commit"}

LocalsReady ==
    \A t \in Threads :
        /\ pc[t] \in HasPassword => loc[t].pw \in Passwords
        /\ pc[t] \in HasKey \cup Sealing => loc[t].key \in Key
        /\ pc[t] \in Sealing \cup {"unlock_data"} => loc[t].text \in Contents

\* Part 2, for one request thread: a key in memory belongs to the salt in
\* memory whenever decrypted data is there to be saved, and what a save has
\* captured stays sealed under the captured salt until it is on disk.
Matches(k, s) == k = None \/ s = NoSalt \/ k.salt = s

Rekeying == {"create_derive", "create_key", "save_derive", "save_key", "unlock_key"}

KeyFitsSalt ==
    \A t \in Threads :
        /\ data # None /\ pc[t] \notin Rekeying => Matches(key, salt)
        /\ pc[t] \in HasKey \ {"save_encrypt"} => Matches(loc[t].key, salt)
        /\ pc[t] = "save_encrypt" => data = None \/ Matches(loc[t].key, loc[t].salt)
        /\ pc[t] \in Sealing => loc[t].salt # NoSalt /\ loc[t].key.salt = loc[t].salt
        /\ pc[t] \in Sealing \cup {"save_encrypt"} => key \in {None, loc[t].key}

WritesToTmp ==
    \A t \in Threads :
        /\ fd[t] = IF pc[t] = "save_write" THEN "tmp" ELSE "none"
        /\ pc[t] = "save_write" => tmp = Partial
        /\ pc[t] \in {"save_backup", "save_copy", "save_replace"} => tmp = Sealed(t)

UnlockingIsLocked ==
    \A t \in Threads :
        pc[t] \in {"unlock_load", "unlock_derive", "unlock_decrypt", "unlock_data"} => data = None

\* The inductive invariant behind FileAlwaysOpens.
IInv == /\ TypeOK
        /\ LocalsReady
        /\ FileAlwaysOpens
        /\ KeyFitsSalt
        /\ WritesToTmp
        /\ UnlockingIsLocked

\* Serial use: one request at a time calls the vault (lock() may still race it).
SerialUse == \A t, u \in Threads : t = u

Writing == {"save_open", "save_write", "save_backup", "save_copy", "save_replace"}

Stored == IF file \in Envelope THEN [pw |-> file.key.pw, content |-> file.content] ELSE None

\* What the refinement proof adds: an unlock under way decrypts the file as it is.
UnlockReadsFile ==
    \A t \in Threads :
        /\ pc[t] = "create_data" => file = None
        /\ pc[t] \in {"unlock_derive", "unlock_decrypt"}
               => file \in Envelope /\ cipher \in {None, file}
        /\ pc[t] = "unlock_data" => file \in Envelope /\ loc[t].text = file.content

Draft == IF \E t \in Threads : pc[t] \in Writing
         THEN loc[CHOOSE t \in Threads : pc[t] \in Writing].text
         ELSE None

AV == INSTANCE AtomicVault WITH stored <- Stored, view <- data, draft <- Draft

\* Under serial use the files, salts and keys of this module implement one
\* durable record replaced in a single step (AtomicVault): unlock shows the
\* last completed save, a failed or interrupted save changes nothing.
ImplementsAtomicVault == AV!ASpec
=============================================================================
