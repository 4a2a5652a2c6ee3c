------------------------------- MODULE Rekey -------------------------------
(***************************************************************************)
(* The re-encryption of a whole store: "sympa keyfile rekey", its --resume *)
(* and its --abort (commands/keyfile.go), together with the commands that  *)
(* change the store between rekeys and refuse to run while one is pending. *)
(*                                                                         *)
(* A file is written in place by os.WriteFile, which truncates it before   *)
(* it writes it; every write of the rekey is therefore two steps, and an   *)
(* interruption (a signal, an I/O error, a wrong answer at a prompt) can   *)
(* come between any two steps.  A truncated secret is Torn.  A truncated   *)
(* journal is Torn too: it no longer parses.  A truncated marker file is   *)
(* empty, and an empty marker reads as a store without a keyfile.          *)
(*                                                                         *)
(* One command runs at a time.  The loops over the list of secrets are     *)
(* loops over a set: their order is left open.                             *)
(***************************************************************************)
EXTENDS Keyfile

CONSTANTS
    Names,    \* names of secrets
    Hidden,   \* names under a directory whose name begins with a dot
    Texts,    \* plaintexts
    NoFile,   \* the file does not exist
    Torn,     \* the file exists but was truncated and not filled
    None      \* a local variable without a value; a name without a secret

ASSUME HiddenAssumption == Hidden \subseteq Names

Ciphertext == [key : Key, text : Texts]
SecretFile == Ciphertext \cup {NoFile, Torn}
Job == [old : Credential, new : Credential, chpass : BOOLEAN,
        removing : BOOLEAN, secrets : SUBSET Names]
Snapshot == [files : [Names -> SecretFile], marker : Credential]

ASSUME FileAssumption ==
    /\ NoFile \notin Ciphertext \cup Job
    /\ Torn \notin Ciphertext \cup Job
    /\ NoFile # Torn

ASSUME NoneAssumption ==
    None \notin Texts \cup Names \cup Key \cup Credential \cup Job \cup Snapshot
                \cup {"start", "resume", "abort"}

VARIABLES
    files,    \* <name>.age in the store
    backup,   \* <name>.age under .rekey-backup
    journal,  \* .rekey-journal: NoFile, Torn or the job of a rekey
    marker,   \* the keyfile whose fingerprint .sympa-store records
    pc,       \* where the running rekey command is
    op,       \* which command that is
    job,      \* its parameters: oldKeyfile, newKeyfile, removing, secrets ...
    todo,     \* the secrets its current loop has still to visit
    half,     \* the secret whose file it has truncated and not yet filled
    entry,    \* mapping: the raw passphrase discovered for each secret
    fresh,    \* globalNewDerived
    meta,     \* the metadata it is about to write
    text,     \* history: the plaintext the user last saved under a name
    snap      \* history: the store when the journal was created

store  == <<files, backup, journal, marker>>
locals == <<op, job, todo, half, entry, fresh, meta>>
vars   == <<store, pc, locals, text, snap>>

----------------------------------------------------------------------------
\* The store between rekeys.

Init ==
    /\ files = [n \in Names |-> NoFile]
    /\ backup = [n \in Names |-> NoFile]
    /\ journal = NoFile
    /\ marker \in Credential
    /\ pc = "idle"
    /\ op = None /\ job = None /\ todo = {} /\ half = None
    /\ entry = None /\ fresh = None /\ meta = None
    /\ text = [n \in Names |-> None]
    /\ snap = None

\* Mutant: requireNoActiveRekey dropped from the commands that write.
NoActiveRekeyDropped == TRUE

\* requireNoActiveRekey looks for the journal file; it does not parse it.
NoActiveRekey == journal = NoFile

\* requireKeyfileConsistency: --keyfile is given exactly when the marker has
\* a fingerprint, and then it has that fingerprint.
KeyfileConsistent(cred) == cred = marker

\* filepath.Walk does not enter a directory whose name begins with a dot.
AllSecrets == {n \in Names \ Hidden : files[n] # NoFile}

\* insert, generate, edit and cp: encrypt a text and write it under a name.
Save(n) ==
    /\ pc = "idle" /\ NoActiveRekey
    /\ \E cred \in Credential, r \in Raws, t \in Texts :
         /\ KeyfileConsistent(cred)
         /\ files' = [files EXCEPT ![n] = [key |-> ApplyKeyfile(r, cred), text |-> t]]
         /\ text' = [text EXCEPT ![n] = t]
    /\ UNCHANGED <<backup, journal, marker, pc, locals, snap>>

\* The same, interrupted in Store.Write: the file is truncated, and what was
\* saved under the name before is gone.
TornSave(n) ==
    /\ pc = "idle" /\ NoActiveRekey
    /\ files' = [files EXCEPT ![n] = Torn]
    /\ text' = [text EXCEPT ![n] = None]
    /\ UNCHANGED <<backup, journal, marker, pc, locals, snap>>

\* rm.  "rm -r" removes its files one after the other.
Remove(n) ==
    /\ pc = "idle" /\ NoActiveRekey
    /\ files[n] # NoFile
    /\ files' = [files EXCEPT ![n] = NoFile]
    /\ text' = [text EXCEPT ![n] = None]
    /\ UNCHANGED <<backup, journal, marker, pc, locals, snap>>

\* mv: moves the ciphertext as it is.
Rename(n, m) ==
    /\ pc = "idle" /\ NoActiveRekey
    /\ n # m /\ files[n] # NoFile
    /\ files' = [files EXCEPT ![m] = files[n], ![n] = NoFile]
    /\ text' = [text EXCEPT ![m] = text[n], ![n] = None]
    /\ UNCHANGED <<backup, journal, marker, pc, locals, snap>>

----------------------------------------------------------------------------
\* Starting, resuming and aborting.

\* handleRekeyStart, up to its first cleanupRekey.
HandleRekeyStart ==
    /\ pc = "idle" /\ journal = NoFile
    /\ pc' = "purge" /\ op' = "start"
    /\ UNCHANGED <<store, job, todo, half, entry, fresh, meta, text, snap>>

\* handleRekeyResume, up to the discovery: the keyfiles it is given must have
\* the fingerprints of the journal.
HandleRekeyResume ==
    /\ pc = "idle" /\ journal \in Job
    /\ pc' = "discover" /\ op' = "resume" /\ job' = journal
    /\ UNCHANGED <<store, todo, half, entry, fresh, meta, text, snap>>

\* Mutant: an abort that wants the keyfile of the marker to be the old one.
HandleRekeyAbortConsistent ==
    /\ pc = "idle" /\ journal \in Job /\ marker = journal.old
    /\ pc' = "restore" /\ op' = "abort" /\ job' = journal
    /\ todo' = journal.secrets
    /\ UNCHANGED <<store, half, entry, fresh, meta, text, snap>>

\* handleRekeyAbort asks for nothing.
HandleRekeyAbort ==
    /\ pc = "idle" /\ journal \in Job
    /\ pc' = "restore" /\ op' = "abort" /\ job' = journal
    /\ todo' = journal.secrets
    /\ UNCHANGED <<store, half, entry, fresh, meta, text, snap>>

ValidFlags(new, removing, chpass) ==
    /\ new # NoKeyfile \/ removing \/ chpass
    /\ ~(removing /\ new # NoKeyfile)
    /\ removing => marker # NoKeyfile

\* Flags, keyfiles, current passphrase and list of secrets.  A store without
\* secrets goes straight to its metadata: no backup and no journal.
ReadInputs ==
    /\ pc = "prompt"
    /\ \E cred, new \in Credential, removing, chpass \in BOOLEAN :
         /\ ValidFlags(new, removing, chpass)
         /\ KeyfileConsistent(cred)
         /\ job' = [old |-> cred, new |-> new, chpass |-> chpass,
                    removing |-> removing, secrets |-> AllSecrets]
    /\ todo' = AllSecrets
    /\ pc' = IF AllSecrets = {} THEN "marker" ELSE "backup"
    /\ UNCHANGED <<store, op, half, entry, fresh, meta, text, snap>>

----------------------------------------------------------------------------
\* backupSecrets and writeRekeyJournal.

TruncateBackup(n) ==
    /\ pc = "backup" /\ half = None /\ n \in todo
    /\ backup' = [backup EXCEPT ![n] = Torn]
    /\ half' = n
    /\ UNCHANGED <<files, journal, marker, pc, op, job, todo, entry, fresh,
                   meta, text, snap>>

\* Mutant: a backup that is counted as written when it is only created.
FillBackupUnwritten(n) ==
    /\ pc = "backup" /\ half = n /\ n \in todo
    /\ half' = None
    /\ todo' = todo \ {n}
    /\ pc' = IF todo = {n} THEN "journal" ELSE "backup"
    /\ UNCHANGED <<files, backup, journal, marker, op, job, entry, fresh, meta,
                   text, snap>>

FillBackup(n) ==
    /\ pc = "backup" /\ half = n /\ n \in todo
    /\ backup' = [backup EXCEPT ![n] = files[n]]
    /\ half' = None
    /\ todo' = todo \ {n}
    /\ pc' = IF todo = {n} THEN "journal" ELSE "backup"
    /\ UNCHANGED <<files, journal, marker, op, job, entry, fresh, meta, text, snap>>

TruncateJournal ==
    /\ pc = "journal" /\ journal = NoFile
    /\ journal' = Torn
    /\ snap' = [files |-> files, marker |-> marker]
    /\ UNCHANGED <<files, backup, marker, pc, locals, text>>

FillJournal ==
    /\ pc = "journal" /\ journal = Torn
    /\ journal' = job
    /\ pc' = "discover"
    /\ UNCHANGED <<files, backup, marker, locals, text, snap>>

\* A backup or the journal could not be written: clean up and give up.
UndoStart ==
    /\ pc \in {"backup", "journal"}
    /\ pc' = "undo" /\ half' = None
    /\ UNCHANGED <<store, op, job, todo, entry, fresh, meta, text, snap>>

----------------------------------------------------------------------------
\* discoverPassphrases and rekeySecrets: from the backup, never from the store.

\* Raw passphrases that open every backup with the old keyfile.
Opens(found) ==
    \A n \in job.secrets :
        /\ backup[n] \in Ciphertext
        /\ backup[n].key = OldDerived(found[n], job.old)

\* Mutant: a backup that cannot be read or opened is passed over, and the
\* mapping has nothing for its secret.
DiscoverPassphrasesPassing ==
    /\ pc = "discover"
    /\ LET opened == {n \in job.secrets : backup[n] \in Ciphertext}
       IN \E found \in [opened -> Raws] :
             /\ \A n \in opened : backup[n].key = OldDerived(found[n], job.old)
             /\ entry' = found
    /\ todo' = job.secrets
    /\ pc' = IF job.chpass THEN "fresh" ELSE "rewrite"
    /\ UNCHANGED <<store, op, job, half, fresh, meta, text, snap>>

DiscoverPassphrases ==
    /\ pc = "discover"
    /\ \E found \in [job.secrets -> Raws] : Opens(found) /\ entry' = found
    /\ todo' = job.secrets
    /\ pc' = IF job.chpass THEN "fresh" ELSE "rewrite"
    /\ UNCHANGED <<store, op, job, half, fresh, meta, text, snap>>

\* With --passphrase, one key for every secret.  The code derives it from
\* newPassphraseEntry(newRaw, nil, newKeyfile, removing).
ReadNewPassphrase ==
    /\ pc = "fresh"
    /\ \E r \in Raws : fresh' = NewDerived(r, NoKeyfile, job.new, job.removing)
    /\ pc' = "rewrite"
    /\ UNCHANGED <<store, op, job, todo, half, entry, meta, text, snap>>

TruncateSecret(n) ==
    /\ pc = "rewrite" /\ half = None /\ n \in todo
    /\ files' = [files EXCEPT ![n] = Torn]
    /\ half' = n
    /\ UNCHANGED <<backup, journal, marker, pc, op, job, todo, entry, fresh,
                   meta, text, snap>>

\* Mutant: the new passphrase of --passphrase is asked for and not used.
NewKeyOfEntry(n) == NewDerived(entry[n], job.old, job.new, job.removing)

\* Mutant: the discovered passphrase is written back with the old keyfile.
NewKeyOld(n) ==
    IF fresh # None THEN fresh ELSE OldDerived(entry[n], job.old)

NewKey(n) ==
    IF fresh # None THEN fresh
    ELSE NewDerived(entry[n], job.old, job.new, job.removing)

FillSecret(n) ==
    /\ pc = "rewrite" /\ half = n /\ n \in todo
    /\ files' = [files EXCEPT ![n] = [key |-> NewKey(n), text |-> backup[n].text]]
    /\ half' = None
    /\ todo' = todo \ {n}
    /\ pc' = IF todo = {n} THEN "marker" ELSE "rewrite"
    /\ UNCHANGED <<backup, journal, marker, op, job, entry, fresh, meta, text, snap>>

----------------------------------------------------------------------------
\* restoreBackup.  A missing backup file ends it with an error.

TruncateRestored(n) ==
    /\ pc = "restore" /\ half = None /\ n \in todo
    /\ backup[n] # NoFile
    /\ files' = [files EXCEPT ![n] = Torn]
    /\ half' = n
    /\ UNCHANGED <<backup, journal, marker, pc, op, job, todo, entry, fresh,
                   meta, text, snap>>

FillRestored(n) ==
    /\ pc = "restore" /\ half = n /\ n \in todo
    /\ files' = [files EXCEPT ![n] = backup[n]]
    /\ half' = None
    /\ todo' = todo \ {n}
    /\ pc' = IF todo = {n} THEN "marker" ELSE "restore"
    /\ UNCHANGED <<backup, journal, marker, op, job, entry, fresh, meta, text, snap>>

----------------------------------------------------------------------------
\* WriteMetadata and cleanupRekey.

\* Mutant: --abort restores the secrets and leaves the marker as it finds it.
IntendedKeyfileNotRestored ==
    IF op = "abort" THEN marker
    ELSE IF job.new # NoKeyfile THEN job.new
    ELSE IF job.removing THEN NoKeyfile ELSE marker

\* The fingerprint the marker shall have.  Without a new keyfile and without
\* --remove it is the one just read from the marker.
IntendedKeyfile ==
    IF op = "abort" THEN job.old
    ELSE IF job.new # NoKeyfile THEN job.new
    ELSE IF job.removing THEN NoKeyfile
    ELSE marker

TruncateMarker ==
    /\ pc = "marker"
    /\ meta' = IntendedKeyfile
    /\ marker' = NoKeyfile
    /\ pc' = "stamp"
    /\ UNCHANGED <<files, backup, journal, op, job, todo, half, entry, fresh, text, snap>>

FillMarker ==
    /\ pc = "stamp"
    /\ marker' = meta
    /\ meta' = None
    /\ pc' = "cleanup"
    /\ UNCHANGED <<files, backup, journal, op, job, todo, half, entry, fresh, text, snap>>

Cleaning == {"purge", "undo", "cleanup"}

\* os.RemoveAll(.rekey-backup) removes the files of the backup one by one.
RemoveBackup(n) ==
    /\ pc \in Cleaning /\ backup[n] # NoFile
    /\ backup' = [backup EXCEPT ![n] = NoFile]
    /\ UNCHANGED <<files, journal, marker, pc, locals, text, snap>>

\* A command that ends takes its local variables with it.
Forget ==
    /\ op' = None /\ job' = None /\ todo' = {} /\ half' = None
    /\ entry' = None /\ fresh' = None /\ meta' = None

\* os.Remove(.rekey-journal).  It follows RemoveAll even when that failed.
\* The cleanup that begins a rekey goes on with the rekey, any other ends it.
RemoveJournal ==
    /\ pc \in Cleaning
    /\ journal' = NoFile /\ snap' = None
    /\ IF pc = "purge"
       THEN pc' = "prompt" /\ UNCHANGED locals
       ELSE pc' = "idle" /\ Forget
    /\ UNCHANGED <<files, backup, marker, text>>

----------------------------------------------------------------------------
\* The two errors that end a rekey whatever the user does: a backup that no
\* passphrase opens, and a backup that is not there to be restored.

DiscoverFails ==
    /\ pc = "discover"
    /\ ~ \E found \in [job.secrets -> Raws] : Opens(found)
    /\ pc' = "idle" /\ Forget
    /\ UNCHANGED <<store, text, snap>>

RestoreFails ==
    /\ pc = "restore" /\ half = None
    /\ \E n \in todo : backup[n] = NoFile
    /\ pc' = "idle" /\ Forget
    /\ UNCHANGED <<store, text, snap>>

\* Ctrl+C, the end of the machine, a failed read or write, a flag or an
\* answer that is refused: the command ends where it is.
Interrupt ==
    /\ pc # "idle"
    /\ pc' = "idle" /\ Forget
    /\ UNCHANGED <<store, text, snap>>

----------------------------------------------------------------------------

\* What a rekey command does once it has been started.
RekeyStep ==
    \/ ReadInputs
    \/ \E n \in Names : TruncateBackup(n) \/ FillBackup(n)
    \/ TruncateJournal \/ FillJournal
    \/ DiscoverPassphrases \/ ReadNewPassphrase
    \/ \E n \in Names : TruncateSecret(n) \/ FillSecret(n)
    \/ \E n \in Names : TruncateRestored(n) \/ FillRestored(n)
    \/ TruncateMarker \/ FillMarker
    \/ \E n \in Names : RemoveBackup(n)
    \/ RemoveJournal
    \/ DiscoverFails \/ RestoreFails

UserStep ==
    \/ \E n \in Names : Save(n) \/ TornSave(n) \/ Remove(n)
    \/ \E n, m \in Names : Rename(n, m)
    \/ HandleRekeyStart \/ HandleRekeyResume \/ HandleRekeyAbort

Next == RekeyStep \/ UserStep \/ UndoStart \/ Interrupt

Spec == Init /\ [][Next]_vars

\* A started command runs, and a user who finds a rekey pending tries --abort
\* again and again.
FairSpec == Spec /\ WF_vars(RekeyStep) /\ SF_vars(HandleRekeyAbort)

----------------------------------------------------------------------------
\* Properties.

Phases == {"idle", "purge", "prompt", "backup", "journal", "undo", "discover",
           "fresh", "rewrite", "restore", "marker", "stamp", "cleanup"}

\* Every variable has a value of its kind; a command has parameters from the
\* moment it has read them, and a mapping covers the secrets of its job.
TypeOK ==
    /\ files \in [Names -> SecretFile] /\ backup \in [Names -> SecretFile]
    /\ journal \in Job \cup {NoFile, Torn}
    /\ marker \in Credential
    /\ pc \in Phases
    /\ op \in {"start", "resume", "abort", None}
    /\ job \in Job \cup {None}
    /\ job = None <=> pc \in {"idle", "purge", "prompt"}
    /\ todo \subseteq Names /\ half \in Names \cup {None}
    /\ entry # None => job # None /\ entry \in [job.secrets -> Raws]
    /\ fresh \in Key \cup {None}
    /\ meta \in Credential \cup {None}
    /\ text \in [Names -> Texts \cup {None}]
    /\ snap \in Snapshot \cup {None}

\* f holds the text the user last saved under n, if there is one.
Holds(n, f) == text[n] # None => f \in Ciphertext /\ f.text = text[n]

\* At every moment, interrupted anywhere and any number of times, each text
\* the user saved is in the store under its name, or in a backup that a
\* readable journal lists (README, "All secrets are backed up before any
\* modifications").
NothingLost ==
    \A n \in Names :
        \/ Holds(n, files[n])
        \/ journal \in Job /\ n \in journal.secrets /\ Holds(n, backup[n])

\* The two requests after which the code leaves a store its own marker does
\* not open: a keyfile without content (it is recorded and never derived
\* with), and --passphrase on a store whose keyfile stays (the new key is
\* derived without it).
Unopenable(j) ==
    \/ j.new = EmptyKeyfile
    \/ j.new = NoKeyfile /\ ~j.removing /\ j.old # NoKeyfile

\* When a rekey, resumed or not, is about to forget its backup, every secret
\* it listed opens with the keyfile the marker now asks for.
RekeyedUnderMarker ==
    pc = "cleanup" /\ op \in {"start", "resume"} /\ ~Unopenable(job) =>
        \A n \in job.secrets : files[n] \in Ciphertext /\ files[n].key.kf = marker

\* At that moment every listed secret has either kept its own passphrase or,
\* with --passphrase, they all have the same one, whatever mixture of old and
\* new keys earlier interrupted attempts had left in the store.
PassphrasesAsAsked ==
    pc = "cleanup" /\ op \in {"start", "resume"} =>
        \A n, m \in job.secrets :
            IF job.chpass THEN files[n].key = files[m].key
                          ELSE files[n].key.raw = snap.files[n].key.raw

\* When --abort is about to forget the backup, secrets and marker are what
\* they were when the journal was written, byte for byte.
AbortRestores ==
    pc = "cleanup" /\ op = "abort" => files = snap.files /\ marker = snap.marker

\* A running rekey changes a secret only while the backup of what the journal
\* found in the store is complete for that secret.
BackedUpBefore ==
    \A n \in Names : pc # "idle" /\ files'[n] # files[n] =>
        /\ journal \in Job /\ n \in journal.secrets
        /\ backup[n] = snap.files[n] /\ backup'[n] = backup[n]

BackedUpFirst == [][BackedUpBefore]_vars

\* The rekey that can be interrupted anywhere implements the one that cannot:
\* while the journal exists, the store of the abstract rekey is the one the
\* journal was written for.
Atomic == INSTANCE AtomicRekey WITH
    secrets <- IF journal = NoFile THEN files ELSE snap.files,
    keyfile <- IF journal = NoFile THEN marker ELSE snap.marker,
    pending <- journal # NoFile

ImplementsAtomicRekey == Atomic!Spec

\* Once interruptions stop, a user who keeps trying --abort gets rid of every
\* pending rekey, unless an interruption had left a journal that cannot be read
\* or a backup from which files are missing: nothing else blocks the store.
BackupComplete ==
    journal \in Job /\ \A n \in journal.secrets : backup[n] # NoFile

RecoveryTerminates ==
    <>[][~Interrupt]_vars =>
        \/ []<>(journal = NoFile)
        \/ <>[](~BackupComplete /\ pc \notin Cleaning)

----------------------------------------------------------------------------
\* Expected of the rekey by its documents and comments, and not so.

\* README: "Rekey is interruption-safe. [...] If the process is interrupted
\* (Ctrl+C, power loss), use --resume to finish or --abort to roll back".  An
\* interruption leaves no journal that they cannot read, and no journal whose
\* backup is gone (writeRekeyJournal, cleanupRekey).
PendingRekeyRecoverable ==
    pc = "idle" => journal # Torn /\ (journal \in Job => BackupComplete)

OpenWithMarker(names) ==
    \A n \in names : files[n] \in Ciphertext => files[n].key.kf = marker

\* README: "Change passphrase (with or without keyfile)", rekey -k keyfile
\* --passphrase.  The secrets then open with the keyfile the marker records.
PassphraseChangeOpens ==
    pc = "cleanup" /\ op # "abort" /\ job.chpass /\ job.new = NoKeyfile
        => OpenWithMarker(job.secrets)

=============================================================================
