---------------------------- MODULE RekeyProofs ----------------------------
(***************************************************************************)
(* Proofs about Rekey, for any sets of secrets, passphrases, texts and     *)
(* keyfiles: that IInv is an inductive invariant, that the safety          *)
(* properties follow from it, and that a rekey that can be interrupted     *)
(* anywhere implements AtomicRekey.                                        *)
(*                                                                         *)
(* The steps have one lemma per action.  The three leaves of a lemma are   *)
(* the phase of the command (TypeOK, LocalsInv, JournalInv), what is on    *)
(* disk (SavedInv, BackupInv, PendingInv), and how far the command has     *)
(* come (LoopInv, DoneInv, MarkerInv).                                     *)
(***************************************************************************)
EXTENDS RekeyInvariant, TLAPS

----------------------------------------------------------------------------
\* Lemmas about a state that satisfies the invariant.

\* The key a secret is re-encrypted with is a key (newPassphraseEntry and the
\* choice of newDerived in rekeySecrets).
LEMMA NewKeyType ==
  ASSUME TypeOK, job \in Job, entry \in [job.secrets -> Raws],
         NEW n \in job.secrets
  PROVE  NewKey(n) \in Key
BY NoneAssumption DEF TypeOK, NewKey, NewDerived, Job, Key, Credential

\* When a command removes the backup of its own rekey, every text is in the
\* store: cleanupRekey comes after the last write of rekeySecrets or
\* restoreBackup, or before the first.
LEMMA EveryTextInStore ==
  ASSUME IInv, pc \in {"undo", "cleanup"}
  PROVE  \A n \in Names : Holds(n, files[n])
<1> SUFFICES ASSUME NEW n \in Names PROVE Holds(n, files[n])
  OBVIOUS
<1>1. CASE journal \in {NoFile, Torn}
  BY <1>1 DEF IInv, SavedInv, Holds
<1>2. CASE journal \in Job /\ journal = job /\ pc = "cleanup"
  <2>1. Holds(n, snap.files[n])
    BY <1>2, FileAssumption DEF IInv, SavedInv
  <2>2. CASE op = "abort"
    BY <1>2, <2>1, <2>2 DEF IInv, DoneInv
  <2>3. CASE op # "abort" /\ n \in job.secrets
    <3>1. Rewritten(n) /\ NewKey(n) \in Key
      BY <1>2, <2>3, NewKeyType DEF IInv, DoneInv
    <3>2. QED
      BY <2>1, <3>1 DEF Rewritten, Holds, Ciphertext
  <2>4. CASE n \notin job.secrets
    BY <1>2, <2>1, <2>4 DEF IInv, PendingInv
  <2>5. QED
    BY <2>2, <2>3, <2>4
<1>3. QED
  BY <1>1, <1>2 DEF IInv, JournalInv, TypeOK

----------------------------------------------------------------------------
\* The invariant holds initially, and every step preserves it.

LEMMA InitIInv == Init => IInv
BY FileAssumption, NoneAssumption DEF Init, IInv, TypeOK, LocalsInv, JournalInv,
   SavedInv, BackupInv, PendingInv, LoopInv, DoneInv, MarkerInv, Holds,
   SecretFile, Phases, Credential

LEMMA SaveStep ==
  ASSUME NEW n \in Names, IInv, Save(n)
  PROVE  IInv'
<1>1. TypeOK' /\ LocalsInv' /\ JournalInv'
  BY DEF IInv, Save, TypeOK, LocalsInv, JournalInv, locals, SecretFile,
     Ciphertext, Key, ApplyKeyfile
<1>2. SavedInv' /\ BackupInv' /\ PendingInv'
  BY FileAssumption DEF IInv, Save, TypeOK, SavedInv, BackupInv, PendingInv,
     Holds, NoActiveRekey, Ciphertext, Key, ApplyKeyfile
<1>3. LoopInv' /\ DoneInv' /\ MarkerInv'
  BY DEF IInv, Save, LoopInv, DoneInv, MarkerInv
<1>4. QED
  BY <1>1, <1>2, <1>3 DEF IInv

LEMMA TornSaveStep ==
  ASSUME NEW n \in Names, IInv, TornSave(n)
  PROVE  IInv'
<1>1. TypeOK' /\ LocalsInv' /\ JournalInv'
  BY DEF IInv, TornSave, TypeOK, LocalsInv, JournalInv, locals, SecretFile
<1>2. SavedInv' /\ BackupInv' /\ PendingInv'
  BY FileAssumption DEF IInv, TornSave, TypeOK, SavedInv, BackupInv,
     PendingInv, Holds, NoActiveRekey
<1>3. LoopInv' /\ DoneInv' /\ MarkerInv'
  BY DEF IInv, TornSave, LoopInv, DoneInv, MarkerInv
<1>4. QED
  BY <1>1, <1>2, <1>3 DEF IInv

LEMMA RemoveStep ==
  ASSUME NEW n \in Names, IInv, Remove(n)
  PROVE  IInv'
<1>1. TypeOK' /\ LocalsInv' /\ JournalInv'
  BY DEF IInv, Remove, TypeOK, LocalsInv, JournalInv, locals, SecretFile
<1>2. SavedInv' /\ BackupInv' /\ PendingInv'
  BY FileAssumption DEF IInv, Remove, TypeOK, SavedInv, BackupInv,
     PendingInv, Holds, NoActiveRekey
<1>3. LoopInv' /\ DoneInv' /\ MarkerInv'
  BY DEF IInv, Remove, LoopInv, DoneInv, MarkerInv
<1>4. QED
  BY <1>1, <1>2, <1>3 DEF IInv

LEMMA RenameStep ==
  ASSUME NEW n \in Names, NEW m \in Names, IInv, Rename(n, m)
  PROVE  IInv'
<1>1. TypeOK' /\ LocalsInv' /\ JournalInv'
  BY DEF IInv, Rename, TypeOK, LocalsInv, JournalInv, locals, SecretFile
<1>2. SavedInv' /\ BackupInv' /\ PendingInv'
  BY FileAssumption DEF IInv, Rename, TypeOK, SavedInv, BackupInv,
     PendingInv, Holds, NoActiveRekey
<1>3. LoopInv' /\ DoneInv' /\ MarkerInv'
  BY DEF IInv, Rename, LoopInv, DoneInv, MarkerInv
<1>4. QED
  BY <1>1, <1>2, <1>3 DEF IInv

LEMMA HandleRekeyStartStep ==
  ASSUME IInv, HandleRekeyStart
  PROVE  IInv'
<1>1. TypeOK' /\ LocalsInv' /\ JournalInv'
  BY NoneAssumption DEF IInv, HandleRekeyStart, TypeOK, LocalsInv,
     JournalInv, store, Phases
<1>2. SavedInv' /\ BackupInv' /\ PendingInv'
  BY DEF IInv, HandleRekeyStart, SavedInv, BackupInv, PendingInv, store,
     Holds
<1>3. LoopInv' /\ DoneInv' /\ MarkerInv'
  BY DEF IInv, HandleRekeyStart, LoopInv, DoneInv, MarkerInv, store
<1>4. QED
  BY <1>1, <1>2, <1>3 DEF IInv

LEMMA HandleRekeyResumeStep ==
  ASSUME IInv, HandleRekeyResume
  PROVE  IInv'
<1>1. TypeOK' /\ LocalsInv' /\ JournalInv'
  BY NoneAssumption DEF IInv, HandleRekeyResume, TypeOK, LocalsInv,
     JournalInv, store, Phases
<1>2. SavedInv' /\ BackupInv' /\ PendingInv'
  BY DEF IInv, HandleRekeyResume, SavedInv, BackupInv, PendingInv, store,
     Holds
<1>3. LoopInv' /\ DoneInv' /\ MarkerInv'
  BY DEF IInv, HandleRekeyResume, LoopInv, DoneInv, MarkerInv, store
<1>4. QED
  BY <1>1, <1>2, <1>3 DEF IInv

LEMMA HandleRekeyAbortStep ==
  ASSUME IInv, HandleRekeyAbort
  PROVE  IInv'
<1>1. TypeOK' /\ LocalsInv' /\ JournalInv'
  BY NoneAssumption DEF IInv, HandleRekeyAbort, TypeOK, LocalsInv,
     JournalInv, PendingInv, store, Phases
<1>2. SavedInv' /\ BackupInv' /\ PendingInv'
  BY DEF IInv, HandleRekeyAbort, SavedInv, BackupInv, PendingInv, store,
     Holds
<1>3. LoopInv' /\ DoneInv' /\ MarkerInv'
  BY DEF IInv, HandleRekeyAbort, LocalsInv, LoopInv, DoneInv, MarkerInv,
     store
<1>4. QED
  BY <1>1, <1>2, <1>3 DEF IInv

LEMMA ReadInputsStep ==
  ASSUME IInv, ReadInputs
  PROVE  IInv'
<1>1. TypeOK' /\ LocalsInv' /\ JournalInv'
  BY NoneAssumption DEF IInv, ReadInputs, TypeOK, LocalsInv, JournalInv,
     store, AllSecrets, Phases, Job
<1>2. SavedInv' /\ BackupInv' /\ PendingInv'
  BY DEF IInv, ReadInputs, SavedInv, BackupInv, PendingInv, store, Holds,
     AllSecrets, KeyfileConsistent
<1>3. LoopInv' /\ DoneInv' /\ MarkerInv'
  BY DEF IInv, ReadInputs, PendingInv, LoopInv, DoneInv, MarkerInv, store,
     Job
<1>4. QED
  BY <1>1, <1>2, <1>3 DEF IInv

LEMMA TruncateBackupStep ==
  ASSUME NEW n \in Names, IInv, TruncateBackup(n)
  PROVE  IInv'
<1>1. TypeOK' /\ LocalsInv' /\ JournalInv'
  BY DEF IInv, TruncateBackup, TypeOK, LocalsInv, JournalInv, SecretFile
<1>2. SavedInv' /\ BackupInv' /\ PendingInv'
  BY FileAssumption DEF IInv, TruncateBackup, JournalInv, SavedInv,
     BackupInv, PendingInv, Holds, AllSecrets
<1>3. LoopInv' /\ DoneInv' /\ MarkerInv'
  BY DEF IInv, TruncateBackup, LoopInv, DoneInv, MarkerInv
<1>4. QED
  BY <1>1, <1>2, <1>3 DEF IInv

LEMMA FillBackupStep ==
  ASSUME NEW n \in Names, IInv, FillBackup(n)
  PROVE  IInv'
<1>1. TypeOK' /\ LocalsInv' /\ JournalInv'
  BY DEF IInv, FillBackup, TypeOK, LocalsInv, JournalInv, Phases
<1>2. SavedInv' /\ BackupInv' /\ PendingInv'
  BY FileAssumption DEF IInv, FillBackup, TypeOK, JournalInv, SavedInv,
     BackupInv, PendingInv, Holds, AllSecrets
<1>3. LoopInv' /\ DoneInv' /\ MarkerInv'
  BY DEF IInv, FillBackup, LoopInv, DoneInv, MarkerInv
<1>4. QED
  BY <1>1, <1>2, <1>3 DEF IInv

LEMMA TruncateJournalStep ==
  ASSUME IInv, TruncateJournal
  PROVE  IInv'
<1>1. TypeOK' /\ LocalsInv' /\ JournalInv'
  BY NoneAssumption, FileAssumption DEF IInv, TruncateJournal, TypeOK,
     LocalsInv, JournalInv, locals, Snapshot
<1>2. SavedInv' /\ BackupInv' /\ PendingInv'
  BY FileAssumption DEF IInv, TruncateJournal, SavedInv, BackupInv,
     PendingInv, locals, Holds, AllSecrets
<1>3. LoopInv' /\ DoneInv' /\ MarkerInv'
  BY FileAssumption DEF IInv, TruncateJournal, LoopInv, DoneInv, MarkerInv
<1>4. QED
  BY <1>1, <1>2, <1>3 DEF IInv

LEMMA FillJournalStep ==
  ASSUME IInv, FillJournal
  PROVE  IInv'
<1>1. TypeOK' /\ LocalsInv' /\ JournalInv'
  BY FileAssumption DEF IInv, FillJournal, TypeOK, LocalsInv, JournalInv,
     locals, Phases
<1>2. SavedInv' /\ BackupInv' /\ PendingInv'
  BY DEF IInv, FillJournal, SavedInv, BackupInv, PendingInv, Holds,
     AllSecrets
<1>3. LoopInv' /\ DoneInv' /\ MarkerInv'
  BY DEF IInv, FillJournal, BackupInv, LoopInv, DoneInv, MarkerInv
<1>4. QED
  BY <1>1, <1>2, <1>3 DEF IInv

LEMMA UndoStartStep ==
  ASSUME IInv, UndoStart
  PROVE  IInv'
<1>1. TypeOK' /\ LocalsInv' /\ JournalInv'
  BY DEF IInv, UndoStart, TypeOK, LocalsInv, JournalInv, store, Phases
<1>2. SavedInv' /\ BackupInv' /\ PendingInv'
  BY DEF IInv, UndoStart, SavedInv, BackupInv, PendingInv, store, Holds
<1>3. LoopInv' /\ DoneInv' /\ MarkerInv'
  BY DEF IInv, UndoStart, LoopInv, DoneInv, MarkerInv, store
<1>4. QED
  BY <1>1, <1>2, <1>3 DEF IInv

LEMMA DiscoverPassphrasesStep ==
  ASSUME IInv, DiscoverPassphrases
  PROVE  IInv'
<1>1. TypeOK' /\ LocalsInv' /\ JournalInv'
  BY DEF IInv, DiscoverPassphrases, TypeOK, LocalsInv, JournalInv,
     PendingInv, store, Phases
<1>2. SavedInv' /\ BackupInv' /\ PendingInv'
  BY DEF IInv, DiscoverPassphrases, SavedInv, BackupInv, PendingInv, store,
     Holds
<1>3. LoopInv' /\ DoneInv' /\ MarkerInv'
  BY FileAssumption DEF IInv, DiscoverPassphrases, TypeOK, LocalsInv,
     JournalInv, PendingInv, LoopInv, DoneInv, MarkerInv, store, Opens
<1>4. QED
  BY <1>1, <1>2, <1>3 DEF IInv

LEMMA ReadNewPassphraseStep ==
  ASSUME IInv, ReadNewPassphrase
  PROVE  IInv'
<1>1. TypeOK' /\ LocalsInv' /\ JournalInv'
  BY NoneAssumption DEF IInv, ReadNewPassphrase, TypeOK, LocalsInv,
     JournalInv, store, Credential, Phases, Job, Key, NewDerived
<1>2. SavedInv' /\ BackupInv' /\ PendingInv'
  BY DEF IInv, ReadNewPassphrase, SavedInv, BackupInv, PendingInv, store,
     Holds
<1>3. LoopInv' /\ DoneInv' /\ MarkerInv'
  BY DEF IInv, ReadNewPassphrase, LocalsInv, LoopInv, DoneInv, MarkerInv,
     store
<1>4. QED
  BY <1>1, <1>2, <1>3 DEF IInv

LEMMA TruncateSecretStep ==
  ASSUME NEW n \in Names, IInv, TruncateSecret(n)
  PROVE  IInv'
<1>1. TypeOK' /\ LocalsInv' /\ JournalInv'
  BY DEF IInv, TruncateSecret, TypeOK, LocalsInv, JournalInv, SecretFile
<1>2. SavedInv' /\ BackupInv' /\ PendingInv'
  BY FileAssumption DEF IInv, TruncateSecret, TypeOK, LocalsInv, JournalInv,
     SavedInv, BackupInv, PendingInv, LoopInv, Holds
<1>3. LoopInv' /\ DoneInv' /\ MarkerInv'
  BY DEF IInv, TruncateSecret, TypeOK, LocalsInv, LoopInv, DoneInv,
     MarkerInv, Rewritten, NewKey
<1>4. QED
  BY <1>1, <1>2, <1>3 DEF IInv

LEMMA FillSecretStep ==
  ASSUME NEW n \in Names, IInv, FillSecret(n)
  PROVE  IInv'
<1>1. /\ journal = job /\ job \in Job /\ n \in job.secrets
      /\ op \in {"start", "resume"}
      /\ files' \in [Names -> SecretFile]
  BY NewKeyType DEF IInv, FillSecret, TypeOK, LocalsInv, JournalInv, LoopInv,
     SecretFile, Ciphertext
<1>2. \A m \in job.secrets \ (todo \ {n}) : Rewritten(m)'
  BY <1>1 DEF IInv, FillSecret, LoopInv, Rewritten, NewKey, TypeOK
<1>3. TypeOK' /\ LocalsInv' /\ JournalInv'
  BY DEF IInv, FillSecret, TypeOK, LocalsInv, JournalInv, LoopInv,
     SecretFile, Credential, NewKey, Phases, Ciphertext, Job, Key,
     NewDerived
<1>4. SavedInv' /\ BackupInv' /\ PendingInv'
  BY FileAssumption DEF IInv, FillSecret, TypeOK, LocalsInv, JournalInv,
     SavedInv, BackupInv, PendingInv, LoopInv, Holds
<1>5. LoopInv'
  BY <1>1, <1>2 DEF IInv, FillSecret, LoopInv, LocalsInv, Job
<1>6. DoneInv'
  BY <1>1, <1>2 DEF IInv, FillSecret, DoneInv, LocalsInv
<1>7. MarkerInv'
  BY <1>1 DEF IInv, FillSecret, MarkerInv, IntendedBy
<1>8. QED
  BY <1>3, <1>4, <1>5, <1>6, <1>7 DEF IInv

LEMMA TruncateRestoredStep ==
  ASSUME NEW n \in Names, IInv, TruncateRestored(n)
  PROVE  IInv'
<1>1. TypeOK' /\ LocalsInv' /\ JournalInv'
  BY DEF IInv, TruncateRestored, TypeOK, LocalsInv, JournalInv, SecretFile
<1>2. SavedInv' /\ BackupInv' /\ PendingInv'
  BY FileAssumption DEF IInv, TruncateRestored, TypeOK, LocalsInv,
     JournalInv, SavedInv, BackupInv, PendingInv, Holds
<1>3. LoopInv' /\ DoneInv' /\ MarkerInv'
  BY DEF IInv, TruncateRestored, TypeOK, LocalsInv, JournalInv, PendingInv,
     LoopInv, DoneInv, MarkerInv
<1>4. QED
  BY <1>1, <1>2, <1>3 DEF IInv

LEMMA FillRestoredStep ==
  ASSUME NEW n \in Names, IInv, FillRestored(n)
  PROVE  IInv'
<1>1. LoopInv' /\ MarkerInv'
  BY NoneAssumption, FileAssumption DEF IInv, FillRestored, TypeOK, LocalsInv,
     JournalInv, PendingInv, LoopInv, MarkerInv, IntendedBy
<1>2. DoneInv'
  <2>1. SUFFICES ASSUME todo = {n} PROVE files' = snap.files
    BY DEF IInv, FillRestored, DoneInv, LocalsInv
  <2>2. journal = job /\ job \in Job /\ snap \in Snapshot
    BY FileAssumption, NoneAssumption DEF IInv, TypeOK, FillRestored,
       JournalInv, LocalsInv
  <2>3. \A m \in Names : files'[m] = snap.files[m]
    <3> TAKE m \in Names
    <3>1. CASE m = n
      BY <3>1, NoneAssumption DEF IInv, FillRestored, TypeOK, LoopInv
    <3>2. CASE m \notin job.secrets
      BY <3>2, <2>2 DEF IInv, FillRestored, TypeOK, LocalsInv, PendingInv
    <3>3. CASE m \in job.secrets \ {n}
      BY <3>3, <2>1, <2>2 DEF IInv, FillRestored, TypeOK, LoopInv
    <3>4. QED
      BY <3>1, <3>2, <3>3
  <2>4. files' \in [Names -> SecretFile] /\ snap.files \in [Names -> SecretFile]
    BY <2>2 DEF IInv, FillRestored, TypeOK, Snapshot
  <2>5. QED
    BY <2>3, <2>4
<1>3. TypeOK' /\ LocalsInv' /\ JournalInv'
  BY DEF IInv, FillRestored, TypeOK, LocalsInv, JournalInv, Phases
<1>4. SavedInv' /\ BackupInv' /\ PendingInv'
  BY NoneAssumption, FileAssumption DEF IInv, FillRestored, TypeOK,
     JournalInv, SavedInv, BackupInv, PendingInv, LoopInv, Holds
<1>5. QED
  BY <1>1, <1>2, <1>3, <1>4 DEF IInv

LEMMA TruncateMarkerStep ==
  ASSUME IInv, TruncateMarker
  PROVE  IInv'
<1>1. TypeOK' /\ LocalsInv' /\ JournalInv'
  BY NoneAssumption DEF IInv, TruncateMarker, TypeOK, LocalsInv, JournalInv,
     Credential, AllSecrets, IntendedKeyfile, Phases, Job
<1>2. SavedInv' /\ BackupInv' /\ PendingInv'
  BY FileAssumption DEF IInv, TruncateMarker, TypeOK, JournalInv, SavedInv,
     BackupInv, PendingInv, Holds
<1>3. LoopInv' /\ DoneInv' /\ MarkerInv'
  BY FileAssumption DEF IInv, TruncateMarker, JournalInv, LoopInv, DoneInv,
     MarkerInv, Rewritten, NewKey, IntendedBy, IntendedKeyfile
<1>4. QED
  BY <1>1, <1>2, <1>3 DEF IInv

LEMMA FillMarkerStep ==
  ASSUME IInv, FillMarker
  PROVE  IInv'
<1>1. TypeOK' /\ LocalsInv' /\ JournalInv'
  BY DEF IInv, FillMarker, TypeOK, LocalsInv, JournalInv, AllSecrets, Phases
<1>2. SavedInv' /\ BackupInv' /\ PendingInv'
  BY FileAssumption DEF IInv, FillMarker, TypeOK, JournalInv, SavedInv,
     BackupInv, PendingInv, Holds
<1>3. LoopInv' /\ DoneInv' /\ MarkerInv'
  BY DEF IInv, FillMarker, LoopInv, DoneInv, MarkerInv, Rewritten, NewKey,
     IntendedBy
<1>4. QED
  BY <1>1, <1>2, <1>3 DEF IInv

LEMMA RemoveBackupStep ==
  ASSUME NEW n \in Names, IInv, RemoveBackup(n)
  PROVE  IInv'
<1>1. SavedInv' /\ BackupInv'
  BY DEF IInv, RemoveBackup, SavedInv, BackupInv, Holds, locals, Cleaning, AllSecrets
<1>2. PendingInv'
  <2>1. CASE pc = "purge"
    BY <2>1, FileAssumption DEF IInv, RemoveBackup, JournalInv, PendingInv
  <2>2. CASE pc \in {"undo", "cleanup"}
    <3>1. \A m \in Names : Holds(m, files[m])
      BY <2>2, EveryTextInStore
    <3>2. QED
      BY <3>1 DEF IInv, RemoveBackup, TypeOK, PendingInv, Holds
  <2>3. QED
    BY <2>1, <2>2 DEF RemoveBackup, Cleaning
<1>3. TypeOK' /\ LocalsInv' /\ JournalInv'
  BY DEF IInv, RemoveBackup, TypeOK, LocalsInv, JournalInv, locals,
     SecretFile, AllSecrets
<1>4. LoopInv' /\ DoneInv' /\ MarkerInv'
  BY DEF IInv, RemoveBackup, LoopInv, DoneInv, MarkerInv, locals, Rewritten,
     NewKey, IntendedBy, Cleaning
<1>5. QED
  BY <1>1, <1>2, <1>3, <1>4 DEF IInv

LEMMA RemoveJournalStep ==
  ASSUME IInv, RemoveJournal
  PROVE  IInv'
<1>1. SavedInv'
  <2>1. \A n \in Names : Holds(n, files[n])
    BY EveryTextInStore, FileAssumption DEF IInv, RemoveJournal, Cleaning,
       JournalInv, SavedInv
  <2>2. QED
    BY <2>1, FileAssumption DEF RemoveJournal, SavedInv, Holds
<1>2. BackupInv' /\ PendingInv'
  BY FileAssumption DEF IInv, BackupInv, PendingInv, RemoveJournal
<1>3. TypeOK' /\ LocalsInv' /\ JournalInv'
  BY DEF IInv, RemoveJournal, TypeOK, LocalsInv, JournalInv, locals, Forget,
     Phases
<1>4. LoopInv' /\ DoneInv' /\ MarkerInv'
  BY FileAssumption DEF IInv, RemoveJournal, LoopInv, DoneInv, MarkerInv
<1>5. QED
  BY <1>1, <1>2, <1>3, <1>4 DEF IInv

LEMMA DiscoverFailsStep ==
  ASSUME IInv, DiscoverFails
  PROVE  IInv'
<1>1. TypeOK' /\ LocalsInv' /\ JournalInv'
  BY DEF IInv, DiscoverFails, TypeOK, LocalsInv, JournalInv, store, Forget,
     Phases
<1>2. SavedInv' /\ BackupInv' /\ PendingInv'
  BY DEF IInv, DiscoverFails, SavedInv, BackupInv, PendingInv, store, Holds
<1>3. LoopInv' /\ DoneInv' /\ MarkerInv'
  BY DEF IInv, DiscoverFails, LoopInv, DoneInv, MarkerInv, store
<1>4. QED
  BY <1>1, <1>2, <1>3 DEF IInv

LEMMA RestoreFailsStep ==
  ASSUME IInv, RestoreFails
  PROVE  IInv'
<1>1. TypeOK' /\ LocalsInv' /\ JournalInv'
  BY DEF IInv, RestoreFails, TypeOK, LocalsInv, JournalInv, store, Forget,
     Phases
<1>2. SavedInv' /\ BackupInv' /\ PendingInv'
  BY DEF IInv, RestoreFails, SavedInv, BackupInv, PendingInv, store, Holds
<1>3. LoopInv' /\ DoneInv' /\ MarkerInv'
  BY DEF IInv, RestoreFails, LoopInv, DoneInv, MarkerInv, store
<1>4. QED
  BY <1>1, <1>2, <1>3 DEF IInv

LEMMA InterruptStep ==
  ASSUME IInv, Interrupt
  PROVE  IInv'
<1>1. TypeOK' /\ LocalsInv' /\ JournalInv'
  BY DEF IInv, Interrupt, TypeOK, LocalsInv, JournalInv, store, Forget,
     Phases
<1>2. SavedInv' /\ BackupInv' /\ PendingInv'
  BY DEF IInv, Interrupt, SavedInv, BackupInv, PendingInv, store, Holds
<1>3. LoopInv' /\ DoneInv' /\ MarkerInv'
  BY DEF IInv, Interrupt, LoopInv, DoneInv, MarkerInv, store
<1>4. QED
  BY <1>1, <1>2, <1>3 DEF IInv

LEMMA NextIInv == IInv /\ [Next]_vars => IInv'
<1> SUFFICES ASSUME IInv, [Next]_vars PROVE IInv'
  OBVIOUS
<1>1. ASSUME RekeyStep PROVE IInv'
  <2>1. ASSUME NEW n \in Names, TruncateBackup(n) \/ FillBackup(n) PROVE IInv'
    BY <2>1, TruncateBackupStep, FillBackupStep
  <2>2. ASSUME NEW n \in Names, TruncateSecret(n) \/ FillSecret(n) PROVE IInv'
    BY <2>2, TruncateSecretStep, FillSecretStep
  <2>3. ASSUME NEW n \in Names, TruncateRestored(n) \/ FillRestored(n) PROVE IInv'
    BY <2>3, TruncateRestoredStep, FillRestoredStep
  <2>4. ASSUME NEW n \in Names, RemoveBackup(n) PROVE IInv'
    BY <2>4, RemoveBackupStep
  <2>5. CASE ReadInputs \/ TruncateJournal \/ FillJournal
    BY <2>5, ReadInputsStep, TruncateJournalStep, FillJournalStep
  <2>6. CASE DiscoverPassphrases \/ ReadNewPassphrase \/ DiscoverFails \/ RestoreFails
    BY <2>6, DiscoverPassphrasesStep, ReadNewPassphraseStep, DiscoverFailsStep,
       RestoreFailsStep
  <2>7. CASE TruncateMarker \/ FillMarker \/ RemoveJournal
    BY <2>7, TruncateMarkerStep, FillMarkerStep, RemoveJournalStep
  <2>8. QED
    BY <1>1, <2>1, <2>2, <2>3, <2>4, <2>5, <2>6, <2>7 DEF RekeyStep
<1>2. ASSUME UserStep PROVE IInv'
  <2>1. ASSUME NEW n \in Names, Save(n) \/ TornSave(n) \/ Remove(n) PROVE IInv'
    BY <2>1, SaveStep, TornSaveStep, RemoveStep
  <2>2. ASSUME NEW n \in Names, NEW m \in Names, Rename(n, m) PROVE IInv'
    BY <2>2, RenameStep
  <2>3. CASE HandleRekeyStart \/ HandleRekeyResume \/ HandleRekeyAbort
    BY <2>3, HandleRekeyStartStep, HandleRekeyResumeStep, HandleRekeyAbortStep
  <2>4. QED
    BY <1>2, <2>1, <2>2, <2>3 DEF UserStep
<1>3. CASE UndoStart \/ Interrupt
  BY <1>3, UndoStartStep, InterruptStep
<1>4. CASE UNCHANGED vars
  BY <1>4 DEF vars, store, locals, IInv, TypeOK, LocalsInv, JournalInv, SavedInv,
     BackupInv, PendingInv, LoopInv, DoneInv, MarkerInv, Holds, AllSecrets,
     Rewritten, NewKey, IntendedBy
<1>5. QED
  BY <1>1, <1>2, <1>3, <1>4 DEF Next

\* The state of the store and of a rekey always satisfy the invariant.
THEOREM Invariance == Spec => []IInv
BY InitIInv, NextIInv, PTL DEF Spec

----------------------------------------------------------------------------
\* The safety properties.

\* Every variable of the model keeps its type, whatever is interrupted.
THEOREM TypeCorrect == Spec => []TypeOK
<1>1. IInv => TypeOK
  BY DEF IInv
<1>2. QED
  BY <1>1, Invariance, PTL

\* No interruption of a rekey, a resume or an abort loses a text: it is in the
\* store or in a backup listed by a journal that can be read.
THEOREM NothingIsLost == Spec => []NothingLost
<1>1. IInv => NothingLost
  <2> SUFFICES ASSUME IInv, NEW n \in Names
               PROVE  \/ Holds(n, files[n])
                      \/ journal \in Job /\ n \in journal.secrets /\ Holds(n, backup[n])
    BY DEF NothingLost
  <2>1. CASE journal \in {NoFile, Torn}
    BY <2>1, FileAssumption DEF IInv, SavedInv, Holds
  <2>2. CASE journal \in Job
    BY <2>2, FileAssumption DEF IInv, SavedInv, PendingInv, Holds
  <2>3. QED
    BY <2>1, <2>2 DEF IInv, TypeOK
<1>2. QED
  BY <1>1, Invariance, PTL

\* A rekey that was not asked for one of the two unopenable requests leaves
\* its secrets under the keyfile its marker records.
THEOREM SecretsFollowMarker == Spec => []RekeyedUnderMarker
<1>1. IInv => RekeyedUnderMarker
  <2> SUFFICES ASSUME IInv, pc = "cleanup", op \in {"start", "resume"},
                      ~Unopenable(job), NEW n \in job.secrets
               PROVE  files[n] \in Ciphertext /\ files[n].key.kf = marker
    BY DEF RekeyedUnderMarker
  <2>1. journal = job /\ job \in Job
    BY DEF IInv, JournalInv, TypeOK
  <2>2. Rewritten(n) /\ entry \in [job.secrets -> Raws] /\ (job.chpass <=> fresh # None)
    BY <2>1 DEF IInv, DoneInv
  <2>3. NewKey(n) \in Key
    BY <2>1, <2>2, NewKeyType DEF IInv
  <2>4. files[n] \in Ciphertext /\ files[n].key = NewKey(n)
    BY <2>2, <2>3 DEF Rewritten, Ciphertext
  <2>5. fresh # None => fresh = NewDerived(fresh.raw, NoKeyfile, job.new, job.removing)
    BY DEF IInv, LocalsInv
  <2>6. NewKey(n).kf = marker
    BY <2>1, <2>5 DEF IInv, MarkerInv, IntendedBy, Unopenable, NewKey, NewDerived,
       HasBytes, TypeOK, Job
  <2>7. QED
    BY <2>4, <2>6
<1>2. QED
  BY <1>1, Invariance, PTL

\* A rekey keeps the passphrase of each secret, or gives all the new one.
THEOREM PassphrasesFollowRequest == Spec => []PassphrasesAsAsked
<1>1. IInv => PassphrasesAsAsked
  <2> SUFFICES ASSUME IInv, pc = "cleanup", op \in {"start", "resume"},
                      NEW n \in job.secrets, NEW m \in job.secrets
               PROVE  IF job.chpass THEN files[n].key = files[m].key
                      ELSE files[n].key.raw = snap.files[n].key.raw
    BY DEF PassphrasesAsAsked
  <2>1. journal = job /\ job \in Job
    BY DEF IInv, JournalInv, TypeOK
  <2>2. Rewritten(n) /\ Rewritten(m) /\ (job.chpass <=> fresh # None)
    BY <2>1 DEF IInv, DoneInv
  <2>3. QED
    BY <2>2 DEF Rewritten, NewKey, NewDerived, OldDerived
<1>2. QED
  BY <1>1, Invariance, PTL

\* An abort leaves the secrets and the marker the rekey found.
THEOREM AbortRestoresStore == Spec => []AbortRestores
<1>1. IInv => AbortRestores
  <2> SUFFICES ASSUME IInv, pc = "cleanup", op = "abort"
               PROVE  files = snap.files /\ marker = snap.marker
    BY DEF AbortRestores
  <2>1. journal = job /\ job \in Job
    BY DEF IInv, JournalInv, TypeOK
  <2>2. QED
    BY <2>1 DEF IInv, DoneInv, MarkerInv, IntendedBy, PendingInv
<1>2. QED
  BY <1>1, Invariance, PTL

\* A rekey touches no secret before its backup is complete, and never while
\* the backup changes.
THEOREM BackupComesFirst == Spec => BackedUpFirst
<1>1. IInv /\ [Next]_vars => [BackedUpBefore]_vars
  <2> SUFFICES ASSUME IInv, Next, NEW n \in Names, pc # "idle", files'[n] # files[n]
               PROVE  /\ journal \in Job /\ n \in journal.secrets
                      /\ backup[n] = snap.files[n] /\ backup'[n] = backup[n]
    BY DEF BackedUpBefore
  <2>1. \/ \E m \in Names : TruncateSecret(m) \/ FillSecret(m)
        \/ \E m \in Names : TruncateRestored(m) \/ FillRestored(m)
    <3>1. files' # files
      OBVIOUS
    <3>2. ~UserStep /\ ~UndoStart /\ ~Interrupt
      BY <3>1 DEF UserStep, Save, TornSave, Remove, Rename, HandleRekeyStart,
         HandleRekeyResume, HandleRekeyAbort, UndoStart, Interrupt, store
    <3>3. QED
      BY <3>1, <3>2 DEF Next, RekeyStep, ReadInputs, TruncateBackup, FillBackup,
         TruncateJournal, FillJournal, DiscoverPassphrases, ReadNewPassphrase,
         TruncateMarker, FillMarker, RemoveBackup, RemoveJournal, DiscoverFails,
         RestoreFails, store
  <2>2. journal = job /\ job \in Job /\ todo \subseteq job.secrets
    BY <2>1, NoneAssumption DEF IInv, TypeOK, LocalsInv, JournalInv, TruncateSecret,
       FillSecret, TruncateRestored, FillRestored
  <2>3. ASSUME NEW m \in Names, TruncateSecret(m) \/ FillSecret(m)
        PROVE  m = n /\ m \in todo /\ backup[m] = snap.files[m] /\ backup' = backup
    BY <2>2, <2>3, NoneAssumption DEF IInv, TypeOK, LoopInv, TruncateSecret, FillSecret
  <2>4. ASSUME NEW m \in Names, TruncateRestored(m) \/ FillRestored(m)
        PROVE  m = n /\ m \in todo /\ backup[m] = snap.files[m] /\ backup' = backup
    BY <2>2, <2>4, NoneAssumption DEF IInv, TypeOK, LoopInv, PendingInv,
       TruncateRestored, FillRestored
  <2>5. QED
    BY <2>1, <2>2, <2>3, <2>4
<1>2. QED
  BY <1>1, Invariance, PTL DEF Spec, BackedUpFirst

----------------------------------------------------------------------------
\* Rekey implements AtomicRekey under the mapping of Rekey: the journal comes
\* into being in Begin and goes in Commit or Rollback, and every other step of a
\* rekey of a store with secrets is a stutter.


\* What the mapping depends on: the steps that leave it alone are stutters.
LEMMA Stutter ==
  ASSUME \/ UNCHANGED <<files, marker, journal, snap>>
         \/ /\ journal # NoFile /\ journal' # NoFile
            /\ UNCHANGED snap
  PROVE  UNCHANGED Atomic!vars
BY DEF Atomic!vars

\* The commands that change the store between rekeys.
LEMMA ChangeStep ==
  ASSUME IInv, NEW n \in Names,
         \/ Save(n) \/ TornSave(n) \/ Remove(n)
         \/ \E m \in Names : Rename(n, m)
  PROVE  Atomic!Change
<1>1. journal = NoFile /\ UNCHANGED <<journal, marker>>
  BY DEF Save, TornSave, Remove, Rename, NoActiveRekey
<1>2. \/ \E r \in Raws, t \in Texts :
           files' = [files EXCEPT ![n] = [key |-> ApplyKeyfile(r, marker), text |-> t]]
      \/ \E f \in {NoFile, Torn} : files' = [files EXCEPT ![n] = f]
      \/ \E m \in Names : files' = [files EXCEPT ![m] = files[n], ![n] = NoFile]
  BY DEF Save, TornSave, Remove, Rename, KeyfileConsistent
<1>3. QED
  BY <1>1, <1>2 DEF Atomic!Change, ApplyKeyfile, Atomic!ApplyKeyfile

\* The journal is created: a rekey has begun.
LEMMA BeginStep ==
  ASSUME IInv, TruncateJournal
  PROVE  Atomic!Begin
<1>1. journal = NoFile /\ journal' = Torn /\ snap' = [files |-> files, marker |-> marker]
  BY DEF TruncateJournal
<1>2. AllSecrets # {}
  BY DEF IInv, BackupInv, TruncateJournal
<1>3. QED
  BY <1>1, <1>2, FileAssumption DEF Atomic!Begin, Atomic!Visible, AllSecrets

\* The journal is removed after the secrets have been re-encrypted.
LEMMA CommitStep ==
  ASSUME IInv, RemoveJournal, pc = "cleanup", journal \in Job, op # "abort"
  PROVE  Atomic!Commit
<1>1. /\ journal = job /\ job \in Job /\ journal # NoFile /\ journal' = NoFile
      /\ files' = files /\ marker' = marker /\ marker \in Credential
      /\ files \in [Names -> SecretFile]
  BY FileAssumption DEF IInv, TypeOK, JournalInv, RemoveJournal
<1>2. /\ entry \in [job.secrets -> Raws]
      /\ job.chpass <=> fresh # None
      /\ \A n \in job.secrets : Rewritten(n)
  BY <1>1 DEF IInv, DoneInv
<1>3. /\ job.secrets = {n \in Names \ Hidden : snap.files[n] # NoFile}
      /\ job.secrets # {}
      /\ \A n \in Names \ job.secrets : files[n] = snap.files[n]
  BY <1>1 DEF IInv, PendingInv
<1>4. \E kf \in Credential, change \in BOOLEAN, r \in Raws :
        \A n \in job.secrets :
          files[n] = [key  |-> [raw |-> IF change THEN r ELSE snap.files[n].key.raw,
                                kf  |-> kf],
                      text |-> snap.files[n].text]
  <2>1. PICK m \in job.secrets : TRUE
    BY <1>3
  <2>2. NewKey(m) \in Key
    BY <1>1, <1>2, NewKeyType DEF IInv
  <2>3. NewKey(m).kf \in Credential /\ NewKey(m).raw \in Raws
    BY <2>2 DEF Key
  <2>4. CASE job.chpass
    <3>1. \A n \in job.secrets : NewKey(n) = [raw |-> NewKey(m).raw, kf |-> NewKey(m).kf]
      BY <1>2, <2>2, <2>4 DEF NewKey, Key
    <3>2. \A n \in job.secrets :
            files[n] = [key  |-> [raw |-> IF TRUE THEN NewKey(m).raw
                                          ELSE snap.files[n].key.raw,
                                  kf  |-> NewKey(m).kf],
                        text |-> snap.files[n].text]
      BY <1>2, <3>1 DEF Rewritten
    <3>3. QED
      BY <2>3, <3>2
  <2>5. CASE ~job.chpass
    <3>1. \A n \in job.secrets :
            NewKey(n) = [raw |-> snap.files[n].key.raw, kf |-> NewKey(m).kf]
      <4>1. \A n \in job.secrets : snap.files[n].key.raw = entry[n]
        <5>1. \A n \in job.secrets : snap.files[n].key = OldDerived(entry[n], job.old)
          BY <1>2 DEF Rewritten
        <5>2. \A raw : OldDerived(raw, job.old).raw = raw
          BY DEF OldDerived
        <5>3. QED
          BY <5>1, <5>2
      <4>2. \A n \in job.secrets :
              NewKey(n) = NewDerived(entry[n], job.old, job.new, job.removing)
        BY <1>2, <2>5 DEF NewKey
      <4>3. QED
        BY <4>1, <4>2 DEF NewDerived
    <3>2. \A n \in job.secrets :
            files[n] = [key  |-> [raw |-> IF FALSE THEN NewKey(m).raw
                                          ELSE snap.files[n].key.raw,
                                  kf  |-> NewKey(m).kf],
                        text |-> snap.files[n].text]
      BY <1>2, <3>1 DEF Rewritten
    <3>3. QED
      BY <2>3, <3>2
  <2>6. QED
    BY <2>4, <2>5
<1>5. PICK kf \in Credential, change \in BOOLEAN, r \in Raws :
        \A n \in job.secrets :
          files[n] = [key  |-> [raw |-> IF change THEN r ELSE snap.files[n].key.raw,
                                kf  |-> kf],
                      text |-> snap.files[n].text]
  BY <1>4
<1>6. files = [n \in Names |->
                 IF n \notin job.secrets THEN snap.files[n]
                 ELSE [key  |-> [raw |-> IF change THEN r ELSE snap.files[n].key.raw,
                                 kf  |-> kf],
                       text |-> snap.files[n].text]]
  BY <1>1, <1>3, <1>5
<1>7. Atomic!Visible = job.secrets
  BY <1>1, <1>3 DEF Atomic!Visible
<1>8. \A n \in job.secrets : snap.files[n] # Torn
  BY <1>2, FileAssumption DEF Rewritten
<1>9. QED
  BY <1>1, <1>5, <1>6, <1>7, <1>8 DEF Atomic!Commit, Credential, Atomic!Credential

\* The journal is removed after an abort, or was never finished.
LEMMA RollbackStep ==
  ASSUME IInv, RemoveJournal,
         journal = Torn \/ (pc = "cleanup" /\ journal \in Job /\ op = "abort")
  PROVE  Atomic!Rollback
<1>1. files = snap.files /\ marker = snap.marker /\ journal # NoFile
  <2>1. CASE journal = Torn
    BY <2>1, FileAssumption DEF IInv, SavedInv
  <2>2. CASE pc = "cleanup" /\ journal \in Job /\ op = "abort"
    <3>1. journal = job
      BY <2>2, FileAssumption DEF IInv, JournalInv
    <3>2. QED
      BY <2>2, <3>1, FileAssumption DEF IInv, DoneInv, MarkerInv, IntendedBy, PendingInv
  <2>3. QED
    BY <2>1, <2>2
<1>2. QED
  BY <1>1 DEF RemoveJournal, Atomic!Rollback

LEMMA RemoveJournalRefines ==
  ASSUME IInv, RemoveJournal
  PROVE  [Atomic!Next]_(Atomic!vars)
<1>1. CASE journal = NoFile
  BY <1>1 DEF RemoveJournal, Atomic!vars
<1>2. CASE journal = Torn
  BY <1>2, RollbackStep DEF Atomic!Next
<1>3. CASE journal \in Job
  <2>1. pc = "cleanup"
    BY <1>3, FileAssumption DEF IInv, JournalInv, RemoveJournal, Cleaning
  <2>2. QED
    BY <1>3, <2>1, RollbackStep, CommitStep DEF Atomic!Next
<1>4. QED
  BY <1>1, <1>2, <1>3 DEF IInv, TypeOK

\* The marker is written: nothing to see while there is a journal; without
\* one there are no visible secrets.
LEMMA MarkerRefines ==
  ASSUME IInv, IInv', TruncateMarker \/ FillMarker
  PROVE  [Atomic!Next]_(Atomic!vars)
<1>1. UNCHANGED <<files, journal, snap>> /\ marker' \in Credential
  BY DEF IInv, TypeOK, TruncateMarker, FillMarker
<1>2. CASE journal # NoFile
  BY <1>1, <1>2 DEF Atomic!vars
<1>3. CASE journal = NoFile
  <2>1. AllSecrets = {}
    BY <1>3, FileAssumption DEF IInv, TypeOK, JournalInv, TruncateMarker, FillMarker
  <2>2. Atomic!Reset
    BY <1>1, <1>3, <2>1 DEF Atomic!Reset, Atomic!Visible, AllSecrets, Credential,
       Atomic!Credential
  <2>3. QED
    BY <2>2 DEF Atomic!Next
<1>4. QED
  BY <1>2, <1>3

\* Every other step of a rekey is a stutter.
LEMMA QuietRefines ==
  ASSUME IInv,
         \/ ReadInputs
         \/ \E n \in Names : TruncateBackup(n) \/ FillBackup(n) \/ RemoveBackup(n)
         \/ FillJournal
         \/ DiscoverPassphrases \/ ReadNewPassphrase
         \/ \E n \in Names : TruncateSecret(n) \/ FillSecret(n)
         \/ \E n \in Names : TruncateRestored(n) \/ FillRestored(n)
         \/ HandleRekeyStart \/ HandleRekeyResume \/ HandleRekeyAbort
         \/ DiscoverFails \/ RestoreFails \/ UndoStart \/ Interrupt
  PROVE  UNCHANGED Atomic!vars
<1>1. CASE \/ \E n \in Names : TruncateSecret(n) \/ FillSecret(n)
           \/ \E n \in Names : TruncateRestored(n) \/ FillRestored(n)
  <2>1. journal # NoFile /\ journal' = journal /\ UNCHANGED snap
    BY <1>1, FileAssumption, NoneAssumption DEF IInv, TypeOK, JournalInv, TruncateSecret, FillSecret,
       TruncateRestored, FillRestored
  <2>2. QED
    BY <2>1, Stutter
<1>2. CASE FillJournal
  <2>1. journal # NoFile /\ journal' # NoFile /\ UNCHANGED snap
    BY <1>2, FileAssumption, NoneAssumption DEF IInv, TypeOK, FillJournal
  <2>2. QED
    BY <2>1, Stutter
<1>3. CASE \/ ReadInputs
           \/ \E n \in Names : TruncateBackup(n) \/ FillBackup(n) \/ RemoveBackup(n)
           \/ DiscoverPassphrases \/ ReadNewPassphrase
           \/ HandleRekeyStart \/ HandleRekeyResume \/ HandleRekeyAbort
           \/ DiscoverFails \/ RestoreFails \/ UndoStart \/ Interrupt
  <2>1. UNCHANGED <<files, marker, journal, snap>>
    BY <1>3 DEF ReadInputs, TruncateBackup, FillBackup, RemoveBackup,
       DiscoverPassphrases, ReadNewPassphrase, HandleRekeyStart, HandleRekeyResume,
       HandleRekeyAbort, DiscoverFails, RestoreFails, UndoStart, Interrupt, store
  <2>2. QED
    BY <2>1, Stutter
<1>4. QED
  BY <1>1, <1>2, <1>3

LEMMA NextRefines == IInv /\ IInv' /\ [Next]_vars => [Atomic!Next]_(Atomic!vars)
<1> SUFFICES ASSUME IInv, IInv', [Next]_vars PROVE [Atomic!Next]_(Atomic!vars)
  OBVIOUS
<1>1. CASE RekeyStep \/ UndoStart \/ Interrupt
  BY <1>1, QuietRefines, MarkerRefines, RemoveJournalRefines, BeginStep
     DEF RekeyStep, Atomic!Next
<1>2. CASE UserStep
  BY <1>2, QuietRefines, ChangeStep DEF UserStep, Atomic!Next
<1>3. CASE UNCHANGED vars
  BY <1>3, Stutter DEF vars, store
<1>4. QED
  BY <1>1, <1>2, <1>3 DEF Next

\* A rekey that can be interrupted between any two steps, resumed, aborted and
\* interrupted again implements the rekey that happens at one moment or not.
THEOREM RekeyIsAtomic == Spec => ImplementsAtomicRekey
<1>1. Init => Atomic!Init
  BY DEF Init, Atomic!Init, Credential, Atomic!Credential
<1>2. IInv /\ IInv' /\ [Next]_vars => [Atomic!Next]_(Atomic!vars)
  BY NextRefines
<1>3. QED
  BY <1>1, <1>2, Invariance, PTL DEF Spec, Atomic!Spec, ImplementsAtomicRekey

=============================================================================
