--------------------------- MODULE RekeyInvariant ---------------------------
(***************************************************************************)
(* The inductive invariant of Rekey: what is true between any two steps of *)
(* a rekey, and why its properties follow.  It ties the phase a command is *)
(* in to what the store, the backup and the journal then hold.             *)
(***************************************************************************)
EXTENDS Rekey

\* Where the parameters and loop variables of a command are defined.
LocalsInv ==
    /\ pc \in {"idle", "purge", "prompt"} => todo = {}
    /\ pc \in {"purge", "prompt", "backup", "journal", "undo"} => op = "start"
    /\ pc \in {"discover", "fresh", "rewrite"} => op \in {"start", "resume"}
    /\ pc = "restore" => op = "abort"
    /\ pc \in {"marker", "stamp", "cleanup"} => op \in {"start", "resume", "abort"}
    /\ pc = "idle" <=> op = None
    /\ job # None => todo \subseteq job.secrets
    /\ half # None => half \in todo /\ pc \in {"backup", "rewrite", "restore"}
    /\ pc \in {"idle", "purge", "prompt", "backup", "journal", "undo",
               "discover", "restore"} => entry = None /\ fresh = None
    /\ op = "abort" => entry = None /\ fresh = None
    /\ pc \in {"fresh", "rewrite"} => entry \in [job.secrets -> Raws]
    /\ pc = "fresh" => job.chpass /\ fresh = None /\ todo = job.secrets
    /\ pc = "rewrite" => (job.chpass <=> fresh # None)
    /\ fresh # None =>
         fresh = NewDerived(fresh.raw, NoKeyfile, job.new, job.removing)
    /\ pc = "stamp" <=> meta # None

\* The journal exists from the end of the backup to the end of the cleanup.
JournalInv ==
    /\ journal = NoFile <=> snap = None
    /\ pc \in {"purge", "prompt", "backup"} => journal = NoFile
    /\ pc \in {"journal", "undo"} => journal \in {NoFile, Torn}
    /\ pc \in {"discover", "fresh", "rewrite", "restore"} => journal = job
    /\ pc \in {"marker", "stamp", "cleanup"} =>
         \/ journal = job
         \/ journal = NoFile /\ job.secrets = {} /\ AllSecrets = {} /\ op = "start"

\* Before there is a journal, and after it, the store has everything; while
\* it is being written the store is what the rekey found.
SavedInv ==
    /\ journal = NoFile => \A n \in Names : Holds(n, files[n])
    /\ journal = Torn => files = snap.files /\ marker = snap.marker
    /\ journal # NoFile => \A n \in Names : Holds(n, snap.files[n])

\* The backup that a rekey with a given job has made, before its journal.
BackupInv ==
    /\ pc \in {"backup", "journal"} =>
         /\ job.secrets = AllSecrets /\ job.secrets # {}
         /\ job.old = marker
         /\ \A n \in job.secrets \ todo : backup[n] = files[n]
    /\ pc = "journal" => todo = {}

\* What a readable journal says about the store it was written for, and what
\* the backup it lists still has.
PendingInv ==
    journal \in Job =>
        /\ journal.old = snap.marker
        /\ journal.secrets = {n \in Names \ Hidden : snap.files[n] # NoFile}
        /\ journal.secrets # {}
        /\ \A n \in Names \ journal.secrets : files[n] = snap.files[n]
        /\ \A n \in journal.secrets :
             /\ backup[n] \in {NoFile, snap.files[n]}
             /\ backup[n] = NoFile => Holds(n, files[n])

\* The file of n has been rewritten.
Rewritten(n) ==
    /\ snap.files[n] \in Ciphertext
    /\ snap.files[n].key = OldDerived(entry[n], job.old)
    /\ files[n] = [key |-> NewKey(n), text |-> snap.files[n].text]

\* How far the loop over the secrets has come.
LoopInv ==
    /\ pc \in {"fresh", "rewrite"} =>
         \A n \in job.secrets :
           /\ backup[n] = snap.files[n]
           /\ backup[n] \in Ciphertext
           /\ backup[n].key = OldDerived(entry[n], job.old)
    /\ pc = "rewrite" => \A n \in job.secrets \ todo : Rewritten(n)
    /\ pc = "restore" =>
         \A n \in job.secrets \ todo : files[n] = snap.files[n]
    /\ pc \in {"rewrite", "restore"} /\ half # None =>
         backup[half] = snap.files[half]

\* What the loops have achieved when the marker is written, and the marker
\* afterwards.
DoneInv ==
    /\ pc \in {"marker", "stamp", "cleanup"} /\ journal = job =>
         /\ todo = {}
         /\ op = "abort" => files = snap.files
         /\ op # "abort" =>
              /\ entry \in [job.secrets -> Raws]
              /\ job.chpass <=> fresh # None
              /\ \A n \in job.secrets : Rewritten(n)

\* The marker of a pending rekey: old, new or truncated; and, once it has been
\* written, the one the command intends.
IntendedBy(kf) ==
    /\ op = "abort" => kf = job.old
    /\ op # "abort" /\ job.new # NoKeyfile => kf = job.new
    /\ op # "abort" /\ job.new = NoKeyfile /\ job.removing => kf = NoKeyfile

MarkerInv ==
    /\ journal \in Job => marker \in {NoKeyfile, journal.old, journal.new}
    /\ pc = "stamp" => IntendedBy(meta)
    /\ pc = "stamp" /\ journal \in Job => meta \in {NoKeyfile, journal.old, journal.new}
    /\ pc = "cleanup" => IntendedBy(marker)

IInv ==
    /\ TypeOK
    /\ LocalsInv
    /\ JournalInv
    /\ SavedInv
    /\ BackupInv
    /\ PendingInv
    /\ LoopInv
    /\ DoneInv
    /\ MarkerInv

=============================================================================
