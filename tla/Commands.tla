------------------------------ MODULE Commands ------------------------------
(***************************************************************************)
(* The commands of sympa run from several terminals over one store and one *)
(* passphrase agent: where each command finds its passphrase (the agent,   *)
(* under the name of the secret or under the global "", or a prompt), what *)
(* it leaves in the agent, and what it writes (commands/helpers.go and the *)
(* handlers of the commands).                                              *)
(*                                                                         *)
(* A command checks, reads, asks and writes in separate steps, and others  *)
(* run between them.  A rekey is here a series of coarse steps: files are  *)
(* written whole (module Rekey has the interrupted writes) and the two     *)
(* requests after which a store does not open at all are left out (they    *)
(* are a matter of Rekey alone).  Of a secret only its key is kept.        *)
(***************************************************************************)
EXTENDS Keyfile, Sequences

CONSTANTS
    Terminals,  \* shells in which commands are run
    Writers,    \* those in which secrets are changed
    Names,      \* names of secrets
    Global,     \* the path "" under which the agent keeps the fallback
    Modes,      \* values of the agent variables: "off", "r", "rw"
    NoFile,     \* no such secret
    None        \* no value

ASSUME WritersAssumption == Writers \subseteq Terminals

ASSUME GlobalAssumption == Global \notin Names

ASSUME ModesAssumption == Modes \subseteq {"off", "r", "rw"}

Paths == Names \cup {Global}

\* A keyfile whose rekey is in reach of this module.
Usual == Credential \ {EmptyKeyfile}

\* What the journal of a rekey says.
Job == [old : Usual, new : Usual, chpass : BOOLEAN, secrets : SUBSET Names]

ASSUME NoneAssumption == None \notin Key \cup Job

VARIABLES
    files,    \* the key of each secret in the store
    backup,   \* the key of each secret under .rekey-backup
    journal,  \* .rekey-journal: None or the job of a rekey
    marker,   \* the keyfile of .sympa-store
    agent,    \* no agent, one that is up, or one that was told to stop
    cache,    \* what the agent holds
    term,     \* the command each terminal runs
    proven    \* history: keys that secrets of the store have had

store == <<files, backup, journal, marker>>
vars  == <<store, agent, cache, term, proven>>

\* The parameters and local variables of a command.
Idle == [at |-> "idle", cmd |-> None, name |-> None, mode |-> None,
         kf |-> NoKeyfile, path |-> None, purpose |-> None, ct |-> None,
         pass |-> None, notes |-> <<>>, todo |-> {}, job |-> None]

Init ==
    /\ files = [n \in Names |-> NoFile]
    /\ backup = [n \in Names |-> NoFile]
    /\ journal = None
    /\ marker \in Usual
    /\ agent = "none"
    /\ cache = [p \in Paths |-> None]
    /\ term = [t \in Terminals |-> Idle]
    /\ proven = {}

At(t, here) == term[t].at = here
Becomes(t, c) == term' = [term EXCEPT ![t] = c]
Goto(t, there) == Becomes(t, [term[t] EXCEPT !.at = there])
End(t) == Becomes(t, Idle)

AllSecrets == {n \in Names : files[n] # NoFile}

----------------------------------------------------------------------------
\* Starting a command: its checks.

\* Mutant: requireNoActiveRekey dropped.
NoActiveRekeyDropped == TRUE

NoActiveRekey == journal = None

\* The agent is asked before the user: for a secret that is read always, for
\* a passphrase to write with only in mode rw.
Asking(c, purpose, path) ==
    [c EXCEPT !.purpose = purpose, !.path = path, !.pass = None,
              !.at = IF c.mode = "off" \/ (purpose = "new" /\ c.mode # "rw")
                     THEN "ask" ELSE "named"]

Fresh(cmd, n, mode) ==
    [Idle EXCEPT !.cmd = cmd, !.name = n, !.mode = mode, !.kf = marker]

Begin(t) == At(t, "idle") /\ UNCHANGED <<store, agent, cache, proven>>

\* show and totp run while a rekey is pending.
HandleShow(t) ==
    /\ Begin(t)
    /\ \E n \in AllSecrets, mode \in Modes :
         Becomes(t, [Fresh("show", n, mode) EXCEPT !.at = "fetch", !.path = n])

\* So does grep; it wants the global passphrase.
HandleGrep(t) ==
    /\ Begin(t)
    /\ \E mode \in Modes :
         Becomes(t, [Fresh("grep", None, mode) EXCEPT
           !.purpose = "grep", !.path = Global,
           !.at = IF mode = "off" THEN "ask" ELSE "global"])

\* insert and generate, with --force or on a new name.
HandleInsert(t) ==
    /\ Begin(t) /\ NoActiveRekey
    /\ \E n \in Names, mode \in Modes :
         Becomes(t, Asking(Fresh("insert", n, mode), "new", n))

HandleEdit(t) ==
    /\ Begin(t) /\ NoActiveRekey
    /\ \E n \in Names, mode \in Modes :
         Becomes(t, [Fresh("edit", n, mode) EXCEPT
           !.at = IF n \in AllSecrets THEN "fetch" ELSE "edit", !.path = n])

HandleCp(t) ==
    /\ Begin(t) /\ NoActiveRekey
    /\ \E n \in AllSecrets, m \in Names, mode \in Modes :
         Becomes(t, [Fresh("cp", m, mode) EXCEPT !.at = "fetch", !.path = n])

\* mv and rm do not look at the keyfile.
HandleMv(t) ==
    /\ Begin(t) /\ NoActiveRekey
    /\ \E n \in AllSecrets, m \in Names :
         Becomes(t, [Idle EXCEPT !.at = "move", !.cmd = "mv", !.path = n, !.name = m])

HandleRm(t) ==
    /\ Begin(t) /\ NoActiveRekey
    /\ \E n \in AllSecrets :
         Becomes(t, [Idle EXCEPT !.at = "remove", !.cmd = "rm", !.name = n])

----------------------------------------------------------------------------
\* cachedDecrypt, cachedPassphrase and writePassphrase.

\* Store.Read.
Fetch(t) ==
    /\ At(t, "fetch")
    /\ LET c == term[t]
       IN IF files[c.path] = NoFile THEN End(t)
          ELSE Becomes(t, [Asking(c, "open", c.path) EXCEPT !.ct = files[c.path]])
    /\ UNCHANGED <<store, agent, cache, proven>>

\* What a command does once it has its passphrase.
After(c) ==
    CASE c.purpose = "grep"                    -> [c EXCEPT !.at = "list"]
      [] c.purpose = "new"                     -> [c EXCEPT !.at = "write"]
      [] c.purpose = "open" /\ c.cmd = "edit"  -> [c EXCEPT !.at = "edit"]
      [] c.purpose = "open" /\ c.cmd = "cp"    -> [Asking(c, "new", c.name) EXCEPT !.ct = None]
      [] c.purpose = "open" /\ c.cmd = "show"  -> Idle

Got(t, k, notes) ==
    LET c == [term[t] EXCEPT !.pass = k, !.notes = notes]
    IN Becomes(t, IF notes = <<>> THEN After(c) ELSE [c EXCEPT !.at = "remember"])

\* Mutant: a cached passphrase is trusted without decrypting with it.
UsableUntried(c, k) == k # None

\* To open a secret a cached passphrase has to decrypt it; to write one, or
\* to search, it is taken as it is.
Usable(c, k) == k # None /\ (c.purpose = "open" => k = c.ct)

\* EnsureRunning, or, for a write, a Ping: an agent that was told to stop
\* answers until it has gone.
AgentFor(c) == IF agent = "none" /\ c.purpose # "new" THEN "up" ELSE agent

GetNamed(t) ==
    /\ At(t, "named")
    /\ agent' = AgentFor(term[t])
    /\ LET c == term[t]
       IN IF Usable(c, cache[c.path]) THEN Got(t, cache[c.path], <<>>)
          ELSE Goto(t, "global")
    /\ UNCHANGED <<store, cache, proven>>

GetGlobal(t) ==
    /\ At(t, "global")
    /\ agent' = AgentFor(term[t])
    /\ LET c == term[t]
       IN IF Usable(c, cache[Global])
          THEN Got(t, cache[Global], IF c.purpose = "grep" THEN <<>> ELSE <<c.path>>)
          ELSE Goto(t, "ask")
    /\ UNCHANGED <<store, cache, proven>>

\* Mutant: a new passphrase is made the fallback in every mode.
NotesEager(c) ==
    IF c.mode = "off" \/ c.purpose = "grep" THEN <<>>
    ELSE IF c.purpose = "open" THEN <<c.path, Global>>
    ELSE <<Global, c.path>>

\* The paths under which a passphrase that was typed is then cached.
Notes(c) ==
    IF c.mode = "off" \/ c.purpose = "grep" THEN <<>>
    ELSE IF c.purpose = "open" THEN <<c.path, Global>>
    ELSE IF c.mode = "rw" THEN <<Global, c.path>>
    ELSE <<c.path>>

\* The prompt, and the keyfile the command was given.
Ask(t) ==
    /\ At(t, "ask")
    /\ \E r \in Raws :
         LET c == term[t]
             k == ApplyKeyfile(r, c.kf)
         IN IF c.purpose = "open" /\ k # c.ct THEN End(t) ELSE Got(t, k, Notes(c))
    /\ UNCHANGED <<store, agent, cache, proven>>

\* The request that follows a SET is made whether the SET was served or not.
Noted(c) ==
    LET d == [c EXCEPT !.notes = Tail(@)]
    IN IF d.notes = <<>> THEN After(d) ELSE d

Remember(t) ==
    /\ At(t, "remember")
    /\ agent' = IF agent = "none" THEN "up" ELSE agent
    /\ cache' = [cache EXCEPT ![Head(term[t].notes)] = term[t].pass]
    /\ Becomes(t, Noted(term[t]))
    /\ UNCHANGED <<store, proven>>

\* A request that the agent does not answer, or an agent that does not start.
NoAnswer(t) ==
    /\ \/ At(t, "named") /\ Goto(t, "global")
       \/ At(t, "global") /\ Goto(t, "ask")
       \/ At(t, "remember") /\ Becomes(t, Noted(term[t]))
    /\ UNCHANGED <<store, agent, cache, proven>>

----------------------------------------------------------------------------
\* The ends of the commands.

\* The editor.  An existing secret keeps the passphrase that opened it.
Edit(t) ==
    /\ At(t, "edit")
    /\ \/ End(t)
       \/ term[t].pass # None /\ Goto(t, "write")
       \/ term[t].pass = None /\ Becomes(t, Asking(term[t], "new", term[t].name))
    /\ UNCHANGED <<store, agent, cache, proven>>

Write(t) ==
    /\ At(t, "write")
    /\ files' = [files EXCEPT ![term[t].name] = term[t].pass]
    /\ proven' = proven \cup {term[t].pass}
    /\ End(t)
    /\ UNCHANGED <<backup, journal, marker, agent, cache>>

\* os.Rename.  The cache is left as it is.
Move(t) ==
    /\ At(t, "move")
    /\ LET c == term[t]
       IN files' = IF files[c.path] = NoFile THEN files
                   ELSE [n \in Names |-> IF n = c.name THEN files[c.path]
                                         ELSE IF n = c.path THEN NoFile ELSE files[n]]
    /\ End(t)
    /\ UNCHANGED <<backup, journal, marker, agent, cache, proven>>

Delete(t) ==
    /\ At(t, "remove")
    /\ files' = [files EXCEPT ![term[t].name] = NoFile]
    /\ End(t)
    /\ UNCHANGED <<backup, journal, marker, agent, cache, proven>>

\* grep lists the secrets, then visits them.
ListSecrets(t) ==
    /\ At(t, "list")
    /\ Becomes(t, IF AllSecrets = {} THEN Idle
                  ELSE [term[t] EXCEPT !.at = "visit", !.todo = AllSecrets])
    /\ UNCHANGED <<store, agent, cache, proven>>

Visit(t, n) ==
    /\ At(t, "visit") /\ n \in term[t].todo
    /\ IF files[n] = term[t].pass /\ term[t].mode # "off"
       THEN /\ agent' = IF agent = "none" THEN "up" ELSE agent
            /\ cache' = [cache EXCEPT ![n] = term[t].pass]
       ELSE UNCHANGED <<agent, cache>>
    /\ Becomes(t, IF term[t].todo = {n} THEN Idle
                  ELSE [term[t] EXCEPT !.todo = @ \ {n}])
    /\ UNCHANGED <<store, proven>>

----------------------------------------------------------------------------
\* Rekey.

\* handleRekeyStart: no journal ...
RekeyStart(t) ==
    /\ Begin(t) /\ journal = None
    /\ Becomes(t, [Idle EXCEPT !.at = "purge", !.cmd = "start"])

\* ... what an interrupted start has left goes, the keyfile is checked ...
RekeyPurge(t) ==
    /\ At(t, "purge")
    /\ backup' = [n \in Names |-> NoFile] /\ journal' = None
    /\ \E new \in Usual, chpass \in BOOLEAN :
         /\ chpass \/ {new, marker} # {NoKeyfile}
         /\ Becomes(t, [term[t] EXCEPT !.at = "backup",
             !.job = [old |-> marker, new |-> new, chpass |-> chpass, secrets |-> {}]])
    /\ UNCHANGED <<files, marker, agent, cache, proven>>

\* ... and after the prompt the secrets are listed and copied.
RekeyBackup(t) ==
    /\ At(t, "backup")
    /\ backup' = [n \in Names |-> IF n \in AllSecrets THEN files[n] ELSE backup[n]]
    /\ Becomes(t, [term[t] EXCEPT !.job.secrets = AllSecrets, !.todo = AllSecrets,
                                  !.at = IF AllSecrets = {} THEN "marker" ELSE "journal"])
    /\ UNCHANGED <<files, journal, marker, agent, cache, proven>>

RekeyJournal(t) ==
    /\ At(t, "journal")
    /\ journal' = term[t].job
    /\ Goto(t, "rewrite")
    /\ UNCHANGED <<files, backup, marker, agent, cache, proven>>

RekeyResume(t) ==
    /\ Begin(t) /\ journal # None
    /\ Becomes(t, [Idle EXCEPT !.at = "rewrite", !.cmd = "resume",
                               !.job = journal, !.todo = journal.secrets])

RekeyAbort(t) ==
    /\ Begin(t) /\ journal # None
    /\ Becomes(t, [Idle EXCEPT !.at = "restore", !.cmd = "abort",
                               !.job = journal, !.todo = journal.secrets])

\* The step after a secret has been rewritten or restored.
Done(t, n) ==
    Becomes(t, [term[t] EXCEPT !.todo = @ \ {n},
                               !.at = IF term[t].todo = {n} THEN "marker" ELSE @])

RekeySecret(t, n) ==
    /\ At(t, "rewrite") /\ n \in term[t].todo /\ backup[n] # NoFile
    /\ \E r \in IF term[t].job.chpass THEN Raws ELSE {backup[n].raw} :
         LET k == NewDerived(r, term[t].job.old, term[t].job.new, TRUE)
         IN /\ files' = [files EXCEPT ![n] = k]
            /\ proven' = proven \cup {k}
    /\ Done(t, n)
    /\ UNCHANGED <<backup, journal, marker, agent, cache>>

RestoreSecret(t, n) ==
    /\ At(t, "restore") /\ n \in term[t].todo /\ backup[n] # NoFile
    /\ files' = [files EXCEPT ![n] = backup[n]]
    /\ Done(t, n)
    /\ UNCHANGED <<backup, journal, marker, agent, cache, proven>>

RekeyMarker(t) ==
    /\ At(t, "marker")
    /\ marker' = IF term[t].cmd = "abort" THEN term[t].job.old ELSE term[t].job.new
    /\ Goto(t, "cleanup")
    /\ UNCHANGED <<files, backup, journal, agent, cache, proven>>

\* An abort ends here; the others go on to flushAgentCache.
RekeyCleanup(t) ==
    /\ At(t, "cleanup")
    /\ backup' = [n \in Names |-> NoFile] /\ journal' = None
    /\ IF term[t].cmd = "abort" THEN End(t) ELSE Goto(t, "flush")
    /\ UNCHANGED <<files, marker, agent, cache, proven>>

\* SHUTDOWN is answered before the agent clears its cache.
FlushAgentCache(t) ==
    /\ At(t, "flush")
    /\ agent' = IF agent = "up" THEN "stopping" ELSE agent
    /\ End(t)
    /\ UNCHANGED <<store, cache, proven>>

----------------------------------------------------------------------------
\* The agent, and interruptions.

\* An entry whose time is over.
Expire(p) ==
    /\ cache[p] # None
    /\ cache' = [cache EXCEPT ![p] = None]
    /\ UNCHANGED <<store, agent, term, proven>>

\* sympa agent stop, or SIGTERM.
AgentStop ==
    /\ agent = "up"
    /\ agent' = "stopping"
    /\ UNCHANGED <<store, cache, term, proven>>

\* Mutant: an agent that is started again finds what the last one held.
AgentGoneKeeps ==
    /\ agent = "stopping"
    /\ agent' = "none"
    /\ UNCHANGED <<store, cache, term, proven>>

AgentGone ==
    /\ agent = "stopping"
    /\ agent' = "none"
    /\ cache' = [p \in Paths |-> None]
    /\ UNCHANGED <<store, term, proven>>

\* Ctrl+C or an error.
Interrupt(t) ==
    /\ ~At(t, "idle")
    /\ End(t)
    /\ UNCHANGED <<store, agent, cache, proven>>

----------------------------------------------------------------------------

Reading(t) ==
    \/ HandleShow(t) \/ HandleGrep(t)
    \/ Fetch(t) \/ GetNamed(t) \/ GetGlobal(t) \/ Ask(t) \/ Remember(t) \/ NoAnswer(t)
    \/ ListSecrets(t) \/ \E n \in Names : Visit(t, n)
    \/ Interrupt(t)

Changing(t) ==
    \/ HandleInsert(t) \/ HandleEdit(t) \/ HandleCp(t) \/ HandleMv(t) \/ HandleRm(t)
    \/ Edit(t) \/ Write(t) \/ Move(t) \/ Delete(t)

Rekeying(t) ==
    \/ RekeyStart(t) \/ RekeyPurge(t) \/ RekeyBackup(t) \/ RekeyJournal(t)
    \/ RekeyResume(t) \/ RekeyAbort(t)
    \/ \E n \in Names : RekeySecret(t, n) \/ RestoreSecret(t, n)
    \/ RekeyMarker(t) \/ RekeyCleanup(t) \/ FlushAgentCache(t)

Next ==
    \/ \E t \in Terminals : Reading(t)
    \/ \E t \in Writers : Changing(t) \/ Rekeying(t)
    \/ \E p \in Paths : Expire(p)
    \/ AgentStop \/ AgentGone

Spec == Init /\ [][Next]_vars

----------------------------------------------------------------------------
\* Properties.

\* Every variable has a value of its kind; only a serving agent holds
\* passphrases, and a command that is about to write has one.
TypeOK ==
    /\ files \in [Names -> Key \cup {NoFile}]
    /\ backup \in [Names -> Key \cup {NoFile}]
    /\ journal \in Job \cup {None}
    /\ marker \in Usual
    /\ agent \in {"none", "up", "stopping"}
    /\ cache \in [Paths -> Key \cup {None}]
    /\ agent = "none" => \A p \in Paths : cache[p] = None
    /\ \A t \in Terminals : At(t, "write") => term[t].pass \in Key
    /\ proven \subseteq Key

\* With one writing terminal, and the agent in its default mode or off, every
\* secret opens with the keyfile of the marker whenever no rekey is pending,
\* whatever passphrases of an earlier keyfile the agent still holds: rekeys
\* that are aborted, resumed or interrupted, an agent that is slow to stop,
\* and concurrent readers included.
StoreOpens ==
    journal = None => \A n \in AllSecrets : files[n].kf = marker

\* Outside mode rw the fallback the agent offers for any secret is a
\* passphrase that a secret of the store has had: one that was only typed for
\* a write, perhaps never made, does not become the fallback.
GlobalProven == cache[Global] \in proven \cup {None}

\* Expected of the commands by a comment, and not so.

\* keyfile.go: flushAgentCache "stops the agent to clear stale cached
\* passphrases after rekey".  An abort that has put an earlier keyfile back
\* does not leave an agent in service with a passphrase of another keyfile.
AbortClearsCache ==
    [][\A t \in Writers :
         RekeyCleanup(t) /\ term[t].cmd = "abort" /\ agent' = "up"
             => \A p \in Paths : cache'[p] # None => cache'[p].kf = marker']_vars

=============================================================================
