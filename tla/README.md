# Verification of sympa

sympa keeps secrets as age files, one per name, encrypted with a passphrase that may be
combined with a keyfile. This directory holds TLA+ models of the parts of it whose correctness
depends on order, interruption and concurrency; the TLC runs that check them on small
instances; and proofs, checked by TLAPS, for every value of the constants.

`PROJECT.json` maps each definition to the lines it models, and lists the runs, the findings,
the hazards and the theorems.

## The system

| Component | State it keeps | Operations | Talks to |
|---|---|---|---|
| Store (`internal/store`) | a tree of directories and `<name>.age` files, marker `.sympa-store` with the keyfile's fingerprint | Read, Write, Remove, Rename, AllSecrets, metadata | file system |
| Rekey (`commands/keyfile.go`) | `.rekey-journal`, `.rekey-backup/` | start, `--resume`, `--abort`; keyfile generate, verify | store, prompt, agent (flush) |
| Commands on secrets (`commands/*.go`) | local variables; temporary file of `edit` | insert, generate, edit, cp, mv, rm, show, totp, grep | store, agent, prompt, clipboard |
| Agent server (`agent/server.go`) | cache with expiry, `done` channel, listener, socket file | PING, GET, SET, FORGET, CLEAR, SHUTDOWN; reaper; SIGTERM | sockets |
| Agent client (`agent/client.go`) | none | EnsureRunning (spawns an agent), Get, Set, Shutdown | server |
| Keyfiles and encryption (`internal/age`) | none | derivation, fingerprint, encrypt, decrypt, prompts | libraries |
| Edit file (`internal/secret`), clipboard (`internal/clip`) | a file in RAM; the clipboard and a detached clearer | create, clean up; copy, clear if unchanged | system |
| Listing and completion (`commands/ls.go`, `find.go`, `complete.go`) | none | walks of the tree | store |
| Fields and totp (`internal/fields`, `internal/totp`) | none | parse a text, get a field, make a code | - |
| git, options, hardening, generators of shell scripts | none | pass on, declare, print | - |

What is hard about it:

* **Interruption.** A rekey rewrites every secret in place with `os.WriteFile`, which truncates
  before it writes. It can be interrupted between any two system calls, taken up again with
  `--resume` and different answers, or rolled back with `--abort`, which can be interrupted too.
* **Two derivations.** Ordinary commands and the rekey combine passphrase and keyfile in two
  functions that must agree.
* **Stale passphrases.** The agent outlives commands and keyfiles; what it holds may belong to
  a keyfile the store no longer has.
* **Check, then act.** A command looks for a pending rekey once, then prompts or opens an editor
  for as long as the user likes, then writes.
* **A path is not a lock.** Agents that start probe the socket and remove what is dead; agents that
  stop remove what has the name by then. Directories are made and removed by commands that do not
  know of each other.
* **Plaintext.** It is on a clipboard that everybody writes, until a detached process clears it; and
  in a temporary file that an editor, an error or a signal may leave anywhere.
* **Goroutines.** Connection handlers, reaper, signal handler and several `Shutdown`s share one
  agent; the process ends when the accept loop returns, whatever the others are doing.

What makes each component correct: the store loses no saved text; a rekey does what was asked
or puts everything back, never something in between; after it, secrets open with the keyfile
the marker names; the agent serves a passphrase only within its time and keeps it in memory
little longer; after a stop no agent gives out what it has held since before; a command that was not
forced replaces nothing it has not seen; secrets leave the clipboard and what the user copied stays;
a command never encrypts with a passphrase the store's user cannot reproduce.

## Modules

| Module | Content |
|---|---|
| `Keyfile` | effective passphrases: `ApplyKeyfile` (the commands) and `OldDerived`, `NewDerived` (the rekey) |
| `AtomicRekey` | abstract: a rekey is pending, then all has happened or nothing has |
| `Rekey` | the rekey at the grain of truncate and fill, with interruptions, and the changes between rekeys |
| `RekeyInvariant` | the inductive invariant of `Rekey` |
| `RekeyProofs` | theorems about `Rekey`, among them that it implements `AtomicRekey` |
| `AgentProtocol` | requests and answers |
| `AgentCache` | abstract: a cache with exact expiry, one moment per request |
| `AgentServer` | the goroutines of one agent process |
| `AgentProofs` | theorems about `AgentServer`, among them that it implements `AgentCache` |
| `Commands` | commands in several terminals, the agent as they see it, and coarse rekeys |
| `CommandsProofs` | theorems about `Commands` |
| `AgentSocket` | agents that come and go on one socket path, and the commands that look for one, start one, use it and stop it |
| `AgentSocketProofs` | theorems about `AgentSocket` |
| `StoreTree` | the tree of the store at the grain of system calls, under commands of several terminals |
| `StoreTreeProofs` | theorems about what the steps of `StoreTree` do to the tree |
| `StoreTreeEndProofs` | theorems about what its commands have done when they end |
| `Fields` | `Parse` and `Get` as recursive functions, and the format README.md of sympa documents |
| `FieldsProofs` | theorems about `Fields` |
| `Plaintext` | `CopyAndClear`, `ClearIfMatch` and `edit`'s temporary file, with the user and other commands in between |
| `PlaintextProofs` | theorems about `Plaintext` |
| `MCCommands`, `MCStoreTree`, `MCPlaintext` | instances for TLC, with their values and symmetries (`RekeyInvariant`, `AgentServer` and `AgentSocket` are instantiated as they are: liveness admits no symmetry) |

### Rekey

`files`, `backup`, `journal`, `marker` are the disk. `pc`, `op`, `job`, `todo`, `half`, `entry`,
`fresh`, `meta` are the local variables of the one rekey command that runs; `Forget` drops them
when it ends. `text` and `snap` are history: what the user last saved under each name, and the
store when the journal was created.

| Action | Code |
|---|---|
| `Save`, `TornSave`, `Remove`, `Rename` | the commands that write, guarded by `requireNoActiveRekey` and `requireKeyfileConsistency` |
| `HandleRekeyStart`, `ReadInputs` | `handleRekeyStart` up to the list of secrets, with the cleanup that comes first |
| `TruncateBackup`/`FillBackup`, `TruncateJournal`/`FillJournal`, `UndoStart` | `backupSecrets`, `writeRekeyJournal`, and the cleanup after their errors |
| `DiscoverPassphrases`, `ReadNewPassphrase`, `DiscoverFails` | `discoverPassphrases` and the prompt of `--passphrase` |
| `TruncateSecret`/`FillSecret` | `rekeySecrets`, which decrypts from the backup and writes into the store |
| `TruncateRestored`/`FillRestored`, `RestoreFails` | `restoreBackup` |
| `TruncateMarker`/`FillMarker` | `WriteMetadata`; an empty marker reads as no keyfile |
| `RemoveBackup`, `RemoveJournal` | `cleanupRekey`, file by file |
| `Interrupt` | a signal or an error, anywhere |

A secret is the pair of its key and its text; a key is the pair of the raw passphrase and the
keyfile it was derived with (HKDF and SHA-256 taken to be injective). Discovery chooses a
mapping of raw passphrases that opens every backup; a user who does not know one is an
`Interrupt`. The order of secrets within a loop is left open. Directories are left out.

### Agent

`AgentServer` has one variable per shared Go object (`cache`, `done`, `listening`), the state of
each connection and of each goroutine inside `Shutdown`. A handler's critical section is one
action, its answer another. Time is counted as the age of an entry since its last use.
`AgentCache` has no reaper: an entry disappears when its time is over. The refinement hides an
entry that has expired and is still in memory: what `AgentCache` holds is what a GET would find.

### Commands

Each terminal runs one command at a time, as a record `term[t]` with its place, its parameters
and its passphrase. `cachedDecrypt` (purpose `"open"`), `writePassphrase` (`"new"`) and
`cachedPassphrase` (`"grep"`) are the steps `GetNamed`, `GetGlobal`, `Ask`, `Remember`. Each
request to the agent may go unanswered (`NoAnswer`). The agent is a cache whose entries expire
at any time, and that answers until it has gone after it was told to stop. Texts are left out.
`insert` and `generate` are one action, and so are `show` and `totp`: they differ in what they do
with the text. `verifyPassphraseConsistency` prints a warning and is left out.

### Agents on one socket

`file` is what the socket path names: an agent, the socket of a dead process, or nothing. `agent[a]`
is where a process is in `Run` and `Shutdown`. `at`, `op`, `pass`, `conn` are a command's place, its
request, the passphrase it has in hand and is about to set, and its connection. `elders`, `flush`,
`late` are history. A passphrase is what it is to the last watched stop: `"old"` where an agent held it
when the stop began; `"kept"` where a command read it from an agent and had it in hand then, or reads an
old one later: it will set it again, perhaps in a new agent; `"new"` otherwise.

| Action | Code |
|---|---|
| `Probe`, `AlreadyRunning`, `RemoveOld`, `Bind`, `BindFails`, `Listen`, `Chmod`, `UndoListen`, `UndoRemove` | `Run` up to its accept loop; `net.Listen` is a bind and a listen |
| `Unlink`, `CloseListener`, `ClearCache`, `RemoveSocket`, `RunReturns` | `Shutdown`: `Close` of a Unix listener unlinks its path before it closes, `os.Remove` follows; the process ends when `Accept` fails |
| `Sigterm`, `Kill`, `Evict` | signals, panics, the time of an entry |
| `Ping`, `Spawn`, `Poll`, `GiveUp` | `EnsureRunning`: ping, start a process, poll for a second |
| `Dial`, `Get`, `Set`, `Shutdown`, `Drop`, `Missed` | one request of a command, which goes on without the agent when it fails |
| `Get`, `Missed`, `Ask`, `Again` | `cachedDecrypt` and `writePassphrase`: the path is looked up, then the fallback; a fallback that does is set for the path, one that does not leads to the prompt; what the user has typed is set for both |
| `Begin`, `HandleAgentStop`, `HandleAgentStart` | a command on a secret, `agent stop` or the flush after a rekey, `agent start` |

`AgentServer` looks into one process; this module looks at several from outside. They meet in
`Shutdown` (there in goroutines, here in system calls) and in what a cache holds.

### Store tree

`dirs` and `files` are the tree, `job[p]` the command of a terminal: its verb, the system call it is
about to make, and what `MkdirAll`, `RemoveAll` or a walk has got to. `changed` and `left` are history.
The tree itself is a constant: `Parent` gives each secret and directory its place. That a system call makes
nothing in a directory that does not exist, and removes no directory that is not empty, is the file system's
part and built into the actions; `TypeOK` says so and is only an ingredient of the proofs. Each call may
also fail for a reason of its own (`Fails`): then the directories the command has made or emptied
may stay, and `left` notes them. `ok` is what a command
will report; `os.RemoveAll` reports only whether the directory it was given went in the end, whatever
failed below.

| Action | Code |
|---|---|
| `HandleInsert`, `HandleMv`, `HandleRm`, `HandleRmRecursive`, `HandleFind`, `HandleLs` | the checks of the commands; the prompt or the editor comes between them and the next step |
| `MkdirUp`, `MkdirDown`, `MkdirFails`, `WriteFile`, `Rename`, `Unlink` | `Write`, `Rename`, `Remove` with `os.MkdirAll`, and their errors |
| `RemoveAll`, `RemoveAllSkips`, `RemoveAllEnds` | `RemoveDir`: `os.RemoveAll` reads, removes what it has read, passes over what it cannot remove, then removes the directory |
| `CleanRead`, `CleanReadFails`, `CleanRemove` | `cleanEmptyDirs`: `ReadDir`, then `Remove`, whose error is ignored, upwards |
| `Walk`, `PrintTree`, `WalkEnds` | `AllSecrets` (also `find`, `grep`, the completion of names) and `List` |
| `Interrupt` | a signal |

### Plaintext

`board` is what the clipboard was given last, `Seen(v)` what a paste then returns (some clipboards add
a newline). `command[p]` and `clearer[c]` are the steps of `CopyAndClear` and of the detached process;
`tmp[p]` is the state of the temporary file of an `edit`: empty, plain, overwritten, gone, or left by a
signal or by an `os.Remove` whose error `Cleanup` ignores. What is copied is `Get(text, key)` of `Fields`, or the code of a `totp` field.

| Action | Code |
|---|---|
| `HandleShow`, `HandleTotp`, `HandleGenerate` | the commands with `-c` |
| `Copy`, `ReadBack`, `ReadBackFails`, `Spawn`, `SpawnFails` | `CopyAndClear` |
| `Compare`, `Clear`, `ClearerFails` | `ClearIfMatch`, in the process that `main` turns into a clearer |
| `HandleEdit`, `FillFile`, `Editor`, `Save`, `Overwrite`, `Remove` | `handleEdit`, `NewTempFile`, `Cleanup` |
| `UserCopies`, `Interrupt` | the user, a signal |

## Runs

| Run | Instance | Shows |
|---|---|---|
| `rekey` | 3 names (1 hidden), 2 passphrases, with and without a keyfile | nothing lost, marker and secrets agree, passphrases as asked, abort restores, backup first; the inductive invariant of the proofs; `Rekey` implements `AtomicRekey`; under fairness, `--abort` ends every pending rekey that is whole |
| `rekey_unrecoverable` | 2 names | violated: an interruption that neither `--resume` nor `--abort` mends |
| `rekey_passphrase` | 2 names | violated: a rekey after which secrets do not open with the marker's keyfile |
| `agent` | 2 connections, 1 path, 2 passphrases, TTL 3, period 2 | `AgentServer` implements `AgentCache`; age at most TTL plus the time since the reaper's last tick; answers and shutdown arrive |
| `agent_panic` | 2 connections | violated: second close of `done` |
| `commands_session` | 1 terminal, 2 names, modes off and r | secrets stay readable with the marker's keyfile; the fallback passphrase is proven |
| `commands_reader` | 1 terminal that writes and rekeys, 1 that reads, 1 name | the same under concurrent readers |
| `commands_abort` | 1 terminal, modes r and rw | violated: stale cache after an abort |
| `agent_socket` | 2 agents, 1 reader, 1 stopper | after a stop no agent gives out what it has held since before; an agent in service is only unseated by one that was under way before |
| `agent_service` | 2 agents, 1 reader, signals and crashes, no stopper | under fairness, commands bring an agent back into service |
| `store_tree` | 2 terminals, root with 3 directories one in the other (1 hidden), 2 secrets, calls that fail | unforced commands replace nothing they have not seen; no secret lost with a directory; no empty directories left; walks find what nobody touches |
| `plaintext` | 2 terminals, 2 clearers, 3 things to copy, 2 texts | fields as documented; temporary files gone; somebody clears a secret, nobody a text of the user; under fairness, secrets leave the clipboard |

Bounds. Two visible names are one secret that has been rewritten beside one that has not; two passphrases
give a store with mixed passphrases. In `rekey` a keyfile is added, removed or kept; a second
keyfile, or the one of zero bytes, multiplies the states by six, too many for the liveness check, and is left to
the proofs. No counter is
bounded in `Rekey`, `AgentServer` and `Commands`: their state spaces are finite by themselves (rekeys
and interruptions may repeat forever). Two names and two terminals at once are too large for `Commands`:
one run has the ones, one the others, and the proofs have both.

In `AgentSocket` two agents are one that has the socket and one that takes it; a third could only
queue behind them. Two bounds keep processes finite: a command that must start an agent when both are
alive starts one that dies at once (`Spawn`), and an orphan that holds nothing and talks to nobody is
forgotten (`Retire`). The reader and the stopper are the two kinds of command there are. For
`ServiceRecovers` the stopper is left out: it only disturbs, as a signal does, and the liveness check with
it, or with a second reader, is too large.
In `StoreTree` two terminals meet in one directory, one that makes it and one that removes it; one
directory is hidden, because walks treat it differently. The directories are three deep so that `rm -r` of
the middle one can fail in the one below it and has to clean up the one above it. Symmetry exchanges
terminals only.
In `Plaintext` the two texts a secret has between them have a block that ends in every way the parser
distinguishes (end of text, blank line, field, at once), a key that comes twice and in another case, and a line
outside of fields; `FieldsProofs` has all texts. The password, the key of a code and the code are three secrets
that two terminals copy, each between any two steps of the other's copy; a paste changes one of them (`MCSeen`).
One terminal also edits and generates (`Writers`). Two clearers are one that is late and one that is in time; `Spawn` waits when both
are busy. A terminal remembers one file that stays until its next command.

The agent's TTL of 3 and period of 2 are chosen so that a tick can fall just before, at, and
after the end of an entry's time; `elapsed` is bounded by the period because the reaper is
served before time goes on.

Deadlock is not checked where the system really stops: a store whose journal cannot be read
accepts no command, and an agent process ends.

Fairness. `Rekey`: a command that was started takes its next step (`WF(RekeyStep)`), and a user
who finds a rekey pending tries `--abort` again and again (`SF(HandleRekeyAbort)`, strong because
other commands of his own come in between); interruptions are assumed to stop. `AgentServer`:
weak fairness of each goroutine, which Go's scheduler gives, and of the reaper's tick; none of
clients or signals. `AgentSocket`: processes run (`WF` of each step of `Run`, `Shutdown` and a command),
what an orphan holds runs out of time, and readers keep beginning commands. Nothing makes agents start,
stop or die: `ServiceRecovers` says that the commands of one reader bring an agent into service for
good, or somebody disturbs them again and again; `Disturbed` lists by what, an agent that takes longer
to start than a command waits among it. `Plaintext`: a copy goes on (`WF(CopyStep)`) and the sleep of a clearer ends
(`WF(ClearStep)`); that a program fails is never forced, and a secret whose command or clearer has
failed is excepted by `exposed`. In `SecretLeaves` a clipboard that is written again and again counts
as left: each write is a new promise.

## Findings

Four disagreements have a run of their own, with expectation `violation`; `PROJECT.json` quotes the
documents.

1. An interruption while the journal is written blocks the store (`keyfile.go:513`). So does one
   between the two removals of `cleanupRekey` (`keyfile.go:569`): the journal outlives its backup.
2. `rekey -k k --passphrase` makes a store with a keyfile unreadable (`keyfile.go:227`).
3. Two concurrent shutdowns of the agent can panic (`server.go:117`).
4. `--abort` leaves passphrases of the other keyfile in the agent (`keyfile.go:385`).

Others show in the models as an exclusion or a weaker promise, stated where it is made:

* a rekey to a keyfile of zero bytes has the effect of 2 (`keyfile.go:50`; `Unopenable`);
* secrets under a dot directory are not re-encrypted (`store.go:263`; `Visible` of `AtomicRekey`);
* the agent can exit before it has zeroed its cache (`server.go:102`: `RunReturns` needs no
  `ClearCache`), and answers GETs after BYE until it has (`server.go:233`; `AgentCache` lets `Stop`
  come late);
* in mode r, insert, generate and cp cache the passphrase they asked for under the secret's name
  (`helpers.go:174`; `Notes`), where SECURITY.md:112 speaks of read operations only;
* a command already past its check writes in the middle of a rekey of another terminal
  (`helpers.go:27`): `StoreOpens` is claimed for one writing terminal.
* two agents that start together, or one that starts while another stops, may unlink each other's
  socket (`server.go:130`); the loser runs on as an orphan with its passphrases, and `agent stop` says
  that the agent is not running (`Orphan` of `AgentSocket`). `StopIsFinal` holds because no later command can
  reach it;
* a command that is under way when the agent is stopped may bring a passphrase back: it has read the fallback,
  starts a new agent and sets it there under the secret's path (`helpers.go:90`, and `:161` in mode rw), and a
  command that begins after the stop is served it. README.md:228 says that the stop clears all cached
  passphrases, which it does; `StopIsFinal` excludes what is set again (`"kept"` of `AgentSocket`). The flush after
  a rekey (`keyfile.go:573`) has the same hole; `Commands` has these steps too, and its `StoreOpens` survives in
  mode r because a command tries what it gets;
* `agent stop` prints that the agent has stopped when it has got BYE, before the socket is unlinked: a
  command that begins right then may still get an old passphrase (`StopWas` counts the stop as over
  only with the unlink);
* a clearer compares, then clears (`clipboard.go:60`): a text copied between the two is wiped, where
  README.md:204 says "only if its contents haven't been changed"; a second copy of the same text is
  cleared by the first one's timer (`LeftAlone`);
* an edit that a signal ends leaves its plaintext file (`edit.go:36`; `stray`), one whose file cannot
  be removed does so without a word (`tempfile.go:69`; `Remove`), and an editor that saves by
  renaming a new file into place leaves the old inode as it was (`Editor`);
* a command without `-f` replaces a secret that appears while it asks (`mv.go:27`; `changed`);
* secrets under a dot directory are not found by `find`, `grep` and completion either (`Shown`), and
  `ls` leaves out secrets whose own name begins with a dot, which the others find;
* a `mv` that fails leaves the directories made for its destination, and so does a write that fails for a
  reason of its own, such as a full disk or a name too long (`store.go:143` and `:198`; `left`);
  `NoEmptyDirs` is about the others;
* the entry of a passphrase under a secret's own path may be one that no secret ever had (`helpers.go:174`, when
  the write after it does not happen); `GlobalProven` is about the fallback, and about mode r.

In mode rw `StoreOpens` does not hold even for one terminal: a write takes a stale passphrase untried.

## Proofs

Assumptions: the named `ASSUME`s of the modules. They say that the values used for "no file",
"torn", "none", "nothing" are not members of the sets they stand beside, that hidden names are names
and writing terminals terminals, that the periods of the agent are positive, and that texts are
sequences of lines. Nothing is assumed finite.

**`RekeyProofs`.** `NothingLost` is not inductive: that a text is in the backup follows only from
where the rekey is. `IInv` (module `RekeyInvariant`) says it, phase by phase, in named parts:

* `LocalsInv`, `JournalInv`: which phases have a job, and when the journal is that job;
* `SavedInv`: the texts the user saved are in the snapshot taken when the journal was created;
* `BackupInv`, `PendingInv`: while a journal exists the backup equals that snapshot for the
  secrets it lists (until a cleanup eats it, when the store itself is whole), and the store
  differs from the snapshot on no other secret;
* `LoopInv`, `DoneInv`: what a loop has finished, and what holds once it is over;
* `MarkerInv`: the marker is the old keyfile, the intended one, or truncated, by phase.

`Invariance` proves `Spec => []IInv` with one lemma per group of actions. The five safety theorems
follow from it, and `BackupComesFirst`, an action property, from it and the actions.

`RekeyIsAtomic` proves `Spec => Atomic!Spec`. While the journal exists the
abstract store is the snapshot; `TruncateJournal` is `Begin`, the `RemoveJournal` of a rekey is
`Commit`, that of an abort `Rollback`, and the marker of a store without visible secrets `Reset`.
Everything else between them stutters.

**`AgentProofs`.** `AInv`, that is `TypeOK` and `EvictionBound` together, is inductive. The bound
needs no strengthening once it counts from the reaper's last tick: an entry put into the cache is
fresh (`PutBound`), time ages the entry and the tick alike (`TickStep`), and a tick leaves nothing
older than TTL (`ReapStep`). `TypeCorrect` also says which answer each kind of request can get.
Neither theorem assumes anything of TTL and period but that they are positive.

`AgentIsACache` proves `Spec => ImplementsAgentCache`, step by step. The abstract cache holds what a GET
would find (`Held`): an entry in memory that is not `Expired`. A connection's request is the abstract
`Request`, the critical section of a handler its `Serve` (`GetRefines` is the only one whose answer depends
on the cache), the write of the answer `Reply`, a tick of the clock `Age`, the `Clear` of a shutdown `Stop`.
The reaper stutters because whatever it evicts has expired already, and everything else stutters because it
touches neither cache nor answers.

**`CommandsProofs`.** `CInv` follows a passphrase through each command, in three layers that assume more
and more. `Well` gives the kind of every local variable by the command's place and assumes nothing (`Typed`).
`Sourced` says where a passphrase comes from before `Remember` may make it the fallback; it assumes `NoRw`, that no
command runs in mode rw, but any number of writing terminals (`FallbackIsProven`). `Guarded` says under which
keyfile a command writes, and how far a rekey has come; it assumes one writing terminal as well
(`OneKeyfile`), and with it goes `JournalKept`: a pending rekey has in its backup all it needs to be undone.
`StepInv` reduces every action to the state it leaves and the record of its own command; the others keep
theirs because keys are only added to `proven`, and because the store changes under one writer only. Both
assumptions are needed: without either, TLC finds `StoreOpens` violated.

**`AgentSocketProofs`.** `SInv` adds to `StopIsFinal` what it rests on. `EldersKnown`: while an agent can
be reached, any other is behind its probe or is an elder. `Unlinked`: from the first half of `Close` on an
agent has not got its socket. `StopProgress`: the watched stop has come so far that only the agent it
is connected to, then only the one it has told, then none with an old passphrase has the path; `Bind` gives it only to an
agent that holds nothing. `ServiceIsSafe`, an action property, follows from `EldersKnown` and the actions.

**`StoreTreeProofs`.** That secrets are not lost needs `Handles`: what each command has in its hands between two
calls (a `RemoveAll` only has entries below the directory it was given, never the root). `UnforcedKeeps`
survives the steps of others because they note what they make (`UnforcedInv`). The directories above an entry are
defined without recursion, as what every closed set has (`Above`).

**`StoreTreeEndProofs`.** `NoEmptyDirs` and `StableListed` speak of a moment when all, or one, have
ended; `EndInv` says what holds until then. `NoOrphans`: every empty directory is in `left`, or some command
`Minds` it, that is, will come to look at it (it is making it, or about to put something into it, or has
it before it on its way up). A command that ends early, by a signal or a failed call, answers for all it minds,
because that is among what it has `Touched` (`MindsTouched`, `FailsEnd`); an entry that `RemoveAll` passes over keeps the directory it is in
from being empty (`RemoveAllSkipsEnd`). `Holds`: the directory a command is at lies above what it was given, and what a
`RemoveAll` still has to remove is below directories it has read and still has to remove. `Walks`: a secret that nobody has touched since
a walk began, and that it should find and has not, is below something the walk still has to read. It
needs `Rooted`: `Parent` leads from every directory in the tree to the root, so that no directory is above
itself; only `MkdirDown` can threaten it. The lemmas on `Above` (`AboveTrans`, `AboveParent`, `NoLoop`, ...) take the
place of induction over the tree.

A first attempt at this proof failed for a good reason. An earlier model had `RemoveAll` report a failure
when anything below had failed; Go's returns the error of the last removal of the directory it was
given. A `rm -r` whose directory had gone after all then ended without a look at the directory above
it, which stayed empty; the instance had too few directories to show it.

**`PlaintextProofs`.** `ClearerKnows` passes from the command that has copied to the same command with a
fingerprint and to a clearer. `UserTextStays` is strengthened to `Quiet`: nobody, not even a command that
has yet to start a clearer, has the fingerprint of the user's text. Nothing is assumed of `Seen`.

**`FieldsProofs`.** `GetIsDocumented` says that for every text, of any length, and every key `Get` returns
what sympa's README.md promises; `FieldAsDocumented` follows. The library's induction theorems take a predicate
as a parameter, which no prover here can instantiate; `Downwards` is induction over a set instead,
from the well-foundedness of `<`. It is used twice for each of `Block` and `Parse`: their equations have a
solution (`BlockExists`, `ParseExists`), and the solution is what the format says, from the last line
up (`BlockSpec`, `ParseSpec`). `ParseSpec` speaks of the first field with each key, in what `Parse` returns from
line i on and in the text from line i on. The step at the head of a block is the one that could be
wrong: no line of the block is a field, and the line behind it is skipped only if it is none.

Only model-checked: liveness (`RecoveryTerminates`, `EveryRequestAnswered`, `ShutdownCompletes`,
`ServiceRecovers`, `SecretLeaves`), which is out of the prover's reach. Every other property that a passing
run checks is also a theorem.

## Not modelled

* Loss of unsynced writes at a power loss: interruptions keep the order of writes.
* Two rekeys at once with the texts of secrets (`Commands` has their steps, with keys only), and lost
  updates of concurrent edits, about which nothing is promised.
* `keyfile generate`, `keyfile verify` and `init` step by step: they change no secret, and what they
  read and write of a keyfile is its fingerprint.
* Name validation (`safePath`): names are clean, the code refuses others before it does anything. The
  empty name, which `safeDirPath` takes for the store itself (`store.go:299`), is left out with it: no
  command of `StoreTree` removes the root.
* Where a temporary file lies (tmpfs, RAM disk, disk) and the RAM disk of macOS; the programs behind
  the clipboard; HMAC and the clock of `totp`.
* The generators of shell completion, `git`, option parsing, hardening: no state the rest reads.

## Plan

1. `Keyfile`, `Rekey`, `AtomicRekey`, their proofs; `AgentServer`, `AgentCache`; `Commands` (done).
2. `AgentSocket`, `StoreTree`, `Fields`, `Plaintext`, their proofs (done).
3. Proofs: `CommandsProofs`, `AgentServer` implements `AgentCache`, `StoreTreeEndProofs`, `FieldsProofs` (done).
4. `RekeyRace`: two rekeys with texts; power loss with unsynced writes, as a variant of the
   interruption of `Rekey`.
