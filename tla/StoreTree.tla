----------------------------- MODULE StoreTree -----------------------------
(***************************************************************************)
(* The store as a tree of directories and secrets (store/store.go), and    *)
(* the commands of several terminals that write, move, remove and list     *)
(* secrets in it (commands/insert.go, edit.go, mv.go, rm.go, ls.go,        *)
(* find.go, complete.go).  Nothing locks the tree: each system call is one *)
(* step, and commands interleave between any two.                          *)
(*                                                                         *)
(* Names are clean and stay below the root (safePath, safeDirPath); no     *)
(* directory has a name that ends in ".age".  A system call may fail on    *)
(* account of what others have done, or for a reason of its own (a full    *)
(* disk, a name too long, permissions).  WriteFile is one step here (Rekey *)
(* has it in two), and the guards against a running rekey are those of     *)
(* Commands.                                                               *)
(***************************************************************************)
EXTENDS Naturals, FiniteSets

CONSTANTS
    Terminals,  \* each runs one command at a time
    Dirs,       \* the directories that may exist, with Root
    Names,      \* the secrets that may exist
    Root,       \* the directory of the store, which is never removed
    Parent,     \* the directory of each secret and of each other directory
    Hidden      \* the directories and secrets whose name begins with a dot

ASSUME TreeAssumption ==
    /\ Root \in Dirs /\ Dirs \cap Names = {}
    /\ Parent \in [Names \cup (Dirs \ {Root}) -> Dirs]
    /\ Hidden \subseteq (Names \cup Dirs) \ {Root}

VARIABLES
    dirs,     \* the directories that exist
    files,    \* the secrets that exist
    job,      \* the command of each terminal
    changed,  \* history: the secrets others have changed since it began
    left      \* history: directories that a command may have left empty which
              \* was interrupted, or had a call fail for a reason of its own

vars == <<dirs, files, job, changed, left>>

\* An entry and the directories it is in: what every set has that has the entry
\* and, with anything but Root, its directory.
Closed(S) == \A e \in S \ {Root} : Parent[e] \in S
Above == [e \in Names \cup Dirs |->
            {d \in Names \cup Dirs :
               \A S \in SUBSET (Names \cup Dirs) : e \in S /\ Closed(S) => d \in S}]

Exists(n) == n \in files
Entries(d) == {e \in files \cup (dirs \ {Root}) : Parent[e] = d}

Verbs == {"write", "mv", "rm", "rmdir", "find", "ls"}
Places == {"up", "down", "put", "unlink", "removeAll", "clean", "cleanRemove", "walk"}

Idle == [verb |-> "none"]

\* name is the secret or the directory of the command, to is where a secret
\* goes, dir is where MkdirAll or cleanEmptyDirs has got to, todo and seen are
\* what RemoveAll and the walks have still to visit and have read, found what a
\* walk has listed, and ok whether RemoveAll has removed the directory it was
\* given: it has no error then, whatever went wrong below.
Job(verb, at, name, to, force, dir, todo) ==
    [verb |-> verb, at |-> at, name |-> name, to |-> to, force |-> force,
     dir |-> dir, todo |-> todo, seen |-> {}, found |-> {}, ok |-> TRUE]

Jobs ==
    {Idle} \cup
    [verb : Verbs, at : Places, name : Names \cup Dirs, to : Names \cup Dirs,
     force : BOOLEAN, dir : Dirs, todo : SUBSET (Names \cup Dirs), seen : SUBSET Dirs,
     found : SUBSET Names, ok : BOOLEAN]

Init ==
    /\ dirs = {Root}
    /\ files = {}
    /\ job = [p \in Terminals |-> Idle]
    /\ changed = [p \in Terminals |-> {}]
    /\ left = {}

Running(p) == job[p] # Idle
At(p, place) == Running(p) /\ job[p].at = place

----------------------------------------------------------------------------
\* Commands begin.  What they check first is the guard: when it fails nothing
\* happens.  Then the user may take any time to answer a prompt.

Begin(p, new) ==
    /\ ~Running(p)
    /\ job' = [job EXCEPT ![p] = new]
    /\ UNCHANGED <<dirs, files, changed, left>>

\* "insert" and "generate", with -f or without, and "edit", which is like -f.
HandleInsert(p) ==
    \E n \in Names, force \in BOOLEAN :
        /\ Exists(n) => force
        /\ Begin(p, Job("write", "up", n, n, force, Parent[n], {}))

\* Mutant: nobody looks at the destination.
HandleMvBlind(p) ==
    \E n, to \in Names, force \in BOOLEAN :
        /\ Exists(n)
        /\ Begin(p, Job("mv", "up", n, to, force, Parent[to], {}))

HandleMv(p) ==
    \E n, to \in Names, force \in BOOLEAN :
        /\ Exists(n)
        /\ Exists(to) => force
        /\ Begin(p, Job("mv", "up", n, to, force, Parent[to], {}))

HandleRm(p) ==
    \E n \in Names :
        /\ Exists(n)
        /\ Begin(p, Job("rm", "unlink", n, n, FALSE, Parent[n], {}))

HandleRmRecursive(p) ==
    \E d \in dirs \ {Root} :
        Begin(p, Job("rmdir", "removeAll", d, d, FALSE, Parent[d], {d}))

\* "find", the completion of names, and every other use of AllSecrets.
HandleFind(p) == Begin(p, Job("find", "walk", Root, Root, FALSE, Root, {Root}))

HandleLs(p) ==
    \E d \in dirs : Begin(p, Job("ls", "walk", d, d, FALSE, d, {d}))

----------------------------------------------------------------------------
\* How they go on and end.

Now(p, place, d) == job' = [job EXCEPT ![p] = [job[p] EXCEPT !.at = place, !.dir = d]]

Ends(p) == job' = [job EXCEPT ![p] = Idle]

\* The secrets of N have been changed by p.
Changes(p, N) ==
    changed' = [q \in Terminals |->
                  IF q = p THEN IF job'[p] = Idle THEN {} ELSE changed[p]
                  ELSE IF Running(q) THEN changed[q] \cup N ELSE {}]

\* The directories p may leave behind.
Touched(p) ==
    {d \in dirs : \/ d \in Above[job[p].name] \cup Above[job[p].to]
                  \/ job[p].name \in Above[d]}

\* MkdirAll looks for a directory that exists, from the one it needs up ...
MkdirUp(p) ==
    /\ At(p, "up")
    /\ LET d == job[p].dir
       IN IF d \in dirs
          THEN Now(p, IF d = Parent[job[p].to] THEN "put" ELSE "down", d)
          ELSE Now(p, "up", Parent[d])
    /\ UNCHANGED <<dirs, files, changed, left>>

\* A system call fails for a reason of its own, and the command with it: the
\* directories it has made or emptied stay.
Fails(p) ==
    /\ Ends(p) /\ Changes(p, {})
    /\ left' = left \cup Touched(p)
    /\ UNCHANGED <<dirs, files>>

\* ... and makes those below it, which fails when somebody has removed it.
MkdirDown(p) ==
    /\ At(p, "down")
    /\ \E d \in (Above[job[p].to] \cap Dirs) \ {Root} :
         /\ Parent[d] = job[p].dir
         /\ IF job[p].dir \in dirs
            THEN /\ dirs' = dirs \cup {d}
                 /\ Now(p, IF d = Parent[job[p].to] THEN "put" ELSE "down", d)
            ELSE Ends(p) /\ UNCHANGED dirs
    /\ Changes(p, {})
    /\ UNCHANGED <<files, left>>

MkdirFails(p) == At(p, "down") /\ job[p].dir \in dirs /\ Fails(p)

\* A secret whose file cannot be opened is not written; one that is opened, and
\* then not written to the end, counts as changed.
WriteFile(p) ==
    /\ At(p, "put") /\ job[p].verb = "write"
    /\ LET n == job[p].name
           written == IF Parent[n] \in dirs THEN {n} ELSE {}
       IN \/ files' = files \cup written /\ Ends(p) /\ Changes(p, written)
             /\ UNCHANGED <<dirs, left>>
          \/ Parent[n] \in dirs /\ Fails(p)

Rename(p) ==
    /\ At(p, "put") /\ job[p].verb = "mv"
    /\ LET n == job[p].name
           to == job[p].to
       IN \/ /\ Exists(n) /\ Parent[to] \in dirs
             /\ files' = (files \ {n}) \cup {to}
             /\ Now(p, "clean", Parent[n]) /\ Changes(p, {n, to})
             /\ UNCHANGED <<dirs, left>>
          \/ Fails(p)

Unlink(p) ==
    /\ At(p, "unlink")
    /\ LET n == job[p].name
       IN \/ /\ files' = files \ {n}
             /\ IF Exists(n) THEN Now(p, "clean", Parent[n]) ELSE Ends(p)
          \/ Ends(p) /\ UNCHANGED files
    /\ Changes(p, files \ files')
    /\ UNCHANGED <<dirs, left>>

\* RemoveAll reads a directory, removes what it has read, and then the
\* directory itself; what others have put there meanwhile makes that fail.
RemoveAll(p) ==
    /\ At(p, "removeAll")
    /\ \E e \in job[p].todo :
         LET more == [job[p] EXCEPT !.todo = @ \cup Entries(e), !.seen = @ \cup {e}]
             done == [job[p] EXCEPT !.todo = @ \ {e}]
         IN \/ /\ e \in Names
               /\ files' = files \ {e}
               /\ job' = [job EXCEPT ![p] = done]
               /\ UNCHANGED dirs
            \/ /\ e \in Dirs \ job[p].seen
               /\ job' = [job EXCEPT ![p] = IF e \in dirs THEN more ELSE done]
               /\ UNCHANGED <<dirs, files>>
            \/ /\ e \in job[p].seen
               /\ \A f \in job[p].todo \ {e} : Parent[f] # e
               /\ dirs' = IF Entries(e) = {} THEN dirs \ {e} ELSE dirs
               /\ job' = [job EXCEPT ![p] =
                            [done EXCEPT !.ok = (e = job[p].name => Entries(e) = {})]]
               /\ UNCHANGED files
    /\ Changes(p, files \ files')
    /\ left' = left \cap dirs'

\* It passes over what it cannot remove.
RemoveAllSkips(p) ==
    /\ At(p, "removeAll")
    /\ \E e \in job[p].todo \cap (files \cup dirs) :
         /\ \A f \in job[p].todo \ {e} : Parent[f] # e
         /\ job' = [job EXCEPT ![p] =
                      [job[p] EXCEPT !.todo = @ \ {e}, !.ok = @ /\ e # job[p].name]]
         /\ left' = left \cup ({e} \cap dirs)
    /\ Changes(p, {})
    /\ UNCHANGED <<dirs, files>>

RemoveAllEnds(p) ==
    /\ At(p, "removeAll") /\ job[p].todo = {}
    /\ IF job[p].ok THEN Now(p, "clean", Parent[job[p].name]) ELSE Ends(p)
    /\ Changes(p, {})
    /\ UNCHANGED <<dirs, files, left>>

\* cleanEmptyDirs reads a directory ...
CleanRead(p) ==
    /\ At(p, "clean")
    /\ LET d == job[p].dir
       IN IF d # Root /\ d \in dirs /\ Entries(d) = {}
          THEN Now(p, "cleanRemove", d) ELSE Ends(p)
    /\ Changes(p, {})
    /\ UNCHANGED <<dirs, files, left>>

CleanReadFails(p) == At(p, "clean") /\ job[p].dir \in dirs \ {Root} /\ Fails(p)

\* Mutants: RemoveAll in the place of Remove; one directory is enough.
CleanRemoveAll(p) ==
    /\ At(p, "cleanRemove")
    /\ LET below == {e \in Dirs \cup Names : job[p].dir \in Above[e]}
       IN /\ dirs' = dirs \ below /\ files' = files \ below
          /\ Now(p, "clean", Parent[job[p].dir])
    /\ Changes(p, files \ files')
    /\ left' = left \cap dirs'

CleanRemoveOnce(p) ==
    /\ At(p, "cleanRemove")
    /\ dirs' = IF Entries(job[p].dir) = {} THEN dirs \ {job[p].dir} ELSE dirs
    /\ Ends(p) /\ Changes(p, {})
    /\ left' = left \cap dirs'
    /\ UNCHANGED files

\* ... and removes it, which fails, unnoticed, when it is no longer empty, or
\* for a reason of its own.
CleanRemove(p) ==
    /\ At(p, "cleanRemove")
    /\ LET d == job[p].dir
       IN /\ \/ /\ dirs' = IF Entries(d) = {} THEN dirs \ {d} ELSE dirs
                /\ left' = left \cap dirs'
             \/ dirs' = dirs /\ left' = left \cup ({d} \cap dirs)
          /\ Now(p, "clean", Parent[d])
    /\ UNCHANGED <<files, changed>>

\* Mutant: a store in ".sympa" is itself hidden.
WalkRootHidden(p) ==
    /\ At(p, "walk") /\ job[p].verb = "find"
    /\ \E e \in job[p].todo :
         IF e \in Names /\ Exists(e)
         THEN job' = [job EXCEPT ![p] = [job[p] EXCEPT !.todo = @ \ {e},
                                                     !.found = @ \cup {e}]]
         ELSE IF e \in dirs
         THEN job' = [job EXCEPT ![p] = [job[p] EXCEPT !.todo =
                        (@ \ {e}) \cup IF e \in Hidden \cup {Root} THEN {} ELSE Entries(e)]]
         ELSE Ends(p)
    /\ Changes(p, {})
    /\ UNCHANGED <<dirs, files, left>>

\* filepath.Walk visits what it has read, in an order that does not matter here.
\* It fails on what is gone, and does not enter hidden directories.
Walk(p) ==
    /\ At(p, "walk") /\ job[p].verb = "find"
    /\ \E e \in job[p].todo :
         IF e \in Names /\ Exists(e)
         THEN job' = [job EXCEPT ![p] = [job[p] EXCEPT !.todo = @ \ {e},
                                                     !.found = @ \cup {e}]]
         ELSE IF e \in dirs
         THEN job' = [job EXCEPT ![p] = [job[p] EXCEPT !.todo =
                        (@ \ {e}) \cup IF e \in Hidden THEN {} ELSE Entries(e)]]
         ELSE Ends(p)
    /\ Changes(p, {})
    /\ UNCHANGED <<dirs, files, left>>

\* printTree lists what it reads, hidden entries left out.
PrintTree(p) ==
    /\ At(p, "walk") /\ job[p].verb = "ls"
    /\ \E d \in job[p].todo :
         LET visible == Entries(d) \ Hidden
         IN IF d \in dirs
            THEN job' = [job EXCEPT ![p] = [job[p] EXCEPT
                           !.todo = (@ \ {d}) \cup (visible \cap Dirs),
                           !.found = @ \cup (visible \cap Names)]]
            ELSE Ends(p)
    /\ Changes(p, {})
    /\ UNCHANGED <<dirs, files, left>>

WalkEnds(p) ==
    /\ At(p, "walk") /\ job[p].todo = {}
    /\ Ends(p)
    /\ Changes(p, {})
    /\ UNCHANGED <<dirs, files, left>>

\* A signal.  (A walk that cannot read a directory ends like this, too.)
Interrupt(p) ==
    /\ Running(p)
    /\ IF job[p].verb \in {"find", "ls"}
       THEN Ends(p) /\ Changes(p, {}) /\ UNCHANGED <<dirs, files, left>>
       ELSE Fails(p)

Next ==
    \E p \in Terminals :
        \/ HandleInsert(p) \/ HandleMv(p) \/ HandleRm(p) \/ HandleRmRecursive(p)
        \/ HandleFind(p) \/ HandleLs(p)
        \/ MkdirUp(p) \/ MkdirDown(p) \/ MkdirFails(p)
        \/ WriteFile(p) \/ Rename(p) \/ Unlink(p)
        \/ RemoveAll(p) \/ RemoveAllSkips(p) \/ RemoveAllEnds(p)
        \/ CleanRead(p) \/ CleanReadFails(p) \/ CleanRemove(p)
        \/ Walk(p) \/ PrintTree(p) \/ WalkEnds(p) \/ Interrupt(p)

Spec == Init /\ [][Next]_vars

----------------------------------------------------------------------------
\* Properties.

\* What the other properties take for granted: every variable has a value of its
\* kind, and the file system keeps whatever exists in a directory that exists.
TypeOK ==
    /\ dirs \subseteq Dirs /\ Root \in dirs
    /\ files \subseteq Names
    /\ job \in [Terminals -> Jobs]
    /\ changed \in [Terminals -> SUBSET Names]
    /\ left \subseteq Dirs
    /\ \A e \in files \cup (dirs \ {Root}) : Parent[e] \in dirs

\* The command of p is about to move or remove the secret n.
Asked(p, n) ==
    \/ At(p, "put") /\ job[p].name = n /\ job[p].to \in files'
    \/ At(p, "unlink") /\ job[p].name = n
    \/ At(p, "removeAll") /\ job[p].name \in Above[n]

\* A secret only disappears in a command that was asked to remove it, or to move
\* it and has: never with a directory that was empty when cleanEmptyDirs looked
\* (store.go, cleanEmptyDirs, RemoveDir and Rename).
NothingElseLost ==
    [][\A n \in files \ files' :
         \E p \in Terminals : Asked(p, n) /\ job'[p] # job[p]]_vars

\* A command without -f only replaces a secret that another command has made
\* since it looked (commands/insert.go, handleInsert; mv.go, handleMv).
UnforcedKeeps ==
    \A p \in Terminals :
        Running(p) /\ job[p].verb \in {"write", "mv"} /\ ~job[p].force
          /\ job[p].at # "clean" /\ job[p].at # "cleanRemove" /\ Exists(job[p].to)
        => job[p].to \in changed[p]

\* When all commands are through, no directory is empty but those of a command
\* that was interrupted, or had a system call fail for a reason of its own (a move
\* that fails at all): whoever empties a directory last removes it, also when a
\* write or a MkdirAll has failed because others had removed what it needed
\* (store.go, cleanEmptyDirs, Write and Rename).
NoEmptyDirs ==
    (\A p \in Terminals : ~Running(p)) =>
        \A d \in dirs \ {Root} : Entries(d) = {} => d \in left

\* The secrets below d a walk is meant to show: only ls minds a hidden secret.
Shown(verb, d) ==
    {n \in Names : /\ d \in Above[n]
                   /\ Above[Parent[n]] \cap Hidden \subseteq Above[d]
                   /\ verb = "ls" => n \notin Hidden}

\* A walk that ends without an error has found every secret that nobody touched
\* meanwhile, and none that was not there, whatever else has changed in the tree
\* (store.go, AllSecrets, Find and List).
StableListed ==
    \A p \in Terminals :
        At(p, "walk") /\ job[p].todo = {} =>
          \A n \in Shown(job[p].verb, job[p].name) \ changed[p] :
              Exists(n) <=> n \in job[p].found

=============================================================================
