-------------------------- MODULE StoreTreeProofs --------------------------
(***************************************************************************)
(* Theorems about StoreTree, for any tree and any number of terminals.     *)
(*                                                                         *)
(* The safety of the tree rests on what each command holds in its hands    *)
(* between two system calls: a secret to write or to move, or directories  *)
(* that are not the root and below the one it was asked to remove.         *)
(***************************************************************************)
EXTENDS StoreTree, TLAPS

\* What the command of a terminal is about, by its place.
Handles(j) ==
    /\ j.at \in {"up", "down", "put"} => j.verb \in {"write", "mv"}
    /\ j.at = "unlink" => j.verb = "rm"
    /\ j.at \in {"clean", "cleanRemove"} => j.verb \in {"mv", "rm", "rmdir"}
    /\ j.verb \in {"write", "mv", "rm"} => j.name \in Names /\ j.to \in Names
    /\ j.at = "removeAll" => /\ j.verb = "rmdir"
                             /\ j.name \in Dirs \ {Root} /\ Root \notin j.todo
                             /\ \A e \in j.todo : j.name \in Above[e]
    /\ j.at = "cleanRemove" => j.dir # Root

TreeInv ==
    /\ TypeOK
    /\ \A p \in Terminals : Running(p) => Handles(job[p])
    /\ UnforcedKeeps

JobRecords ==
    [verb : Verbs, at : Places, name : Names \cup Dirs, to : Names \cup Dirs,
     force : BOOLEAN, dir : Dirs, todo : SUBSET (Names \cup Dirs), seen : SUBSET Dirs,
     found : SUBSET Names, ok : BOOLEAN]

----------------------------------------------------------------------------
\* Facts about the tree.

LEMMA IdleIsNone == \A j \in JobRecords : j # Idle
  BY DEF JobRecords, Idle, Verbs

LEMMA AboveSelf == \A e \in Names \cup Dirs : e \in Above[e]
  BY DEF Above

LEMMA AboveEntry ==
    ASSUME NEW e \in (Names \cup Dirs) \ {Root}, NEW d \in Above[Parent[e]]
    PROVE  d \in Above[e]
<1>1. Parent[e] \in Names \cup Dirs
  BY TreeAssumption
<1>2. d \in Names \cup Dirs
  BY <1>1 DEF Above
<1>3. ASSUME NEW S \in SUBSET (Names \cup Dirs), e \in S, Closed(S)
      PROVE  d \in S
  <2>1. Parent[e] \in S
    BY <1>3 DEF Closed
  <2> QED
    BY <1>1, <1>3, <2>1 DEF Above
<1> QED
  BY <1>2, <1>3 DEF Above

LEMMA JobIsRecord ==
    ASSUME TypeOK, NEW p \in Terminals, Running(p)
    PROVE  job[p] \in JobRecords
  BY DEF TypeOK, Running, Jobs, JobRecords

LEMMA InitInv == Init => TreeInv
<1> SUFFICES ASSUME Init PROVE TreeInv
  OBVIOUS
<1>1. TypeOK
  BY TreeAssumption DEF Init, TypeOK, Jobs
<1>2. \A p \in Terminals : ~Running(p)
  BY DEF Init, Running
<1> QED
  BY <1>1, <1>2 DEF TreeInv, UnforcedKeeps

----------------------------------------------------------------------------
\* What all steps of a command have in common: its own job changes, and what it
\* has changed is noted for the others.

Others(p, N) ==
    \A q \in Terminals \ {p} :
        /\ job'[q] = job[q]
        /\ Running(q) => changed'[q] = changed[q] \cup N

LEMMA ChangesInv ==
    ASSUME TreeInv, NEW p \in Terminals, NEW N \in SUBSET Names,
           NEW j \in Jobs, job' = [job EXCEPT ![p] = j], Changes(p, N)
    PROVE  changed' \in [Terminals -> SUBSET Names] /\ Others(p, N)
  BY DEF TreeInv, TypeOK, Changes, Others, Running

\* UnforcedKeeps is kept by a step that makes only secrets it notes, and leaves
\* its own job without a promise to break.
LEMMA UnforcedInv ==
    ASSUME TreeInv, NEW p \in Terminals, NEW N, Others(p, N),
           files' \subseteq files \cup N,
           job'[p] # Idle /\ job'[p].verb \in {"write", "mv"} /\ ~job'[p].force
             /\ job'[p].at \notin {"clean", "cleanRemove"} /\ job'[p].to \in files'
             => job'[p].to \in changed'[p]
    PROVE  UnforcedKeeps'
<1> SUFFICES ASSUME NEW q \in Terminals,
                    Running(q)', job'[q].verb \in {"write", "mv"}, ~job'[q].force,
                    job'[q].at # "clean", job'[q].at # "cleanRemove",
                    job'[q].to \in files'
             PROVE  job'[q].to \in changed'[q]
  BY DEF UnforcedKeeps, Exists
<1>1. CASE q = p
  BY <1>1 DEF Running
<1>2. CASE q # p
  BY <1>2 DEF TreeInv, UnforcedKeeps, Others, Running, Exists
<1> QED
  BY <1>1, <1>2

\* What a step of p must show: what it makes of the tree, and its next job.
LEMMA StepInv ==
    ASSUME TreeInv, NEW p \in Terminals, NEW N \in SUBSET Names, NEW j \in Jobs,
           job' = [job EXCEPT ![p] = j], j # Idle => Handles(j),
           changed' \in [Terminals -> SUBSET Names], Others(p, N),
           dirs' \subseteq Dirs, Root \in dirs', left' \subseteq Dirs,
           files' \subseteq Names, files' \subseteq files \cup N,
           \A e \in files' \cup (dirs' \ {Root}) : Parent[e] \in dirs',
           j # Idle /\ j.verb \in {"write", "mv"} /\ ~j.force
             /\ j.at \notin {"clean", "cleanRemove"} /\ j.to \in files'
             => j.to \in changed'[p]
    PROVE  TreeInv'
<1>1. job'[p] = j
  BY DEF TreeInv, TypeOK, Jobs, Others
<1>2. \A q \in Terminals \ {p} : job'[q] = job[q]
  BY DEF Others
<1>3. \A q \in Terminals : job'[q] \in Jobs
  BY <1>1, <1>2 DEF TreeInv, TypeOK
<1>4. TypeOK'
  BY <1>3 DEF TypeOK, TreeInv
<1>5. \A q \in Terminals : Running(q)' => Handles(job'[q])
  BY <1>1, <1>2 DEF TreeInv, Running
<1>6. UnforcedKeeps'
  BY <1>1, UnforcedInv
<1> QED
  BY <1>4, <1>5, <1>6 DEF TreeInv, Handles

LEMMA StutterInv == TreeInv /\ UNCHANGED vars => TreeInv'
<1> SUFFICES ASSUME TreeInv, UNCHANGED vars PROVE TreeInv'
  OBVIOUS
<1>1. TypeOK'
  BY DEF TreeInv, TypeOK, vars
<1>2. \A p \in Terminals : Running(p)' => Handles(job'[p])
  BY DEF TreeInv, Running, vars
<1>3. UnforcedKeeps'
  BY DEF TreeInv, UnforcedKeeps, Running, Exists, vars
<1> QED
  BY <1>1, <1>2, <1>3 DEF TreeInv, Handles

LEMMA NowMoves ==
    ASSUME TreeInv, NEW p \in Terminals, Running(p),
           NEW place \in Places, NEW d \in Dirs, Now(p, place, d)
    PROVE  \E j \in Jobs :
             /\ job' = [job EXCEPT ![p] = j]
             /\ j # Idle
             /\ j.at = place /\ j.dir = d /\ j.verb = job[p].verb
             /\ j.name = job[p].name /\ j.to = job[p].to
             /\ j.force = job[p].force /\ j.todo = job[p].todo
<1>1. PICK r \in JobRecords : r = job[p]
  BY JobIsRecord DEF TreeInv
<1>2. PICK j : j = [r EXCEPT !.at = place, !.dir = d]
  OBVIOUS
<1>3. j \in JobRecords
  BY <1>2 DEF JobRecords
<1>4. j \in Jobs /\ j # Idle
  BY <1>3, IdleIsNone DEF Jobs, JobRecords
<1>5. /\ j.at = place /\ j.dir = d /\ j.verb = r.verb /\ j.name = r.name
      /\ j.to = r.to /\ j.force = r.force /\ j.todo = r.todo
  BY <1>2 DEF JobRecords
<1>6. job' = [job EXCEPT ![p] = j]
  BY <1>1, <1>2, Zenon DEF Now
<1> QED
  BY <1>1, <1>4, <1>5, <1>6

\* The command goes on at another place, or ends, and leaves the tree alone.
LEMMA MovesOn ==
    ASSUME TreeInv, NEW p \in Terminals, Running(p),
           UNCHANGED <<dirs, files>>, left' \subseteq Dirs,
           Changes(p, {}) \/ UNCHANGED changed,
           \/ Ends(p)
           \/ \E place \in Places, d \in Dirs :
                 /\ Now(p, place, d)
                 /\ place \in {"down", "put"} => job[p].at \in {"up", "down"}
                 /\ place = "up" => job[p].at = "up"
                 /\ place \in {"clean", "cleanRemove"} =>
                      job[p].at \in {"unlink", "removeAll", "clean", "cleanRemove"}
                 /\ place \notin {"unlink", "removeAll", "walk"}
                 /\ place = "cleanRemove" => d # Root
    PROVE  TreeInv'
<1>1. \E j \in Jobs :
         /\ job' = [job EXCEPT ![p] = j]
         /\ j # Idle => Handles(j)
         /\ j # Idle /\ j.verb \in {"write", "mv"} /\ ~j.force
              /\ j.at \notin {"clean", "cleanRemove"} /\ j.to \in files
              => j.to \in changed[p]
  <2>1. CASE Ends(p)
    BY <2>1 DEF Ends, Jobs
  <2>2. CASE ~Ends(p)
    <3>1. PICK place \in Places, d \in Dirs :
                 /\ Now(p, place, d)
                 /\ place \in {"down", "put"} => job[p].at \in {"up", "down"}
                 /\ place = "up" => job[p].at = "up"
                 /\ place \in {"clean", "cleanRemove"} =>
                      job[p].at \in {"unlink", "removeAll", "clean", "cleanRemove"}
                 /\ place \notin {"unlink", "removeAll", "walk"}
                 /\ place = "cleanRemove" => d # Root
      BY <2>2
    <3>2. PICK j \in Jobs :
             /\ job' = [job EXCEPT ![p] = j]
             /\ j # Idle
             /\ j.at = place /\ j.dir = d /\ j.verb = job[p].verb
             /\ j.name = job[p].name /\ j.to = job[p].to
             /\ j.force = job[p].force /\ j.todo = job[p].todo
      BY <3>1, NowMoves
    <3>3. Handles(job[p])
      BY DEF TreeInv
    <3>4. Handles(j)
      BY <3>1, <3>2, <3>3 DEF Handles
    <3>5. j.verb \in {"write", "mv"} /\ ~j.force
            /\ j.at \notin {"clean", "cleanRemove"} /\ j.to \in files
            => j.to \in changed[p]
      BY <3>1, <3>2, <3>3 DEF TreeInv, UnforcedKeeps, Running, Exists, Handles, Places
    <3> QED
      BY <3>2, <3>4, <3>5
  <2> QED
    BY <2>1, <2>2
<1>2. PICK j \in Jobs :
         /\ job' = [job EXCEPT ![p] = j]
         /\ j # Idle => Handles(j)
         /\ j # Idle /\ j.verb \in {"write", "mv"} /\ ~j.force
              /\ j.at \notin {"clean", "cleanRemove"} /\ j.to \in files
              => j.to \in changed[p]
  BY <1>1
<1>3. changed' \in [Terminals -> SUBSET Names] /\ Others(p, {})
  <2>1. CASE Changes(p, {})
    BY <1>2, <2>1, ChangesInv
  <2>2. CASE UNCHANGED changed
    BY <1>2, <2>2 DEF TreeInv, TypeOK, Others
  <2> QED
    BY <2>1, <2>2
<1>4. j # Idle => changed'[p] = changed[p]
  BY <1>2 DEF Changes, TreeInv, TypeOK
<1> QED
  BY <1>2, <1>3, <1>4, StepInv DEF TreeInv, TypeOK

LEMMA FailsInv ==
    ASSUME TreeInv, NEW p \in Terminals, Running(p), Fails(p) PROVE TreeInv'
<1>1. Ends(p) /\ Changes(p, {}) /\ UNCHANGED <<dirs, files>>
  BY DEF Fails
<1>2. left' \subseteq Dirs
  BY DEF Fails, Touched, TreeInv, TypeOK
<1> QED
  BY <1>1, <1>2, MovesOn

LEMMA BeginInv ==
    ASSUME TreeInv, NEW p \in Terminals, NEW new \in JobRecords, Begin(p, new),
           Handles(new),
           new.verb \in {"write", "mv"} /\ ~new.force => ~Exists(new.to)
    PROVE  TreeInv'
<1>1. new \in Jobs
  BY DEF Jobs, JobRecords
<1>2. Others(p, {}) /\ changed' \in [Terminals -> SUBSET Names]
  BY DEF Begin, Others, TreeInv, TypeOK
<1> QED
  BY <1>1, <1>2, StepInv DEF Begin, TreeInv, TypeOK, Exists

----------------------------------------------------------------------------
\* The actions, one by one.

LEMMA BeginnersInv ==
    ASSUME TreeInv, NEW p \in Terminals,
           \/ HandleInsert(p) \/ HandleMv(p) \/ HandleRm(p) \/ HandleRmRecursive(p)
           \/ HandleFind(p) \/ HandleLs(p)
    PROVE  TreeInv'
<1>1. CASE HandleInsert(p)
  <2>1. PICK n \in Names, force \in BOOLEAN :
             /\ Exists(n) => force
             /\ Begin(p, Job("write", "up", n, n, force, Parent[n], {}))
    BY <1>1 DEF HandleInsert
  <2>2. Job("write", "up", n, n, force, Parent[n], {}) \in JobRecords
    BY TreeAssumption DEF Job, JobRecords, Verbs, Places
  <2>3. Handles(Job("write", "up", n, n, force, Parent[n], {}))
    BY DEF Job, Handles
  <2> QED
    BY <2>1, <2>2, <2>3, BeginInv DEF Job
<1>2. CASE HandleMv(p)
  <2>1. PICK n \in Names, to \in Names, force \in BOOLEAN :
             /\ Exists(to) => force
             /\ Begin(p, Job("mv", "up", n, to, force, Parent[to], {}))
    BY <1>2 DEF HandleMv
  <2>2. Job("mv", "up", n, to, force, Parent[to], {}) \in JobRecords
    BY TreeAssumption DEF Job, JobRecords, Verbs, Places
  <2>3. Handles(Job("mv", "up", n, to, force, Parent[to], {}))
    BY DEF Job, Handles
  <2> QED
    BY <2>1, <2>2, <2>3, BeginInv DEF Job
<1>3. CASE HandleRm(p)
  <2>1. PICK n \in Names : Begin(p, Job("rm", "unlink", n, n, FALSE, Parent[n], {}))
    BY <1>3 DEF HandleRm
  <2>2. Job("rm", "unlink", n, n, FALSE, Parent[n], {}) \in JobRecords
    BY TreeAssumption DEF Job, JobRecords, Verbs, Places
  <2>3. Handles(Job("rm", "unlink", n, n, FALSE, Parent[n], {}))
    BY DEF Job, Handles
  <2> QED
    BY <2>1, <2>2, <2>3, BeginInv DEF Job
<1>4. CASE HandleRmRecursive(p)
  <2>1. PICK d \in dirs \ {Root} :
             Begin(p, Job("rmdir", "removeAll", d, d, FALSE, Parent[d], {d}))
    BY <1>4 DEF HandleRmRecursive
  <2>2. d \in Dirs \ {Root}
    BY <2>1 DEF TreeInv, TypeOK
  <2>3. Job("rmdir", "removeAll", d, d, FALSE, Parent[d], {d}) \in JobRecords
    BY <2>2, TreeAssumption DEF Job, JobRecords, Verbs, Places
  <2>4. Handles(Job("rmdir", "removeAll", d, d, FALSE, Parent[d], {d}))
    BY <2>2, AboveSelf DEF Job, Handles
  <2> QED
    BY <2>1, <2>3, <2>4, BeginInv DEF Job
<1>5. CASE HandleFind(p)
  <2>1. Job("find", "walk", Root, Root, FALSE, Root, {Root}) \in JobRecords
    BY TreeAssumption DEF Job, JobRecords, Verbs, Places
  <2>2. Handles(Job("find", "walk", Root, Root, FALSE, Root, {Root}))
    BY DEF Job, Handles
  <2> QED
    BY <1>5, <2>1, <2>2, BeginInv DEF HandleFind, Job
<1>6. CASE HandleLs(p)
  <2>1. PICK d \in dirs : Begin(p, Job("ls", "walk", d, d, FALSE, d, {d}))
    BY <1>6 DEF HandleLs
  <2>2. Job("ls", "walk", d, d, FALSE, d, {d}) \in JobRecords
    BY <2>1, TreeAssumption DEF Job, JobRecords, Verbs, Places, TreeInv, TypeOK
  <2>3. Handles(Job("ls", "walk", d, d, FALSE, d, {d}))
    BY DEF Job, Handles
  <2> QED
    BY <2>1, <2>2, <2>3, BeginInv DEF Job
<1> QED
  BY <1>1, <1>2, <1>3, <1>4, <1>5, <1>6

LEMMA MoversInv ==
    ASSUME TreeInv, NEW p \in Terminals,
           \/ MkdirUp(p) \/ RemoveAllEnds(p) \/ CleanRead(p) \/ WalkEnds(p)
           \/ Interrupt(p) \/ MkdirFails(p) \/ CleanReadFails(p)
    PROVE  TreeInv'
<1>1. CASE MkdirUp(p)
  <2>1. Running(p) /\ job[p].at = "up" /\ job[p].dir \in Dirs /\ job[p].to \in Names
    BY <1>1, JobIsRecord DEF MkdirUp, At, TreeInv, JobRecords, Handles
  <2>2. left' \subseteq Dirs
    BY <1>1 DEF MkdirUp, TreeInv, TypeOK
  <2>3. CASE job[p].dir \in dirs
    BY <1>1, <2>1, <2>2, <2>3, MovesOn DEF MkdirUp, Places
  <2>4. CASE job[p].dir \notin dirs
    <3>1. Parent[job[p].dir] \in Dirs
      BY <2>1, <2>4, TreeAssumption DEF TreeInv, TypeOK
    <3> QED
      BY <1>1, <2>1, <2>2, <2>4, <3>1, MovesOn DEF MkdirUp, Places
  <2> QED
    BY <2>3, <2>4
<1>2. CASE RemoveAllEnds(p)
  <2>1. Running(p) /\ job[p].at = "removeAll" /\ Parent[job[p].name] \in Dirs
    BY <1>2, TreeAssumption DEF RemoveAllEnds, At, TreeInv, Handles
  <2> QED
    BY <1>2, <2>1, MovesOn DEF RemoveAllEnds, Places, TreeInv, TypeOK
<1>3. CASE CleanRead(p)
  <2>1. Running(p) /\ job[p].at = "clean" /\ job[p].dir \in Dirs
    BY <1>3, JobIsRecord DEF CleanRead, At, TreeInv, JobRecords
  <2> QED
    BY <1>3, <2>1, MovesOn DEF CleanRead, Places, TreeInv, TypeOK
<1>4. CASE WalkEnds(p)
  BY <1>4, MovesOn DEF WalkEnds, At, TreeInv, TypeOK
<1>5. CASE MkdirFails(p) \/ CleanReadFails(p)
  BY <1>5, FailsInv DEF MkdirFails, CleanReadFails, At
<1>6. CASE Interrupt(p)
  <2>1. CASE Ends(p) /\ Changes(p, {}) /\ UNCHANGED <<dirs, files, left>>
    BY <1>6, <2>1, MovesOn DEF Interrupt, TreeInv, TypeOK
  <2> QED
    BY <1>6, <2>1, FailsInv DEF Interrupt
<1> QED
  BY <1>1, <1>2, <1>3, <1>4, <1>5, <1>6

LEMMA MkdirDownInv ==
    ASSUME TreeInv, NEW p \in Terminals, MkdirDown(p) PROVE TreeInv'
<1>1. PICK d \in (Above[job[p].to] \cap Dirs) \ {Root} :
         /\ Parent[d] = job[p].dir
         /\ IF job[p].dir \in dirs
            THEN /\ dirs' = dirs \cup {d}
                 /\ Now(p, IF d = Parent[job[p].to] THEN "put" ELSE "down", d)
            ELSE Ends(p) /\ UNCHANGED dirs
  BY DEF MkdirDown
<1>2. /\ Running(p) /\ job[p].at = "down" /\ Changes(p, {})
      /\ UNCHANGED <<files, left>>
  BY DEF MkdirDown, At
<1>3. CASE job[p].dir \in dirs
  <2>1. PICK place \in {"put", "down"} : Now(p, place, d)
    BY <1>1, <1>3
  <2>2. PICK j \in Jobs :
             /\ job' = [job EXCEPT ![p] = j]
             /\ j # Idle
             /\ j.at = place /\ j.dir = d /\ j.verb = job[p].verb
             /\ j.name = job[p].name /\ j.to = job[p].to
             /\ j.force = job[p].force /\ j.todo = job[p].todo
    BY <1>2, <2>1, NowMoves DEF Places
  <2>3. Handles(job[p])
    BY <1>2 DEF TreeInv
  <2>4. Handles(j)
    BY <1>2, <2>2, <2>3 DEF Handles
  <2>5. changed' \in [Terminals -> SUBSET Names] /\ Others(p, {})
    BY <1>2, <2>2, ChangesInv
  <2>6. j.verb \in {"write", "mv"} /\ ~j.force /\ j.to \in files'
          => j.to \in changed'[p]
    BY <1>2, <2>2 DEF TreeInv, TypeOK, UnforcedKeeps, Exists, Changes
  <2>7. dirs' = dirs \cup {d} /\ Parent[d] \in dirs
    BY <1>1, <1>3
  <2>8. \A e \in files' \cup (dirs' \ {Root}) : Parent[e] \in dirs'
    BY <1>2, <2>7 DEF TreeInv, TypeOK
  <2> QED
    BY <1>2, <2>2, <2>4, <2>5, <2>6, <2>7, <2>8, StepInv DEF TreeInv, TypeOK
<1>4. CASE job[p].dir \notin dirs
  BY <1>1, <1>2, <1>4, MovesOn DEF TreeInv, TypeOK
<1> QED
  BY <1>3, <1>4

LEMMA WriteFileInv ==
    ASSUME TreeInv, NEW p \in Terminals, WriteFile(p) PROVE TreeInv'
<1>1. Running(p) /\ job[p].name \in Names
  BY DEF WriteFile, At, TreeInv, Handles
<1>2. ASSUME NEW N \in SUBSET Names, \A n \in N : Parent[n] \in dirs,
             files' = files \cup N, Ends(p), Changes(p, N), UNCHANGED <<dirs, left>>
      PROVE  TreeInv'
  <2>1. Idle \in Jobs
    BY DEF Jobs
  <2>2. changed' \in [Terminals -> SUBSET Names] /\ Others(p, N)
    BY <1>2, <2>1, ChangesInv DEF Ends
  <2>3. \A e \in files' \cup (dirs' \ {Root}) : Parent[e] \in dirs'
    BY <1>2 DEF TreeInv, TypeOK
  <2> QED
    BY <1>2, <2>1, <2>2, <2>3, StepInv DEF Ends, TreeInv, TypeOK
<1> QED
  BY <1>1, <1>2, FailsInv DEF WriteFile

LEMMA RenameInv ==
    ASSUME TreeInv, NEW p \in Terminals, Rename(p) PROVE TreeInv'
<1>1. /\ Running(p) /\ job[p].verb = "mv" /\ Handles(job[p])
      /\ job[p].name \in Names /\ job[p].to \in Names
  BY DEF Rename, At, TreeInv, Handles
<1>2. CASE ~Fails(p)
  <2>1. /\ Exists(job[p].name) /\ Parent[job[p].to] \in dirs
        /\ files' = (files \ {job[p].name}) \cup {job[p].to}
        /\ Now(p, "clean", Parent[job[p].name])
        /\ Changes(p, {job[p].name, job[p].to})
        /\ UNCHANGED <<dirs, left>>
    BY <1>2 DEF Rename
  <2>2. Parent[job[p].name] \in Dirs
    BY <1>1, TreeAssumption
  <2>3. PICK j \in Jobs :
             /\ job' = [job EXCEPT ![p] = j]
             /\ j # Idle /\ j.at = "clean" /\ j.verb = job[p].verb
             /\ j.name = job[p].name /\ j.to = job[p].to
    BY <1>1, <2>1, <2>2, NowMoves DEF Places
  <2>4. Handles(j)
    BY <1>1, <2>3 DEF Handles
  <2>5. changed' \in [Terminals -> SUBSET Names] /\ Others(p, {job[p].name, job[p].to})
    BY <1>1, <2>1, <2>3, ChangesInv
  <2>6. files' \subseteq Names
        /\ \A e \in files' \cup (dirs' \ {Root}) : Parent[e] \in dirs'
    BY <1>1, <2>1 DEF TreeInv, TypeOK
  <2> QED
    BY <1>1, <2>1, <2>3, <2>4, <2>5, <2>6, StepInv DEF TreeInv, TypeOK
<1> QED
  BY <1>1, <1>2, FailsInv

LEMMA UnlinkInv ==
    ASSUME TreeInv, NEW p \in Terminals, Unlink(p) PROVE TreeInv'
<1>1. /\ Running(p) /\ Handles(job[p]) /\ job[p].at = "unlink" /\ job[p].verb = "rm"
      /\ job[p].name \in Names /\ UNCHANGED <<dirs, left>>
      /\ files' \subseteq files /\ Changes(p, files \ files')
      /\ \/ Now(p, "clean", Parent[job[p].name])
         \/ Ends(p)
  BY DEF Unlink, At, TreeInv, Handles
<1>2. Parent[job[p].name] \in Dirs
  BY <1>1, TreeAssumption
<1>3. PICK j \in Jobs :
             /\ job' = [job EXCEPT ![p] = j]
             /\ j # Idle => /\ j.at = "clean" /\ j.verb = "rm"
                            /\ j.name = job[p].name /\ j.to = job[p].to
  <2>1. CASE Ends(p)
    BY <2>1 DEF Ends, Jobs
  <2>2. CASE Now(p, "clean", Parent[job[p].name])
    BY <1>1, <1>2, <2>2, NowMoves DEF Places
  <2> QED
    BY <1>1, <2>1, <2>2
<1>4. j # Idle => Handles(j)
  BY <1>1, <1>3 DEF Handles
<1>5. files \ files' \in SUBSET Names
  BY DEF TreeInv, TypeOK
<1>6. changed' \in [Terminals -> SUBSET Names] /\ Others(p, files \ files')
  BY <1>1, <1>3, <1>5, ChangesInv
<1> QED
  BY <1>1, <1>3, <1>4, <1>5, <1>6, StepInv DEF TreeInv, TypeOK

LEMMA CleanRemoveInv ==
    ASSUME TreeInv, NEW p \in Terminals, CleanRemove(p) PROVE TreeInv'
<1>1. /\ Running(p) /\ Handles(job[p]) /\ job[p].at = "cleanRemove"
      /\ job[p].dir \in Dirs \ {Root} /\ UNCHANGED <<files, changed>>
      /\ \/ dirs' = dirs
         \/ dirs' = dirs \ {job[p].dir} /\ Entries(job[p].dir) = {}
      /\ Now(p, "clean", Parent[job[p].dir]) /\ left' \subseteq left \cup dirs
  BY JobIsRecord DEF CleanRemove, At, TreeInv, Handles, JobRecords
<1>2. Parent[job[p].dir] \in Dirs
  BY <1>1, TreeAssumption
<1>3. PICK j \in Jobs :
             /\ job' = [job EXCEPT ![p] = j]
             /\ j # Idle /\ j.at = "clean" /\ j.verb = job[p].verb
             /\ j.name = job[p].name /\ j.to = job[p].to
  BY <1>1, <1>2, NowMoves DEF Places
<1>4. Handles(j)
  BY <1>1, <1>3 DEF Handles
<1>5. changed' \in [Terminals -> SUBSET Names] /\ Others(p, {})
  BY <1>1, <1>3 DEF Others, TreeInv, TypeOK
<1>6. \A e \in files' \cup (dirs' \ {Root}) : Parent[e] \in dirs'
  <2>1. CASE dirs' = dirs \ {job[p].dir} /\ Entries(job[p].dir) = {}
    BY <1>1, <2>1 DEF Entries, TreeInv, TypeOK
  <2>2. CASE dirs' = dirs
    BY <1>1, <2>2 DEF TreeInv, TypeOK
  <2> QED
    BY <1>1, <2>1, <2>2
<1> QED
  BY <1>1, <1>3, <1>4, <1>5, <1>6, StepInv DEF TreeInv, TypeOK

\* Whatever RemoveAll reads below the directory it removes is below it.
LEMMA EntriesBelow ==
    ASSUME TreeInv, NEW e \in Dirs, NEW d \in Above[e], NEW f \in Entries(e)
    PROVE  f \in (Names \cup Dirs) \ {Root} /\ d \in Above[f]
<1>1. f \in (Names \cup Dirs) \ {Root} /\ Parent[f] = e
  BY TreeAssumption DEF Entries, TreeInv, TypeOK
<1> QED
  BY <1>1, AboveEntry

\* The steps of RemoveAll, by the entry they take and the job they leave.
LEMMA RemoveAllSteps ==
    ASSUME TreeInv, NEW p \in Terminals, RemoveAll(p)
    PROVE  \E e \in job[p].todo, k \in JobRecords :
             /\ job' = [job EXCEPT ![p] = k]
             /\ k.at = "removeAll" /\ k.verb = "rmdir" /\ k.name = job[p].name
             /\ \/ /\ e \in Names /\ files' = files \ {e} /\ UNCHANGED dirs
                   /\ k.todo = job[p].todo \ {e} /\ k.seen = job[p].seen
                   /\ k.ok = job[p].ok
                \/ /\ e \in Dirs \ job[p].seen /\ UNCHANGED <<dirs, files>>
                   /\ k.ok = job[p].ok
                   /\ \/ /\ e \in dirs /\ k.todo = job[p].todo \cup Entries(e)
                         /\ k.seen = job[p].seen \cup {e}
                      \/ /\ e \notin dirs /\ k.todo = job[p].todo \ {e}
                         /\ k.seen = job[p].seen
                \/ /\ e \in Dirs /\ e \in job[p].seen /\ UNCHANGED files
                   /\ \A f \in job[p].todo \ {e} : Parent[f] # e
                   /\ dirs' = IF Entries(e) = {} THEN dirs \ {e} ELSE dirs
                   /\ k.todo = job[p].todo \ {e} /\ k.seen = job[p].seen
                   /\ k.ok <=> (e = job[p].name => Entries(e) = {})
<1>1. Running(p) /\ Handles(job[p]) /\ job[p].at = "removeAll"
  BY DEF RemoveAll, At, TreeInv
<1>2. PICK r \in JobRecords : r = job[p]
  BY <1>1, JobIsRecord DEF TreeInv
<1>3. r.at = "removeAll" /\ r.verb = "rmdir"
  BY <1>1, <1>2 DEF Handles
<1>4. PICK e \in job[p].todo : \E more, done :
        /\ more = [job[p] EXCEPT !.todo = @ \cup Entries(e), !.seen = @ \cup {e}]
        /\ done = [job[p] EXCEPT !.todo = @ \ {e}]
        /\ \/ /\ e \in Names
              /\ files' = files \ {e}
              /\ job' = [job EXCEPT ![p] = done]
              /\ UNCHANGED dirs
           \/ /\ e \in Dirs \ job[p].seen
              /\ job' = [job EXCEPT ![p] = IF e \in dirs THEN more ELSE done]
              /\ UNCHANGED <<dirs, files>>
           \/ /\ e \in job[p].seen
              /\ \A f \in job[p].todo \ {e} : Parent[f] # e
              /\ dirs' = IF Entries(e) = {} THEN dirs \ {e} ELSE dirs
              /\ job' = [job EXCEPT ![p] =
                           [done EXCEPT !.ok = (e = job[p].name => Entries(e) = {})]]
              /\ UNCHANGED files
  BY Zenon DEF RemoveAll
<1>5. PICK more, done :
        /\ more = [r EXCEPT !.todo = @ \cup Entries(e), !.seen = @ \cup {e}]
        /\ done = [r EXCEPT !.todo = @ \ {e}]
        /\ \/ /\ e \in Names
              /\ files' = files \ {e}
              /\ job' = [job EXCEPT ![p] = done]
              /\ UNCHANGED dirs
           \/ /\ e \in Dirs \ r.seen
              /\ job' = [job EXCEPT ![p] = IF e \in dirs THEN more ELSE done]
              /\ UNCHANGED <<dirs, files>>
           \/ /\ e \in r.seen
              /\ \A f \in r.todo \ {e} : Parent[f] # e
              /\ dirs' = IF Entries(e) = {} THEN dirs \ {e} ELSE dirs
              /\ job' = [job EXCEPT ![p] =
                           [done EXCEPT !.ok = (e = r.name => Entries(e) = {})]]
              /\ UNCHANGED files
  BY <1>2, <1>4, Zenon
<1>6. Entries(e) \subseteq Names \cup Dirs
  BY DEF Entries, TreeInv, TypeOK
<1>7. done \in JobRecords
  BY <1>5 DEF JobRecords
<1>8. /\ done.todo = job[p].todo \ {e} /\ done.at = "removeAll" /\ done.verb = "rmdir"
      /\ done.name = job[p].name /\ done.seen = job[p].seen /\ done.ok = job[p].ok
  BY <1>2, <1>3, <1>5 DEF JobRecords
<1>9. CASE /\ e \in Names
           /\ files' = files \ {e}
           /\ job' = [job EXCEPT ![p] = done]
           /\ UNCHANGED dirs
  BY <1>4, <1>7, <1>8, <1>9, Zenon
<1>10. CASE /\ e \in Dirs \ r.seen
            /\ job' = [job EXCEPT ![p] = IF e \in dirs THEN more ELSE done]
            /\ UNCHANGED <<dirs, files>>
  <2>0. e \in Dirs \ job[p].seen /\ UNCHANGED <<dirs, files>>
    BY <1>2, <1>10
  <2>1. CASE e \in dirs
    <3>1. more \in JobRecords
      BY <1>5, <1>6, <1>10 DEF JobRecords
    <3>2. /\ more.todo = job[p].todo \cup Entries(e)
          /\ more.seen = job[p].seen \cup {e} /\ more.ok = job[p].ok
          /\ more.at = "removeAll" /\ more.verb = "rmdir" /\ more.name = job[p].name
      BY <1>2, <1>3, <1>5 DEF JobRecords
    <3>3. job' = [job EXCEPT ![p] = more]
      BY <1>10, <2>1
    <3> QED
      BY <1>4, <2>0, <2>1, <3>1, <3>2, <3>3, Zenon
  <2>2. CASE e \notin dirs
    <3>1. job' = [job EXCEPT ![p] = done]
      BY <1>10, <2>2
    <3> QED
      BY <1>4, <1>7, <1>8, <2>0, <2>2, <3>1, Zenon
  <2> QED
    BY <2>1, <2>2
<1>11. CASE /\ e \in r.seen
            /\ \A f \in r.todo \ {e} : Parent[f] # e
            /\ dirs' = IF Entries(e) = {} THEN dirs \ {e} ELSE dirs
            /\ job' = [job EXCEPT ![p] =
                         [done EXCEPT !.ok = (e = r.name => Entries(e) = {})]]
            /\ UNCHANGED files
  <2>1. PICK k : k = [done EXCEPT !.ok = (e = r.name => Entries(e) = {})]
    OBVIOUS
  <2>2. k \in JobRecords
    BY <1>7, <2>1 DEF JobRecords
  <2>3. /\ k.todo = job[p].todo \ {e} /\ k.at = "removeAll" /\ k.verb = "rmdir"
        /\ k.name = job[p].name /\ k.seen = job[p].seen
        /\ k.ok <=> (e = job[p].name => Entries(e) = {})
    BY <1>2, <1>7, <1>8, <2>1 DEF JobRecords
  <2>4. job' = [job EXCEPT ![p] = k]
    BY <1>11, <2>1, Zenon
  <2>5. e \in Dirs
    BY <1>11 DEF JobRecords
  <2>6. e \in job[p].seen /\ \A f \in job[p].todo \ {e} : Parent[f] # e
    BY <1>2, <1>11
  <2> QED
    BY <1>4, <1>11, <2>2, <2>3, <2>4, <2>5, <2>6, Zenon
<1> QED
  BY <1>5, <1>9, <1>10, <1>11

LEMMA RemoveAllInv ==
    ASSUME TreeInv, NEW p \in Terminals, RemoveAll(p) PROVE TreeInv'
<1>1. /\ Running(p) /\ Handles(job[p]) /\ job[p].at = "removeAll"
      /\ Changes(p, files \ files') /\ left' = left \cap dirs'
  BY DEF RemoveAll, At, TreeInv
<1>2. PICK e \in job[p].todo, k \in JobRecords :
        /\ job' = [job EXCEPT ![p] = k]
        /\ k.at = "removeAll" /\ k.verb = "rmdir" /\ k.name = job[p].name
        /\ \/ k.todo \subseteq job[p].todo
           \/ e \in Dirs /\ k.todo = job[p].todo \cup Entries(e)
        /\ \/ e \in Names /\ files' = files \ {e} /\ UNCHANGED dirs
           \/ UNCHANGED <<dirs, files>>
           \/ /\ e \in Dirs /\ UNCHANGED files
              /\ dirs' = IF Entries(e) = {} THEN dirs \ {e} ELSE dirs
  BY RemoveAllSteps
<1>3. k \in Jobs /\ k # Idle
  BY IdleIsNone DEF Jobs, JobRecords
<1>4. k.name \in Dirs \ {Root} /\ e # Root /\ k.name \in Above[e]
  BY <1>1, <1>2 DEF Handles
<1>5. Root \notin k.todo /\ \A f \in k.todo : k.name \in Above[f]
  BY <1>1, <1>2, <1>4, EntriesBelow DEF Handles
<1>6. Handles(k)
  BY <1>2, <1>4, <1>5 DEF Handles
<1>7. files \ files' \in SUBSET Names
  BY DEF TreeInv, TypeOK
<1>8. changed' \in [Terminals -> SUBSET Names] /\ Others(p, files \ files')
  BY <1>1, <1>2, <1>3, <1>7, ChangesInv
<1>9. /\ dirs' \subseteq Dirs /\ Root \in dirs' /\ files' \subseteq files
      /\ \A f \in files' \cup (dirs' \ {Root}) : Parent[f] \in dirs'
  <2>1. CASE e \in Names /\ files' = files \ {e} /\ UNCHANGED dirs
    BY <2>1 DEF TreeInv, TypeOK
  <2>2. CASE UNCHANGED <<dirs, files>>
    BY <2>2 DEF TreeInv, TypeOK
  <2>3. CASE /\ e \in Dirs /\ UNCHANGED files
             /\ dirs' = dirs \ {e} /\ Entries(e) = {}
    BY <1>4, <2>3 DEF Entries, TreeInv, TypeOK
  <2> QED
    BY <1>2, <2>1, <2>2, <2>3
<1> QED
  BY <1>1, <1>2, <1>3, <1>6, <1>8, <1>9, StepInv DEF TreeInv, TypeOK

\* What it passes over, and the job that leaves.
LEMMA RemoveAllSkipped ==
    ASSUME TreeInv, NEW p \in Terminals, RemoveAllSkips(p)
    PROVE  \E e \in job[p].todo \cap (files \cup dirs), k \in JobRecords :
             /\ job' = [job EXCEPT ![p] = k]
             /\ k.at = "removeAll" /\ k.verb = "rmdir" /\ k.name = job[p].name
             /\ k.todo = job[p].todo \ {e} /\ k.seen = job[p].seen
             /\ k.ok <=> (job[p].ok /\ e # job[p].name)
             /\ \A f \in job[p].todo \ {e} : Parent[f] # e
             /\ left' = left \cup ({e} \cap dirs)
<1>1. Running(p) /\ Handles(job[p]) /\ job[p].at = "removeAll"
  BY DEF RemoveAllSkips, At, TreeInv
<1>2. PICK r \in JobRecords : r = job[p]
  BY <1>1, JobIsRecord DEF TreeInv
<1>3. r.at = "removeAll" /\ r.verb = "rmdir"
  BY <1>1, <1>2 DEF Handles
<1>4. PICK e \in r.todo \cap (files \cup dirs) :
        /\ \A f \in r.todo \ {e} : Parent[f] # e
        /\ job' = [job EXCEPT ![p] =
                     [r EXCEPT !.todo = r.todo \ {e}, !.ok = r.ok /\ e # r.name]]
        /\ left' = left \cup ({e} \cap dirs)
  BY <1>2, Zenon DEF RemoveAllSkips
<1>5. PICK k : k = [r EXCEPT !.todo = r.todo \ {e}, !.ok = r.ok /\ e # r.name]
  OBVIOUS
<1>6. k \in JobRecords
  BY <1>5 DEF JobRecords
<1>7. /\ k.at = "removeAll" /\ k.verb = "rmdir" /\ k.name = r.name
      /\ k.todo = r.todo \ {e} /\ k.seen = r.seen
      /\ k.ok <=> (r.ok /\ e # r.name)
  BY <1>3, <1>5 DEF JobRecords
<1>8. job' = [job EXCEPT ![p] = k]
  BY <1>4, <1>5, Zenon
<1>9. /\ e \in job[p].todo \cap (files \cup dirs)
      /\ \A f \in job[p].todo \ {e} : Parent[f] # e
      /\ left' = left \cup ({e} \cap dirs)
  BY <1>2, <1>4
<1>10. /\ k.at = "removeAll" /\ k.verb = "rmdir" /\ k.name = job[p].name
       /\ k.todo = job[p].todo \ {e} /\ k.seen = job[p].seen
       /\ k.ok <=> (job[p].ok /\ e # job[p].name)
  BY <1>2, <1>7
<1> QED
  BY <1>6, <1>8, <1>9, <1>10, Zenon

LEMMA RemoveAllSkipsInv ==
    ASSUME TreeInv, NEW p \in Terminals, RemoveAllSkips(p) PROVE TreeInv'
<1>1. /\ Running(p) /\ Handles(job[p]) /\ job[p].at = "removeAll"
      /\ Changes(p, {}) /\ UNCHANGED <<dirs, files>>
  BY DEF RemoveAllSkips, At, TreeInv
<1>2. PICK e \in job[p].todo \cap (files \cup dirs), k \in JobRecords :
        /\ job' = [job EXCEPT ![p] = k]
        /\ k.at = "removeAll" /\ k.verb = "rmdir" /\ k.name = job[p].name
        /\ k.todo \subseteq job[p].todo
        /\ left' = left \cup ({e} \cap dirs)
  BY RemoveAllSkipped
<1>3. k \in Jobs /\ k # Idle
  BY IdleIsNone DEF Jobs, JobRecords
<1>4. Handles(k)
  BY <1>1, <1>2 DEF Handles
<1>5. changed' \in [Terminals -> SUBSET Names] /\ Others(p, {})
  BY <1>1, <1>2, <1>3, ChangesInv
<1> QED
  BY <1>1, <1>2, <1>3, <1>4, <1>5, StepInv DEF TreeInv, TypeOK

\* The steps of a walk, by the entry they take and the job they leave.
LEMMA WalkSteps ==
    ASSUME TreeInv, NEW p \in Terminals, Walk(p) \/ PrintTree(p)
    PROVE  \/ Ends(p)
           \/ \E e \in job[p].todo, k \in JobRecords :
                /\ job' = [job EXCEPT ![p] = k]
                /\ k.at = "walk" /\ k.verb = job[p].verb /\ k.name = job[p].name
                /\ \/ /\ k.verb = "find" /\ e \in files
                      /\ k.todo = job[p].todo \ {e} /\ k.found = job[p].found \cup {e}
                   \/ /\ k.verb = "find" /\ e \in dirs /\ k.found = job[p].found
                      /\ k.todo = (job[p].todo \ {e})
                                    \cup IF e \in Hidden THEN {} ELSE Entries(e)
                   \/ /\ k.verb = "ls" /\ e \in dirs
                      /\ k.todo = (job[p].todo \ {e}) \cup ((Entries(e) \ Hidden) \cap Dirs)
                      /\ k.found = job[p].found \cup ((Entries(e) \ Hidden) \cap Names)
<1>1. Running(p) /\ job[p].at = "walk"
  BY DEF Walk, PrintTree, At
<1>2. PICK r \in JobRecords : r = job[p]
  BY <1>1, JobIsRecord DEF TreeInv
<1>3. r.todo \in SUBSET (Names \cup Dirs) /\ r.found \in SUBSET Names
  BY DEF JobRecords
<1>4. \A e : Entries(e) \subseteq Names \cup Dirs
  BY DEF Entries, TreeInv, TypeOK
<1>5. CASE Walk(p)
  <2>1. r.verb = "find"
    BY <1>2, <1>5 DEF Walk
  <2>2. PICK e \in r.todo :
           IF e \in Names /\ Exists(e)
           THEN job' = [job EXCEPT ![p] = [r EXCEPT !.todo = r.todo \ {e},
                                                   !.found = r.found \cup {e}]]
           ELSE IF e \in dirs
           THEN job' = [job EXCEPT ![p] = [r EXCEPT !.todo =
                  (r.todo \ {e}) \cup IF e \in Hidden THEN {} ELSE Entries(e)]]
           ELSE Ends(p)
    BY <1>2, <1>5, Zenon DEF Walk
  <2>3. CASE e \in Names /\ Exists(e)
    <3>1. r.todo \ {e} \in SUBSET (Names \cup Dirs)
      BY <1>3
    <3>2. r.found \cup {e} \in SUBSET Names
      BY <1>3, <2>3
    <3>3. job' = [job EXCEPT ![p] = [r EXCEPT !.todo = r.todo \ {e},
                                            !.found = r.found \cup {e}]]
      BY <2>2, <2>3
    <3>4. PICK k : k = [r EXCEPT !.todo = r.todo \ {e}, !.found = r.found \cup {e}]
      OBVIOUS
    <3>5. k \in JobRecords
      BY <3>1, <3>2, <3>4 DEF JobRecords
    <3>6. /\ k.at = "walk" /\ k.verb = job[p].verb /\ k.name = job[p].name
          /\ k.todo = job[p].todo \ {e} /\ k.found = job[p].found \cup {e}
      BY <1>1, <1>2, <3>4 DEF JobRecords
    <3>7. job' = [job EXCEPT ![p] = k]
      BY <3>3, <3>4, Zenon
    <3> QED
      BY <1>2, <2>1, <2>3, <3>5, <3>6, <3>7 DEF Exists
  <2>4. CASE ~(e \in Names /\ Exists(e)) /\ e \in dirs
    <3>1. (r.todo \ {e}) \cup (IF e \in Hidden THEN {} ELSE Entries(e))
            \in SUBSET (Names \cup Dirs)
      BY <1>3, <1>4
    <3>2. job' = [job EXCEPT ![p] = [r EXCEPT !.todo =
            (r.todo \ {e}) \cup IF e \in Hidden THEN {} ELSE Entries(e)]]
      BY <2>2, <2>4, Zenon
    <3>3. PICK k : k = [r EXCEPT !.todo =
                          (r.todo \ {e}) \cup IF e \in Hidden THEN {} ELSE Entries(e)]
      OBVIOUS
    <3>4. k \in JobRecords
      BY <3>1, <3>3 DEF JobRecords
    <3>5. /\ k.at = "walk" /\ k.verb = job[p].verb /\ k.name = job[p].name
          /\ k.todo = (job[p].todo \ {e}) \cup IF e \in Hidden THEN {} ELSE Entries(e)
          /\ k.found = job[p].found
      BY <1>1, <1>2, <3>3 DEF JobRecords
    <3>6. job' = [job EXCEPT ![p] = k]
      BY <3>2, <3>3, Zenon
    <3> QED
      BY <1>2, <2>1, <2>4, <3>4, <3>5, <3>6
  <2> QED
    BY <2>2, <2>3, <2>4
<1>6. CASE PrintTree(p)
  <2>1. r.verb = "ls"
    BY <1>2, <1>6 DEF PrintTree
  <2>2. PICK d \in r.todo :
           IF d \in dirs
           THEN job' = [job EXCEPT ![p] = [r EXCEPT
                  !.todo = (r.todo \ {d}) \cup ((Entries(d) \ Hidden) \cap Dirs),
                  !.found = r.found \cup ((Entries(d) \ Hidden) \cap Names)]]
           ELSE Ends(p)
    BY <1>2, <1>6, Zenon DEF PrintTree
  <2>3. CASE d \in dirs
    <3>1. (r.todo \ {d}) \cup ((Entries(d) \ Hidden) \cap Dirs) \in SUBSET (Names \cup Dirs)
      BY <1>3
    <3>2. r.found \cup ((Entries(d) \ Hidden) \cap Names) \in SUBSET Names
      BY <1>3
    <3>3. job' = [job EXCEPT ![p] = [r EXCEPT
            !.todo = (r.todo \ {d}) \cup ((Entries(d) \ Hidden) \cap Dirs),
            !.found = r.found \cup ((Entries(d) \ Hidden) \cap Names)]]
      BY <2>2, <2>3, Zenon
    <3>4. PICK k : k = [r EXCEPT
            !.todo = (r.todo \ {d}) \cup ((Entries(d) \ Hidden) \cap Dirs),
            !.found = r.found \cup ((Entries(d) \ Hidden) \cap Names)]
      OBVIOUS
    <3>5. k \in JobRecords
      BY <3>1, <3>2, <3>4 DEF JobRecords
    <3>6. /\ k.at = "walk" /\ k.verb = job[p].verb /\ k.name = job[p].name
          /\ k.todo = (job[p].todo \ {d}) \cup ((Entries(d) \ Hidden) \cap Dirs)
          /\ k.found = job[p].found \cup ((Entries(d) \ Hidden) \cap Names)
      BY <1>1, <1>2, <3>4 DEF JobRecords
    <3>7. job' = [job EXCEPT ![p] = k]
      BY <3>3, <3>4, Zenon
    <3> QED
      BY <1>2, <2>1, <2>3, <3>5, <3>6, <3>7
  <2> QED
    BY <2>2, <2>3
<1> QED
  BY <1>5, <1>6, Zenon

\* The walks only read, and a walk promises nothing.
LEMMA WalksInv ==
    ASSUME TreeInv, NEW p \in Terminals, Walk(p) \/ PrintTree(p)
    PROVE  TreeInv'
<1>1. /\ Running(p) /\ job[p].at = "walk" /\ job[p].verb \in {"find", "ls"}
      /\ Changes(p, {}) /\ UNCHANGED <<dirs, files, left>>
  BY DEF Walk, PrintTree, At
<1>2. PICK k \in Jobs :
         /\ job' = [job EXCEPT ![p] = k]
         /\ k # Idle => k.at = "walk" /\ k.verb \in {"find", "ls"}
  <2>1. CASE Ends(p)
    BY <2>1 DEF Ends, Jobs
  <2>2. CASE \E k \in JobRecords :
                /\ job' = [job EXCEPT ![p] = k]
                /\ k.at = "walk" /\ k.verb = job[p].verb
    BY <1>1, <2>2 DEF Jobs, JobRecords
  <2> QED
    BY <2>1, <2>2, WalkSteps
<1>3. k # Idle => Handles(k)
  BY <1>2 DEF Handles
<1>4. changed' \in [Terminals -> SUBSET Names] /\ Others(p, {})
  BY <1>1, <1>2, ChangesInv
<1> QED
  BY <1>1, <1>2, <1>3, <1>4, StepInv DEF TreeInv, TypeOK

----------------------------------------------------------------------------
\* The theorems.

LEMMA NextInv == TreeInv /\ [Next]_vars => TreeInv'
<1> SUFFICES ASSUME TreeInv, Next PROVE TreeInv'
  BY StutterInv
<1>1. PICK p \in Terminals :
        \/ HandleInsert(p) \/ HandleMv(p) \/ HandleRm(p) \/ HandleRmRecursive(p)
        \/ HandleFind(p) \/ HandleLs(p)
        \/ MkdirUp(p) \/ MkdirDown(p) \/ MkdirFails(p)
        \/ WriteFile(p) \/ Rename(p) \/ Unlink(p)
        \/ RemoveAll(p) \/ RemoveAllSkips(p) \/ RemoveAllEnds(p)
        \/ CleanRead(p) \/ CleanReadFails(p) \/ CleanRemove(p)
        \/ Walk(p) \/ PrintTree(p) \/ WalkEnds(p) \/ Interrupt(p)
  BY DEF Next
<1> QED
  BY <1>1, BeginnersInv, MoversInv, MkdirDownInv, WriteFileInv, RenameInv,
     UnlinkInv, RemoveAllInv, RemoveAllSkipsInv, CleanRemoveInv, WalksInv

\* What each command holds in its hands between two system calls stays what it was
\* asked to work on, whatever the others do (store.go).
THEOREM TreeIsSafe == Spec => []TreeInv
BY InitInv, NextInv, PTL DEF Spec

\* A command without -f only replaces what another has made since it looked.
THEOREM UnforcedIsKept == Spec => []UnforcedKeeps
<1>1. TreeInv => UnforcedKeeps
  BY DEF TreeInv
<1> QED
  BY <1>1, TreeIsSafe, PTL

\* A step that removes a secret is a step of a command that was asked to.
LEMMA StepLosesNothing ==
    ASSUME TreeInv, TreeInv', [Next]_vars, NEW n \in files \ files'
    PROVE  \E p \in Terminals : Asked(p, n) /\ job'[p] # job[p]
<1>1. PICK p \in Terminals : Rename(p) \/ Unlink(p) \/ RemoveAll(p)
  <2>1. CASE UNCHANGED vars
    BY <2>1 DEF vars
  <2>2. ASSUME NEW p \in Terminals,
               ~(Rename(p) \/ Unlink(p) \/ RemoveAll(p)),
               \/ HandleInsert(p) \/ HandleMv(p) \/ HandleRm(p) \/ HandleRmRecursive(p)
               \/ HandleFind(p) \/ HandleLs(p)
               \/ MkdirUp(p) \/ MkdirDown(p) \/ MkdirFails(p) \/ WriteFile(p)
               \/ RemoveAllSkips(p) \/ RemoveAllEnds(p)
               \/ CleanRead(p) \/ CleanReadFails(p) \/ CleanRemove(p)
               \/ Walk(p) \/ PrintTree(p) \/ WalkEnds(p) \/ Interrupt(p)
        PROVE  FALSE
    BY <2>2, Zenon
    DEF HandleInsert, HandleMv, HandleRm, HandleRmRecursive, HandleFind, HandleLs,
       Begin, MkdirUp, MkdirDown, MkdirFails, WriteFile, RemoveAllSkips,
       RemoveAllEnds, CleanRead, CleanReadFails, Fails, CleanRemove, Walk, PrintTree, WalkEnds, Interrupt
  <2> QED
    BY <2>1, <2>2 DEF Next
<1>2. CASE Rename(p)
  <2>1. /\ At(p, "put") /\ n = job[p].name /\ job[p].to \in files'
        /\ Now(p, "clean", Parent[n])
    BY <1>2 DEF Rename, Fails
  <2>2. Running(p) /\ Parent[n] \in Dirs
    BY <2>1, TreeAssumption DEF At, TreeInv, TypeOK
  <2>3. job'[p].at = "clean" /\ job[p].at = "put"
    BY <2>1, <2>2, NowMoves DEF At, Places, TreeInv, TypeOK
  <2> QED
    BY <2>1, <2>3 DEF Asked
<1>3. CASE Unlink(p)
  <2>1. /\ At(p, "unlink") /\ n = job[p].name /\ Now(p, "clean", Parent[n])
    BY <1>3 DEF Unlink, Exists
  <2>2. Running(p) /\ Parent[n] \in Dirs
    BY <2>1, TreeAssumption DEF At, TreeInv, TypeOK
  <2>3. job'[p].at = "clean" /\ job[p].at = "unlink"
    BY <2>1, <2>2, NowMoves DEF At, Places, TreeInv, TypeOK
  <2> QED
    BY <2>1, <2>3 DEF Asked
<1>4. CASE RemoveAll(p)
  <2>1. At(p, "removeAll") /\ Handles(job[p]) /\ job[p].at = "removeAll"
    BY <1>4 DEF RemoveAll, At, TreeInv
  <2>2. n \in job[p].todo /\ job'[p].todo = job[p].todo \ {n}
    BY <1>4, RemoveAllSteps DEF TreeInv, TypeOK
  <2>3. job[p].name \in Above[n]
    BY <2>1, <2>2 DEF Handles
  <2> QED
    BY <2>1, <2>2, <2>3 DEF Asked
<1> QED
  BY <1>1, <1>2, <1>3, <1>4

\* No secret is lost with a directory that was empty when somebody looked.
THEOREM NothingElseIsLost == Spec => NothingElseLost
<1>1. TreeInv /\ TreeInv' /\ [Next]_vars =>
        [\A n \in files \ files' :
           \E p \in Terminals : Asked(p, n) /\ job'[p] # job[p]]_vars
  BY StepLosesNothing
<1> QED
  BY <1>1, TreeIsSafe, PTL DEF Spec, NothingElseLost

=============================================================================
