------------------------- MODULE StoreTreeEndProofs -------------------------
(***************************************************************************)
(* Theorems about what the commands of StoreTree have done when they end:  *)
(* no directory is left empty, and a walk has found what was there all the *)
(* time.  Both need to know what is still to come of the commands that     *)
(* run: each empty directory is one that some command will look at again,  *)
(* and each secret a walk has not found is below something it has not yet  *)
(* visited.                                                                *)
(***************************************************************************)
EXTENDS StoreTreeProofs

\* Where a command has got to, relative to what it was asked to do.
Holds(j) ==
    /\ j.at \in {"up", "down"} => j.dir \in Above[j.to]
    /\ j.at = "put" => j.dir = Parent[j.to]
    /\ j.verb = "write" => j.to = j.name
    /\ j.at \in {"clean", "cleanRemove"} => j.dir \in Above[j.name]
    /\ j.at = "removeAll" =>
         \A e \in j.todo \ {j.name} : Parent[e] \in j.todo \cap j.seen

\* The command will still fill the directory d, or try to remove it.
Minds(j, d) ==
    /\ j # Idle
    /\ \/ j.at \in {"down", "put", "clean", "cleanRemove"} /\ d = j.dir
       \/ j.at = "removeAll" /\ d \in j.todo
       \/ j.at = "removeAll" /\ j.ok /\ d = Parent[j.name]

\* A walk has found, of the secrets of F not in C, all but those below what it
\* has still to visit, and no other.
Walks(j, C, F) ==
    j.at = "walk" =>
      /\ j.verb \in {"find", "ls"}
      /\ j.verb = "find" => j.name = Root
      /\ j.verb = "ls" => j.todo \subseteq Dirs
      /\ \A e \in j.todo : j.name \in Above[e]
      /\ \A n \in Shown(j.verb, j.name) \ C :
           /\ n \in j.found => n \in F
           /\ n \in F => n \in j.found \/ \E e \in j.todo : e \in Above[n]

\* Every directory is below the root: none is below itself.
Rooted == \A d \in dirs : Root \in Above[d]

NoOrphans ==
    \A d \in dirs \ {Root} :
        Entries(d) = {} => d \in left \/ \E p \in Terminals : Minds(job[p], d)

EndInv ==
    /\ TreeInv
    /\ Rooted
    /\ \A p \in Terminals :
          Running(p) => Holds(job[p]) /\ Walks(job[p], changed[p], files)
    /\ NoOrphans

----------------------------------------------------------------------------
\* What is above what.

LEMMA ParentIsDir == \A e \in (Names \cup Dirs) \ {Root} : Parent[e] \in Dirs
BY TreeAssumption

LEMMA AboveIn == \A n \in Names \cup Dirs : Above[n] \subseteq Names \cup Dirs
BY DEF Above

\* Above[n] is closed, and is in every closed set that has n.
LEMMA AboveClosed ==
    ASSUME NEW n \in Names \cup Dirs, NEW d \in Above[n], d # Root
    PROVE  Parent[d] \in Above[n]
<1>1. d \in Names \cup Dirs /\ Parent[d] \in Names \cup Dirs
  BY AboveIn, ParentIsDir
<1>2. ASSUME NEW S \in SUBSET (Names \cup Dirs), n \in S, Closed(S)
      PROVE  Parent[d] \in S
  BY <1>2 DEF Above, Closed
<1> QED
  BY <1>1, <1>2 DEF Above

LEMMA AboveLeast ==
    ASSUME NEW n \in Names \cup Dirs, NEW S \in SUBSET (Names \cup Dirs), n \in S,
           \A e \in S \ {Root} : Parent[e] \in S
    PROVE  Above[n] \subseteq S
BY DEF Above, Closed

LEMMA AboveTrans ==
    ASSUME NEW n \in Names \cup Dirs, NEW d \in Above[n]
    PROVE  Above[d] \subseteq Above[n]
<1>1. Above[n] \in SUBSET (Names \cup Dirs) /\ d \in Names \cup Dirs
  BY AboveIn
<1>2. \A e \in Above[n] \ {Root} : Parent[e] \in Above[n]
  BY AboveClosed
<1> QED
  BY <1>1, <1>2, AboveLeast

LEMMA AboveRoot == Above[Root] = {Root}
<1>1. Root \in Names \cup Dirs /\ Root \in Above[Root]
  BY TreeAssumption, AboveSelf
<1>2. Above[Root] \subseteq {Root}
  BY <1>1, AboveLeast
<1> QED
  BY <1>1, <1>2

\* What is above an entry is the entry, or above its directory.
LEMMA AboveParent ==
    ASSUME NEW e \in (Names \cup Dirs) \ {Root}, NEW d \in Above[e], d # e
    PROVE  d \in Above[Parent[e]]
<1> DEFINE S == {e} \cup Above[Parent[e]]
<1>1. Parent[e] \in Dirs /\ Parent[e] \in Above[Parent[e]]
  BY ParentIsDir, AboveSelf
<1>2. S \in SUBSET (Names \cup Dirs)
  BY <1>1, AboveIn
<1>3. \A x \in S \ {Root} : Parent[x] \in S
  BY <1>1, AboveClosed
<1>4. Above[e] \subseteq S
  <2> HIDE DEF S
  <2>1. e \in S
    BY DEF S
  <2> QED
    BY <1>2, <1>3, <2>1, AboveLeast
<1> QED
  BY <1>4

\* Only directories are above a secret.
LEMMA AboveName ==
    ASSUME NEW n \in Names
    PROVE  Above[n] \subseteq {n} \cup Dirs
<1>1. \A x \in ({n} \cup Dirs) \ {Root} : Parent[x] \in {n} \cup Dirs
  BY ParentIsDir
<1>2. {n} \cup Dirs \in SUBSET (Names \cup Dirs)
  OBVIOUS
<1> QED
  BY <1>1, <1>2, AboveLeast

\* On the way down from d to something below it there is an entry of d.
LEMMA ChildAbove ==
    ASSUME NEW n \in Names \cup Dirs, NEW d \in Above[n], d # n
    PROVE  \E c \in Above[n] \ {Root} : Parent[c] = d
<1> SUFFICES ASSUME \A c \in Above[n] \ {Root} : Parent[c] # d PROVE FALSE
  OBVIOUS
<1> DEFINE S == Above[n] \ {d}
<1>1. S \in SUBSET (Names \cup Dirs) /\ n \in S
  BY AboveIn, AboveSelf
<1>2. \A x \in S \ {Root} : Parent[x] \in S
  BY AboveClosed
<1>3. Above[n] \subseteq S
  <2> HIDE DEF S
  <2> QED
    BY <1>1, <1>2, AboveLeast
<1> QED
  BY <1>3

\* What is below the root is not below itself.
LEMMA NoLoop ==
    ASSUME NEW c \in Dirs \ {Root}, Root \in Above[c]
    PROVE  c \notin Above[Parent[c]]
<1> SUFFICES ASSUME c \in Above[Parent[c]] PROVE FALSE
  OBVIOUS
<1> DEFINE S == {x \in Above[c] : c \in Above[x]}
<1>1. S \in SUBSET (Names \cup Dirs) /\ c \in S
  BY AboveIn, AboveSelf
<1>2. ASSUME NEW x \in S \ {Root} PROVE Parent[x] \in S
  <2>1. x \in (Names \cup Dirs) \ {Root} /\ Parent[x] \in Above[c]
    BY <1>2, AboveIn, AboveClosed
  <2>2. c \in Above[Parent[x]]
    BY <1>2, <2>1, AboveParent
  <2> QED
    BY <2>1, <2>2
<1>3. Above[c] \subseteq S
  <2> HIDE DEF S
  <2> QED
    BY <1>1, <1>2, AboveLeast
<1>4. c \in Above[Root]
  BY <1>3
<1> QED
  BY <1>4, AboveRoot

\* The directories above a secret that exists exist.
LEMMA AboveExists ==
    ASSUME TypeOK, NEW n \in files
    PROVE  Above[n] \subseteq {n} \cup dirs
<1>1. {n} \cup dirs \in SUBSET (Names \cup Dirs)
  BY DEF TypeOK
<1>2. \A x \in ({n} \cup dirs) \ {Root} : Parent[x] \in {n} \cup dirs
  BY DEF TypeOK
<1> QED
  BY <1>1, <1>2, AboveLeast

----------------------------------------------------------------------------
\* What all steps have in common.

LEMMA EndInit == Init => EndInv
<1> SUFFICES ASSUME Init PROVE EndInv
  OBVIOUS
<1>1. \A p \in Terminals : ~Running(p)
  BY DEF Init, Running
<1>2. Rooted
  BY AboveSelf, TreeAssumption DEF Init, Rooted
<1> QED
  BY <1>1, <1>2, InitInv DEF Init, EndInv, NoOrphans

LEMMA EndStutter == EndInv /\ UNCHANGED vars => EndInv'
<1> SUFFICES ASSUME EndInv, UNCHANGED vars PROVE EndInv'
  OBVIOUS
<1>1. TreeInv'
  BY StutterInv DEF EndInv
<1>2. Rooted'
  BY DEF EndInv, Rooted, vars
<1>3. \A p \in Terminals :
         Running(p)' => Holds(job'[p]) /\ Walks(job'[p], changed'[p], files')
  BY DEF EndInv, Running, vars
<1>4. NoOrphans'
  BY DEF EndInv, NoOrphans, Entries, vars
<1> QED
  BY <1>1, <1>2, <1>3, <1>4 DEF EndInv, Holds, Walks

\* A walk does not mind what others do to the secrets of N, once they are noted.
LEMMA WalksKept ==
    ASSUME NEW j, NEW C, NEW F, NEW N, NEW G, Walks(j, C, F),
           F \ G \subseteq N, G \ F \subseteq N
    PROVE  Walks(j, C \cup N, G)
BY DEF Walks

\* What a step of p must show: its next job, and that it answers for each
\* directory that becomes empty, or that it no longer minds.
LEMMA EndStep ==
    ASSUME EndInv, TreeInv', NEW p \in Terminals, NEW k \in Jobs, NEW N,
           job' = [job EXCEPT ![p] = k], Others(p, N),
           files \ files' \subseteq N, files' \ files \subseteq N,
           left \cap dirs' \subseteq left',
           \A d \in dirs' \ dirs : d # Root /\ Parent[d] \in dirs,
           k # Idle => Holds(k) /\ Walks(k, changed'[p], files'),
           \A d \in dirs' \ {Root} : Entries(d)' = {} =>
              \/ d \in left' \/ Minds(k, d)
              \/ d \in dirs /\ Entries(d) = {} /\ ~Minds(job[p], d)
    PROVE  EndInv'
<1>1. job'[p] = k /\ \A q \in Terminals \ {p} : job'[q] = job[q]
  BY DEF EndInv, TreeInv, TypeOK
<1>2. Rooted'
  <2> SUFFICES ASSUME NEW d \in dirs' PROVE Root \in Above[d]
    BY DEF Rooted
  <2>1. CASE d \in dirs
    BY <2>1 DEF EndInv, Rooted
  <2>2. CASE d \notin dirs
    <3>1. d \in Dirs \ {Root} /\ Root \in Above[Parent[d]]
      BY <2>2 DEF EndInv, Rooted, TreeInv, TypeOK
    <3> QED
      BY <3>1, AboveEntry
  <2> QED
    BY <2>1, <2>2
<1>3. ASSUME NEW q \in Terminals, job'[q] # Idle
      PROVE  Holds(job'[q]) /\ Walks(job'[q], changed'[q], files')
  <2>1. CASE q = p
    BY <1>1, <1>3, <2>1
  <2>2. CASE q # p
    <3>1. job'[q] = job[q] /\ Running(q) /\ changed'[q] = changed[q] \cup N
      BY <1>1, <1>3, <2>2 DEF Others, Running
    <3>2. Holds(job[q]) /\ Walks(job[q], changed[q], files)
      BY <3>1 DEF EndInv
    <3>3. Walks(job[q], changed[q] \cup N, files')
      BY <3>2, WalksKept, Zenon
    <3> QED
      BY <3>1, <3>2, <3>3, Zenon
  <2> QED
    BY <2>1, <2>2
<1>4. NoOrphans'
  <2> SUFFICES ASSUME NEW d \in dirs' \ {Root}, Entries(d)' = {}
               PROVE  d \in left' \/ \E q \in Terminals : Minds(job'[q], d)
    BY DEF NoOrphans, Minds
  <2>1. CASE d \in left' \/ Minds(k, d)
    BY <1>1, <2>1
  <2>2. CASE d \in dirs /\ Entries(d) = {} /\ ~Minds(job[p], d)
    <3>1. d \in left \/ \E q \in Terminals : Minds(job[q], d)
      BY <2>2 DEF EndInv, NoOrphans
    <3>2. CASE d \in left
      BY <3>2
    <3>3. ASSUME NEW q \in Terminals, Minds(job[q], d)
          PROVE  Minds(job'[q], d)
      BY <1>1, <2>2, <3>3
    <3> QED
      BY <3>1, <3>2, <3>3
  <2> QED
    BY <2>1, <2>2
<1> QED
  BY <1>2, <1>3, <1>4 DEF EndInv, Running, Holds, Walks

\* The step leaves the tree alone.
LEMMA EndQuiet ==
    ASSUME EndInv, TreeInv', NEW p \in Terminals, NEW k \in Jobs,
           job' = [job EXCEPT ![p] = k], UNCHANGED <<dirs, files>>,
           Others(p, {}), left \subseteq left',
           k # Idle => Holds(k) /\ Walks(k, changed'[p], files'),
           \A d \in dirs \ {Root} : Entries(d) = {} /\ Minds(job[p], d) =>
              d \in left' \/ Minds(k, d)
    PROVE  EndInv'
<1>1. \A d : Entries(d)' = Entries(d)
  BY DEF Entries
<1> QED
  BY <1>1, EndStep

\* The secrets a running command must not rely on stay so while it runs.
LEMMA NotedAfter ==
    ASSUME TreeInv, NEW p \in Terminals, NEW k \in Jobs, NEW N \in SUBSET Names,
           job' = [job EXCEPT ![p] = k], Changes(p, N)
    PROVE  Others(p, N) /\ (k # Idle => changed'[p] = changed[p])
<1>1. Others(p, N)
  BY ChangesInv
<1>2. job'[p] = k
  BY DEF TreeInv, TypeOK
<1> QED
  BY <1>1, <1>2 DEF Changes

LEMMA MindsTouched ==
    ASSUME EndInv, NEW p \in Terminals, Running(p), NEW d \in dirs, Minds(job[p], d)
    PROVE  d \in Touched(p) /\ job[p].verb \notin {"find", "ls"}
<1>1. Handles(job[p]) /\ Holds(job[p])
  BY DEF EndInv, TreeInv
<1>2. job[p].at \in {"down", "put", "clean", "cleanRemove", "removeAll"}
  BY DEF Minds
<1>3. job[p].verb \notin {"find", "ls"}
  BY <1>1, <1>2 DEF Handles
<1>4. CASE job[p].at = "put"
  <2>1. job[p].to \in Names \ {Root} /\ d = Parent[job[p].to]
    BY <1>1, <1>4, TreeAssumption DEF Minds, Handles, Holds
  <2>2. d \in Above[job[p].to]
    BY <2>1, AboveSelf, AboveClosed
  <2> QED
    BY <1>3, <2>2 DEF Touched
<1>5. CASE job[p].at = "removeAll"
  <2>1. job[p].name \in Dirs \ {Root}
    BY <1>1, <1>5 DEF Handles
  <2>2. CASE d \in job[p].todo
    BY <1>1, <1>3, <1>5, <2>2 DEF Handles, Touched
  <2>3. CASE d = Parent[job[p].name]
    <3>1. d \in Above[job[p].name]
      BY <2>1, <2>3, AboveSelf, AboveClosed
    <3> QED
      BY <1>3, <3>1 DEF Touched
  <2> QED
    BY <1>5, <2>2, <2>3 DEF Minds
<1>6. CASE job[p].at \in {"down", "clean", "cleanRemove"}
  BY <1>1, <1>3, <1>6 DEF Minds, Holds, Touched
<1> QED
  BY <1>2, <1>4, <1>5, <1>6

----------------------------------------------------------------------------
\* The actions, one by one.

LEMMA BeginEnd ==
    ASSUME EndInv, TreeInv', NEW p \in Terminals, NEW k \in JobRecords, Begin(p, k),
           Holds(k), Walks(k, changed[p], files)
    PROVE  EndInv'
<1>1. k \in Jobs
  BY DEF Jobs, JobRecords
<1>2. Others(p, {})
  BY DEF Begin, Others, EndInv, TreeInv, TypeOK
<1>3. \A d : ~Minds(job[p], d)
  BY DEF Begin, Running, Minds
<1> QED
  BY <1>1, <1>2, <1>3, EndQuiet DEF Begin

\* A walk begins above all it is meant to show, and has found nothing.
LEMMA BeginWalks ==
    ASSUME NEW j, j.at = "walk", j.verb \in {"find", "ls"}, j.name \in Dirs,
           j.verb = "find" => j.name = Root, j.todo = {j.name}, j.found = {},
           NEW C, NEW F
    PROVE  Walks(j, C, F)
BY AboveSelf DEF Walks, Shown

LEMMA BeginnersEnd ==
    ASSUME EndInv, TreeInv', NEW p \in Terminals,
           \/ HandleInsert(p) \/ HandleMv(p) \/ HandleRm(p) \/ HandleRmRecursive(p)
           \/ HandleFind(p) \/ HandleLs(p)
    PROVE  EndInv'
<1>1. \A n \in Names : n # Root /\ Parent[n] \in Dirs /\ Parent[n] \in Above[n]
  BY TreeAssumption, AboveSelf, AboveClosed
<1>2. CASE HandleInsert(p)
  <2>1. PICK n \in Names, force \in BOOLEAN :
           Begin(p, Job("write", "up", n, n, force, Parent[n], {}))
    BY <1>2 DEF HandleInsert
  <2>2. Job("write", "up", n, n, force, Parent[n], {}) \in JobRecords
    BY <1>1 DEF Job, JobRecords, Verbs, Places
  <2>3. /\ Holds(Job("write", "up", n, n, force, Parent[n], {}))
        /\ Walks(Job("write", "up", n, n, force, Parent[n], {}), changed[p], files)
    BY <1>1 DEF Job, Holds, Walks
  <2> QED
    BY <2>1, <2>2, <2>3, BeginEnd
<1>3. CASE HandleMv(p)
  <2>1. PICK n \in Names, to \in Names, force \in BOOLEAN :
           Begin(p, Job("mv", "up", n, to, force, Parent[to], {}))
    BY <1>3 DEF HandleMv
  <2>2. Job("mv", "up", n, to, force, Parent[to], {}) \in JobRecords
    BY <1>1 DEF Job, JobRecords, Verbs, Places
  <2>3. /\ Holds(Job("mv", "up", n, to, force, Parent[to], {}))
        /\ Walks(Job("mv", "up", n, to, force, Parent[to], {}), changed[p], files)
    BY <1>1 DEF Job, Holds, Walks
  <2> QED
    BY <2>1, <2>2, <2>3, BeginEnd
<1>4. CASE HandleRm(p)
  <2>1. PICK n \in Names : Begin(p, Job("rm", "unlink", n, n, FALSE, Parent[n], {}))
    BY <1>4 DEF HandleRm
  <2>2. Job("rm", "unlink", n, n, FALSE, Parent[n], {}) \in JobRecords
    BY <1>1 DEF Job, JobRecords, Verbs, Places
  <2>3. /\ Holds(Job("rm", "unlink", n, n, FALSE, Parent[n], {}))
        /\ Walks(Job("rm", "unlink", n, n, FALSE, Parent[n], {}), changed[p], files)
    BY DEF Job, Holds, Walks
  <2> QED
    BY <2>1, <2>2, <2>3, BeginEnd
<1>5. CASE HandleRmRecursive(p)
  <2>1. PICK d \in dirs \ {Root} :
             Begin(p, Job("rmdir", "removeAll", d, d, FALSE, Parent[d], {d}))
    BY <1>5 DEF HandleRmRecursive
  <2>2. d \in Dirs /\ Parent[d] \in Dirs
    BY <2>1, TreeAssumption DEF EndInv, TreeInv, TypeOK
  <2>3. Job("rmdir", "removeAll", d, d, FALSE, Parent[d], {d}) \in JobRecords
    BY <2>2 DEF Job, JobRecords, Verbs, Places
  <2>4. /\ Holds(Job("rmdir", "removeAll", d, d, FALSE, Parent[d], {d}))
        /\ Walks(Job("rmdir", "removeAll", d, d, FALSE, Parent[d], {d}), changed[p], files)
    BY DEF Job, Holds, Walks
  <2> QED
    BY <2>1, <2>3, <2>4, BeginEnd
<1>6. CASE HandleFind(p)
  <2>1. Job("find", "walk", Root, Root, FALSE, Root, {Root}) \in JobRecords
    BY TreeAssumption DEF Job, JobRecords, Verbs, Places
  <2>2. Holds(Job("find", "walk", Root, Root, FALSE, Root, {Root}))
    BY DEF Job, Holds
  <2>3. Walks(Job("find", "walk", Root, Root, FALSE, Root, {Root}), changed[p], files)
    BY TreeAssumption, BeginWalks DEF Job
  <2> QED
    BY <1>6, <2>1, <2>2, <2>3, BeginEnd DEF HandleFind
<1>7. CASE HandleLs(p)
  <2>1. PICK d \in dirs : Begin(p, Job("ls", "walk", d, d, FALSE, d, {d}))
    BY <1>7 DEF HandleLs
  <2>2. d \in Dirs
    BY <2>1 DEF EndInv, TreeInv, TypeOK
  <2>3. Job("ls", "walk", d, d, FALSE, d, {d}) \in JobRecords
    BY <2>2 DEF Job, JobRecords, Verbs, Places
  <2>4. Holds(Job("ls", "walk", d, d, FALSE, d, {d}))
    BY DEF Job, Holds
  <2>5. Walks(Job("ls", "walk", d, d, FALSE, d, {d}), changed[p], files)
    BY <2>2, BeginWalks DEF Job
  <2> QED
    BY <2>1, <2>3, <2>4, <2>5, BeginEnd
<1> QED
  BY <1>2, <1>3, <1>4, <1>5, <1>6, <1>7

\* A command ends, or goes on elsewhere, and leaves the tree alone.
LEMMA EndsQuiet ==
    ASSUME EndInv, TreeInv', NEW p \in Terminals, Ends(p), Changes(p, {}),
           UNCHANGED <<dirs, files>>, left \subseteq left',
           \A d \in dirs \ {Root} : Entries(d) = {} /\ Minds(job[p], d) => d \in left'
    PROVE  EndInv'
<1>1. Idle \in Jobs /\ job' = [job EXCEPT ![p] = Idle]
  BY DEF Jobs, Ends
<1>2. Others(p, {})
  BY <1>1, NotedAfter DEF EndInv
<1> QED
  BY <1>1, <1>2, EndQuiet

\* A call that fails for a reason of its own is noted.
LEMMA FailsEnd ==
    ASSUME EndInv, TreeInv', NEW p \in Terminals, Running(p), Fails(p)
    PROVE  EndInv'
<1>1. /\ Ends(p) /\ Changes(p, {}) /\ UNCHANGED <<dirs, files>>
      /\ left' = left \cup Touched(p)
  BY DEF Fails
<1>2. \A d \in dirs : Minds(job[p], d) => d \in left'
  BY <1>1, MindsTouched
<1> QED
  BY <1>1, <1>2, EndsQuiet

LEMMA NowHolds ==
    ASSUME EndInv, NEW p \in Terminals, Running(p),
           NEW place \in Places, NEW d \in Dirs, Now(p, place, d),
           place \notin {"walk", "removeAll"},
           place \in {"up", "down"} => d \in Above[job[p].to],
           place = "put" => d = Parent[job[p].to],
           place \in {"clean", "cleanRemove"} => d \in Above[job[p].name]
    PROVE  \E k \in Jobs : /\ job' = [job EXCEPT ![p] = k]
                           /\ k # Idle /\ k.at = place /\ k.dir = d
                           /\ Holds(k) /\ \A C, F : Walks(k, C, F)
<1>1. PICK k \in Jobs :
         /\ job' = [job EXCEPT ![p] = k]
         /\ k # Idle
         /\ k.at = place /\ k.dir = d /\ k.verb = job[p].verb
         /\ k.name = job[p].name /\ k.to = job[p].to
  BY NowMoves DEF EndInv
<1>2. Holds(job[p])
  BY DEF EndInv
<1>3. Holds(k)
  BY <1>1, <1>2 DEF Holds
<1>4. \A C, F : Walks(k, C, F)
  BY <1>1 DEF Walks
<1> QED
  BY <1>1, <1>3, <1>4

LEMMA NowQuiet ==
    ASSUME EndInv, TreeInv', NEW p \in Terminals, Running(p),
           NEW place \in Places, NEW d \in Dirs, Now(p, place, d),
           place \notin {"walk", "removeAll"},
           place \in {"up", "down"} => d \in Above[job[p].to],
           place = "put" => d = Parent[job[p].to],
           place \in {"clean", "cleanRemove"} => d \in Above[job[p].name],
           Changes(p, {}) \/ UNCHANGED changed, UNCHANGED <<dirs, files, left>>,
           \A x \in dirs \ {Root} : Entries(x) = {} /\ Minds(job[p], x) =>
              place # "up" /\ place # "unlink" /\ x = d
    PROVE  EndInv'
<1>1. PICK k \in Jobs : /\ job' = [job EXCEPT ![p] = k]
                        /\ k # Idle /\ k.at = place /\ k.dir = d
                        /\ Holds(k) /\ \A C, F : Walks(k, C, F)
  BY NowHolds
<1>2. Others(p, {})
  <2>1. CASE Changes(p, {})
    BY <1>1, <2>1, NotedAfter DEF EndInv
  <2>2. CASE UNCHANGED changed
    BY <1>1, <2>2 DEF Others, EndInv, TreeInv, TypeOK
  <2> QED
    BY <2>1, <2>2
<1>3. \A x \in dirs \ {Root} : Entries(x) = {} /\ Minds(job[p], x) => Minds(k, x)
  BY <1>1 DEF Minds, Places
<1> QED
  BY <1>1, <1>2, <1>3, EndQuiet

LEMMA QuietEnd ==
    ASSUME EndInv, TreeInv', NEW p \in Terminals,
           \/ MkdirUp(p) \/ MkdirFails(p) \/ RemoveAllEnds(p) \/ CleanRead(p)
           \/ CleanReadFails(p) \/ WalkEnds(p) \/ Interrupt(p)
    PROVE  EndInv'
<1>1. CASE MkdirUp(p)
  <2>1. Running(p) /\ job[p].at = "up" /\ job[p].dir \in Dirs /\ job[p].to \in Names
    BY <1>1, JobIsRecord DEF MkdirUp, At, EndInv, TreeInv, JobRecords, Handles
  <2>2. job[p].dir \in Above[job[p].to] /\ \A x : ~Minds(job[p], x)
    BY <2>1 DEF EndInv, Holds, Minds
  <2>3. UNCHANGED <<dirs, files, changed, left>>
    BY <1>1 DEF MkdirUp
  <2>4. CASE job[p].dir \in dirs
    BY <1>1, <2>1, <2>2, <2>3, <2>4, NowQuiet DEF MkdirUp, Places
  <2>5. CASE job[p].dir \notin dirs
    <3>1. job[p].dir # Root
      BY <2>5 DEF EndInv, TreeInv, TypeOK
    <3>2. Parent[job[p].dir] \in Dirs /\ Parent[job[p].dir] \in Above[job[p].to]
      BY <2>1, <2>2, <3>1, ParentIsDir, AboveClosed
    <3>3. Now(p, "up", Parent[job[p].dir])
      BY <1>1, <2>5 DEF MkdirUp
    <3> QED
      BY <2>1, <2>2, <2>3, <3>2, <3>3, NowQuiet DEF Places
  <2> QED
    BY <2>4, <2>5
<1>2. CASE RemoveAllEnds(p)
  <2>1. /\ Running(p) /\ job[p].at = "removeAll" /\ job[p].todo = {}
        /\ Changes(p, {}) /\ UNCHANGED <<dirs, files, left>>
    BY <1>2 DEF RemoveAllEnds, At
  <2>2. job[p].name \in Dirs \ {Root}
    BY <2>1 DEF EndInv, TreeInv, Handles
  <2>3. Parent[job[p].name] \in Dirs /\ Parent[job[p].name] \in Above[job[p].name]
    BY <2>2, ParentIsDir, AboveSelf, AboveClosed
  <2>4. \A x : Minds(job[p], x) => job[p].ok /\ x = Parent[job[p].name]
    BY <2>1 DEF Minds
  <2>5. CASE job[p].ok
    <3>1. Now(p, "clean", Parent[job[p].name])
      BY <1>2, <2>5 DEF RemoveAllEnds
    <3> QED
      BY <2>1, <2>3, <2>4, <3>1, NowQuiet DEF Places
  <2>6. CASE ~job[p].ok
    <3>1. Ends(p)
      BY <1>2, <2>6 DEF RemoveAllEnds
    <3> QED
      BY <2>1, <2>4, <2>6, <3>1, EndsQuiet
  <2> QED
    BY <2>5, <2>6
<1>3. CASE CleanRead(p)
  <2>1. /\ Running(p) /\ job[p].at = "clean" /\ job[p].dir \in Dirs
        /\ Changes(p, {}) /\ UNCHANGED <<dirs, files, left>>
    BY <1>3, JobIsRecord DEF CleanRead, At, EndInv, TreeInv, JobRecords
  <2>2. job[p].dir \in Above[job[p].name]
    BY <2>1 DEF EndInv, Holds
  <2>3. \A x : Minds(job[p], x) => x = job[p].dir
    BY <2>1 DEF Minds
  <2>4. CASE job[p].dir # Root /\ job[p].dir \in dirs /\ Entries(job[p].dir) = {}
    <3>1. Now(p, "cleanRemove", job[p].dir)
      BY <1>3, <2>4 DEF CleanRead
    <3> QED
      BY <2>1, <2>2, <2>3, <3>1, NowQuiet DEF Places
  <2>5. CASE ~(job[p].dir # Root /\ job[p].dir \in dirs /\ Entries(job[p].dir) = {})
    <3>1. Ends(p)
      BY <1>3, <2>5 DEF CleanRead
    <3> QED
      BY <2>1, <2>3, <2>5, <3>1, EndsQuiet
  <2> QED
    BY <2>4, <2>5
<1>4. CASE WalkEnds(p)
  <2>1. \A x : ~Minds(job[p], x)
    BY <1>4 DEF WalkEnds, At, Minds
  <2> QED
    BY <1>4, <2>1, EndsQuiet DEF WalkEnds
<1>5. CASE Interrupt(p)
  <2>1. CASE job[p].verb \in {"find", "ls"}
    <3>1. /\ Running(p) /\ Ends(p) /\ Changes(p, {})
          /\ UNCHANGED <<dirs, files, left>>
      BY <1>5, <2>1 DEF Interrupt
    <3>2. \A d \in dirs : ~Minds(job[p], d)
      BY <2>1, <3>1, MindsTouched
    <3> QED
      BY <3>1, <3>2, EndsQuiet
  <2>2. CASE job[p].verb \notin {"find", "ls"}
    BY <1>5, <2>2, FailsEnd DEF Interrupt
  <2> QED
    BY <2>1, <2>2
<1>6. CASE MkdirFails(p) \/ CleanReadFails(p)
  BY <1>6, FailsEnd DEF MkdirFails, CleanReadFails, At
<1> QED
  BY <1>1, <1>2, <1>3, <1>4, <1>5, <1>6

LEMMA MkdirDownEnd ==
    ASSUME EndInv, TreeInv', NEW p \in Terminals, MkdirDown(p) PROVE EndInv'
<1>1. PICK d \in (Above[job[p].to] \cap Dirs) \ {Root} :
         /\ Parent[d] = job[p].dir
         /\ IF job[p].dir \in dirs
            THEN /\ dirs' = dirs \cup {d}
                 /\ Now(p, IF d = Parent[job[p].to] THEN "put" ELSE "down", d)
            ELSE Ends(p) /\ UNCHANGED dirs
  BY DEF MkdirDown
<1>2. /\ Running(p) /\ job[p].at = "down" /\ Changes(p, {})
      /\ UNCHANGED <<files, left>>
  BY DEF MkdirDown, At
<1>3. \A x : Minds(job[p], x) => x = job[p].dir
  BY <1>2 DEF Minds
<1>4. CASE job[p].dir \in dirs
  <2>1. PICK k \in Jobs : /\ job' = [job EXCEPT ![p] = k]
                          /\ k # Idle /\ k.at \in {"put", "down"} /\ k.dir = d
                          /\ Holds(k) /\ \A C, F : Walks(k, C, F)
    BY <1>1, <1>2, <1>4, NowHolds DEF Places
  <2>2. Others(p, {})
    BY <1>2, <2>1, NotedAfter DEF EndInv
  <2>3. ASSUME NEW x \in dirs' \ {Root}, Entries(x)' = {}
        PROVE  Minds(k, x) \/ (x \in dirs /\ Entries(x) = {} /\ ~Minds(job[p], x))
    <3>1. CASE x = d
      BY <2>1, <3>1 DEF Minds
    <3>2. CASE x # d
      <4>1. x \in dirs /\ Entries(x) = {}
        BY <1>1, <1>2, <1>4, <2>3, <3>2 DEF Entries
      <4>2. x # Parent[d]
        BY <1>1, <1>4, <2>3 DEF Entries
      <4> QED
        BY <1>1, <1>3, <4>1, <4>2
    <3> QED
      BY <3>1, <3>2
  <2>4. \A x \in dirs' \ dirs : x # Root /\ Parent[x] \in dirs
    BY <1>1, <1>4
  <2> QED
    BY <1>2, <2>1, <2>2, <2>3, <2>4, EndStep
<1>5. CASE job[p].dir \notin dirs
  BY <1>1, <1>2, <1>3, <1>5, EndsQuiet
<1> QED
  BY <1>4, <1>5

LEMMA WriteFileEnd ==
    ASSUME EndInv, TreeInv', NEW p \in Terminals, WriteFile(p) PROVE EndInv'
<1> DEFINE n == job[p].name
           N == IF Parent[n] \in dirs THEN {n} ELSE {}
<1> SUFFICES ASSUME files' = files \cup N /\ Ends(p) /\ Changes(p, N),
                    UNCHANGED <<dirs, left>>
             PROVE  EndInv'
  BY FailsEnd DEF WriteFile, At
<1>1. Running(p) /\ job[p].at = "put" /\ job[p].verb = "write"
  BY DEF WriteFile, At
<1>2. n \in Names /\ job[p].dir = Parent[n]
  BY <1>1 DEF EndInv, TreeInv, Handles, Holds
<1>3. N \in SUBSET Names /\ Idle \in Jobs /\ job' = [job EXCEPT ![p] = Idle]
  BY <1>1, <1>2 DEF Jobs, Ends
<1>4. Others(p, N)
  BY <1>1, <1>3, NotedAfter DEF EndInv
<1>5. ASSUME NEW d \in dirs' \ {Root}, Entries(d)' = {}
      PROVE  d \in dirs /\ Entries(d) = {} /\ ~Minds(job[p], d)
  <2>1. d \in dirs /\ Entries(d) = {}
    BY <1>1, <1>5 DEF Entries
  <2>2. d # Parent[n]
    BY <1>1, <1>5, <2>1 DEF Entries
  <2> QED
    BY <1>1, <1>2, <2>1, <2>2 DEF Minds
<1> QED
  BY <1>1, <1>3, <1>4, <1>5, EndStep

\* A move has filled the directory it minded, and minds the one it may have
\* emptied.
LEMMA RenameEnd ==
    ASSUME EndInv, TreeInv', NEW p \in Terminals, Rename(p) PROVE EndInv'
<1> DEFINE n == job[p].name
           to == job[p].to
<1>1. /\ Running(p) /\ job[p].at = "put" /\ job[p].verb = "mv"
      /\ UNCHANGED dirs
  BY DEF Rename, At, Fails
<1>2. n \in Names /\ to \in Names /\ job[p].dir = Parent[to]
  BY <1>1 DEF EndInv, TreeInv, Handles, Holds
<1>3. n # Root /\ Parent[n] \in Dirs /\ Parent[n] \in Above[n]
  BY <1>2, TreeAssumption, AboveSelf, AboveClosed
<1>4. CASE /\ files' = (files \ {n}) \cup {to}
           /\ Now(p, "clean", Parent[n]) /\ Changes(p, {n, to})
           /\ UNCHANGED <<dirs, left>>
  <2>1. /\ files' = (files \ {n}) \cup {to} /\ Now(p, "clean", Parent[n])
        /\ Changes(p, {n, to}) /\ UNCHANGED left
    BY <1>4
  <2>2. PICK k \in Jobs : /\ job' = [job EXCEPT ![p] = k]
                          /\ k # Idle /\ k.at = "clean" /\ k.dir = Parent[n]
                          /\ Holds(k) /\ \A C, F : Walks(k, C, F)
    BY <1>1, <1>3, <2>1, NowHolds DEF Places
  <2>3. Others(p, {n, to})
    BY <1>2, <2>1, <2>2, NotedAfter DEF EndInv
  <2>4. ASSUME NEW d \in dirs' \ {Root}, Entries(d)' = {}
        PROVE  Minds(k, d) \/ (d \in dirs /\ Entries(d) = {} /\ ~Minds(job[p], d))
    <3>1. CASE d = Parent[n]
      BY <2>2, <3>1 DEF Minds
    <3>2. CASE d # Parent[n]
      <4>1. d \in dirs /\ Entries(d) = {} /\ d # Parent[to]
        BY <1>1, <2>1, <2>4, <3>2 DEF Entries
      <4> QED
        BY <1>1, <1>2, <4>1 DEF Minds
    <3> QED
      BY <3>1, <3>2
  <2>5. files \ files' \subseteq {n, to} /\ files' \ files \subseteq {n, to}
    BY <2>1
  <2> QED
    BY <1>1, <2>1, <2>2, <2>3, <2>4, <2>5, EndStep
<1>5. CASE Fails(p)
  BY <1>1, <1>5, FailsEnd
<1> QED
  BY <1>4, <1>5 DEF Rename

LEMMA UnlinkEnd ==
    ASSUME EndInv, TreeInv', NEW p \in Terminals, Unlink(p) PROVE EndInv'
<1> DEFINE n == job[p].name
<1>1. /\ Running(p) /\ job[p].at = "unlink"
      /\ Changes(p, files \ files') /\ UNCHANGED <<dirs, left>>
  BY DEF Unlink, At
<1>2. \A x : ~Minds(job[p], x)
  BY <1>1 DEF Minds
<1>3. n \in Names
  BY <1>1 DEF EndInv, TreeInv, Handles
<1>4. n # Root /\ Parent[n] \in Dirs /\ Parent[n] \in Above[n]
  BY <1>3, TreeAssumption, AboveSelf, AboveClosed
<1>5. CASE files' = files \ {n} /\ Now(p, "clean", Parent[n])
  <2>1. Now(p, "clean", Parent[n])
    BY <1>5
  <2>2. PICK k \in Jobs : /\ job' = [job EXCEPT ![p] = k]
                          /\ k # Idle /\ k.at = "clean" /\ k.dir = Parent[n]
                          /\ Holds(k) /\ \A C, F : Walks(k, C, F)
    BY <1>1, <1>4, <2>1, NowHolds DEF Places
  <2>3. files \ files' \in SUBSET Names
    BY DEF EndInv, TreeInv, TypeOK
  <2>4. Others(p, files \ files')
    BY <1>1, <2>2, <2>3, NotedAfter DEF EndInv
  <2>5. ASSUME NEW d \in dirs' \ {Root}, Entries(d)' = {}
        PROVE  Minds(k, d) \/ (d \in dirs /\ Entries(d) = {} /\ ~Minds(job[p], d))
    <3>1. CASE d = Parent[n]
      BY <2>2, <3>1 DEF Minds
    <3>2. CASE d # Parent[n]
      BY <1>1, <1>2, <1>5, <2>5, <3>2 DEF Entries
    <3> QED
      BY <3>1, <3>2
  <2>6. files' \ files \subseteq files \ files'
    BY <1>5
  <2> QED
    BY <1>1, <2>2, <2>4, <2>5, <2>6, EndStep
<1>6. CASE Ends(p) /\ UNCHANGED files
  <2>1. Changes(p, {})
    BY <1>1, <1>6 DEF Changes
  <2> QED
    BY <1>1, <1>2, <1>6, <2>1, EndsQuiet
<1>7. ~Exists(n) => files \ {n} = files
  BY DEF Exists
<1> QED
  BY <1>5, <1>6, <1>7 DEF Unlink

LEMMA CleanRemoveEnd ==
    ASSUME EndInv, TreeInv', NEW p \in Terminals, CleanRemove(p) PROVE EndInv'
<1> DEFINE d == job[p].dir
<1>1. /\ Running(p) /\ job[p].at = "cleanRemove" /\ Now(p, "clean", Parent[d])
      /\ \/ /\ dirs' = IF Entries(d) = {} THEN dirs \ {d} ELSE dirs
            /\ left' = left \cap dirs'
         \/ dirs' = dirs /\ left' = left \cup ({d} \cap dirs)
      /\ UNCHANGED <<files, changed>>
  BY DEF CleanRemove, At
<1>2. d \in Dirs \ {Root} /\ d \in Above[job[p].name]
  BY <1>1, JobIsRecord DEF EndInv, TreeInv, JobRecords, Handles, Holds
<1>3. job[p].name \in Names \cup Dirs
  BY <1>1, JobIsRecord DEF EndInv, TreeInv, JobRecords
<1>4. Parent[d] \in Dirs /\ Parent[d] \in Above[job[p].name]
  BY <1>2, <1>3, ParentIsDir, AboveClosed
<1>5. PICK k \in Jobs : /\ job' = [job EXCEPT ![p] = k]
                        /\ k # Idle /\ k.at = "clean" /\ k.dir = Parent[d]
                        /\ Holds(k) /\ \A C, F : Walks(k, C, F)
  BY <1>1, <1>4, NowHolds DEF Places
<1>6. Others(p, {})
  BY <1>1, <1>5 DEF Others, EndInv, TreeInv, TypeOK
<1>7. ASSUME NEW x \in dirs' \ {Root}, Entries(x)' = {}
      PROVE  \/ x \in left' \/ Minds(k, x)
             \/ x \in dirs /\ Entries(x) = {} /\ ~Minds(job[p], x)
  <2>1. CASE x = Parent[d]
    BY <1>5, <2>1 DEF Minds
  <2>2. CASE x # Parent[d]
    <3>1. x \in dirs /\ Entries(x) = {}
      BY <1>1, <1>7, <2>2 DEF Entries
    <3>2. x # d \/ x \in left'
      BY <1>1, <1>7, <3>1
    <3> QED
      BY <1>1, <3>1, <3>2 DEF Minds
  <2> QED
    BY <2>1, <2>2
<1>8. left \cap dirs' \subseteq left' /\ dirs' \ dirs = {}
  BY <1>1
<1> QED
  BY <1>1, <1>5, <1>6, <1>7, <1>8, EndStep

\* RemoveAll minds the directories it has still to visit.  What it removes is an
\* entry of one of them, or is the directory it was given, which it then has
\* removed; and what it fails to remove is not empty.
LEMMA RemoveAllEnd ==
    ASSUME EndInv, TreeInv', NEW p \in Terminals, RemoveAll(p) PROVE EndInv'
<1> DEFINE j == job[p]
           N == files \ files'
<1>1. /\ Running(p) /\ j.at = "removeAll" /\ Changes(p, N) /\ left' = left \cap dirs'
      /\ Handles(j) /\ Holds(j)
  BY DEF RemoveAll, At, EndInv, TreeInv
<1>2. PICK e \in j.todo, k \in JobRecords :
         /\ job' = [job EXCEPT ![p] = k]
         /\ k.at = "removeAll" /\ k.verb = "rmdir" /\ k.name = j.name
         /\ \/ /\ e \in Names /\ files' = files \ {e} /\ UNCHANGED dirs
               /\ k.todo = j.todo \ {e} /\ k.seen = j.seen
               /\ k.ok = j.ok
            \/ /\ e \in Dirs \ j.seen /\ UNCHANGED <<dirs, files>>
               /\ k.ok = j.ok
               /\ \/ /\ e \in dirs /\ k.todo = j.todo \cup Entries(e)
                     /\ k.seen = j.seen \cup {e}
                  \/ /\ e \notin dirs /\ k.todo = j.todo \ {e}
                     /\ k.seen = j.seen
            \/ /\ e \in Dirs /\ e \in j.seen /\ UNCHANGED files
               /\ \A f \in j.todo \ {e} : Parent[f] # e
               /\ dirs' = IF Entries(e) = {} THEN dirs \ {e} ELSE dirs
               /\ k.todo = j.todo \ {e} /\ k.seen = j.seen
               /\ k.ok <=> (e = j.name => Entries(e) = {})
  BY RemoveAllSteps DEF EndInv
<1>3. k \in Jobs /\ k # Idle
  BY IdleIsNone DEF Jobs, JobRecords
<1>4. /\ j.name \in Dirs \ {Root} /\ e # Root
      /\ \A f \in j.todo \ {j.name} : Parent[f] \in j.todo \cap j.seen
      /\ Dirs \cap Names = {}
  BY <1>1, TreeAssumption DEF Handles, Holds
<1>5. Others(p, N)
  <2>1. N \in SUBSET Names
    BY DEF EndInv, TreeInv, TypeOK
  <2> QED
    BY <1>1, <1>2, <1>3, <2>1, NotedAfter DEF EndInv
<1>6. \A x : Minds(j, x) <=> x \in j.todo \/ (j.ok /\ x = Parent[j.name])
  BY <1>1, JobIsRecord, IdleIsNone DEF Minds, Running
<1>7. \A x : x \in k.todo \/ (k.ok /\ x = Parent[j.name]) => Minds(k, x)
  BY <1>2, <1>3 DEF Minds
<1>8. /\ \A f \in k.todo \ {j.name} : Parent[f] \in k.todo \cap k.seen
      /\ \A x \in dirs' \ {Root} : Entries(x)' = {} =>
            Minds(k, x) \/ (x \in dirs /\ Entries(x) = {} /\ ~Minds(j, x))
      /\ files' \ files \subseteq N /\ dirs' \subseteq dirs
  <2>1. CASE /\ e \in Names /\ files' = files \ {e} /\ UNCHANGED dirs
             /\ k.todo = j.todo \ {e} /\ k.seen = j.seen
             /\ k.ok = j.ok
    <3>1. e # j.name /\ Parent[e] \in Dirs /\ Parent[e] \in k.todo
      BY <1>4, <2>1, ParentIsDir
    <3>2. \A f \in k.todo \ {j.name} : Parent[f] \in k.todo \cap k.seen
      BY <1>4, <2>1, ParentIsDir DEF JobRecords
    <3>3. ASSUME NEW x \in dirs' \ {Root}, Entries(x)' = {}
          PROVE  Minds(k, x) \/ (x \in dirs /\ Entries(x) = {} /\ ~Minds(j, x))
      <4>1. CASE x = Parent[e]
        BY <1>7, <3>1, <4>1
      <4>2. CASE x # Parent[e]
        <5>1. x \in dirs /\ Entries(x) = {}
          BY <2>1, <3>3, <4>2 DEF Entries
        <5>2. x # e
          BY <1>4, <2>1, <5>1 DEF EndInv, TreeInv, TypeOK
        <5> QED
          BY <1>6, <1>7, <2>1, <5>1, <5>2
      <4> QED
        BY <4>1, <4>2
    <3> QED
      BY <2>1, <3>2, <3>3
  <2>2. CASE /\ e \in Dirs \ j.seen /\ UNCHANGED <<dirs, files>>
             /\ k.ok = j.ok
             /\ \/ /\ e \in dirs /\ k.todo = j.todo \cup Entries(e)
                   /\ k.seen = j.seen \cup {e}
                \/ /\ e \notin dirs /\ k.todo = j.todo \ {e}
                   /\ k.seen = j.seen
    <3>1. \A f \in k.todo \ {j.name} : Parent[f] \in k.todo \cap k.seen
      BY <1>4, <2>2 DEF Entries
    <3>2. ASSUME NEW x \in dirs' \ {Root}, Entries(x)' = {}
          PROVE  Minds(k, x) \/ (x \in dirs /\ Entries(x) = {} /\ ~Minds(j, x))
      <4>1. x \in dirs /\ Entries(x) = {}
        BY <2>2, <3>2 DEF Entries
      <4>2. x \in j.todo => x \in k.todo
        BY <2>2, <4>1
      <4> QED
        BY <1>6, <1>7, <2>2, <4>1, <4>2
    <3> QED
      BY <2>2, <3>1, <3>2
  <2>3. CASE /\ e \in Dirs /\ e \in j.seen /\ UNCHANGED files
             /\ \A f \in j.todo \ {e} : Parent[f] # e
             /\ dirs' = IF Entries(e) = {} THEN dirs \ {e} ELSE dirs
             /\ k.todo = j.todo \ {e} /\ k.seen = j.seen
             /\ k.ok <=> (e = j.name => Entries(e) = {})
    <3>1. \A f \in k.todo \ {j.name} : Parent[f] \in k.todo \cap k.seen
      BY <1>4, <2>3
    <3>2. CASE Entries(e) = {}
      <4>1. dirs' = dirs \ {e} /\ k.ok
        BY <2>3, <3>2
      <4>2. ASSUME NEW x \in dirs' \ {Root}, Entries(x)' = {}
            PROVE  Minds(k, x) \/ (x \in dirs /\ Entries(x) = {} /\ ~Minds(j, x))
        <5>1. x \in dirs /\ x # e
          BY <4>1, <4>2
        <5>2. CASE x = Parent[e]
          <6>1. e = j.name \/ x \in k.todo
            BY <1>4, <2>3, <5>1, <5>2
          <6> QED
            BY <1>7, <4>1, <5>2, <6>1
        <5>3. CASE x # Parent[e]
          <6>1. Entries(x) = {}
            BY <2>3, <4>1, <4>2, <5>3 DEF Entries
          <6> QED
            BY <1>6, <1>7, <2>3, <4>1, <5>1, <6>1
        <5> QED
          BY <5>2, <5>3
      <4> QED
        BY <2>3, <3>1, <4>1, <4>2
    <3>3. CASE Entries(e) # {}
      <4>1. dirs' = dirs
        BY <2>3, <3>3
      <4>2. ASSUME NEW x \in dirs' \ {Root}, Entries(x)' = {}
            PROVE  Minds(k, x) \/ (x \in dirs /\ Entries(x) = {} /\ ~Minds(j, x))
        <5>1. x \in dirs /\ Entries(x) = {} /\ x # e
          BY <2>3, <3>3, <4>1, <4>2 DEF Entries
        <5>2. e \in dirs
          BY <3>3 DEF Entries, EndInv, TreeInv, TypeOK
        <5>3. x # Parent[e]
          BY <1>4, <5>1, <5>2 DEF Entries
        <5>4. CASE e = j.name
          BY <1>6, <1>7, <2>3, <5>1, <5>3, <5>4
        <5>5. CASE e # j.name
          BY <1>6, <1>7, <2>3, <5>1, <5>5
        <5> QED
          BY <5>4, <5>5
      <4> QED
        BY <2>3, <3>1, <4>1, <4>2
    <3> QED
      BY <3>2, <3>3
  <2> QED
    BY <1>2, <2>1, <2>2, <2>3
<1>9. Holds(k)
  BY <1>2, <1>8 DEF Holds
<1>10. Walks(k, changed'[p], files')
  BY <1>2 DEF Walks
<1>11. left \cap dirs' \subseteq left' /\ dirs' \ dirs = {}
  BY <1>1, <1>8
<1> HIDE DEF j, N
<1> QED
  BY <1>2, <1>3, <1>5, <1>8, <1>9, <1>10, <1>11, EndStep DEF j, N

\* What RemoveAll passes over stays: as an entry it keeps the directory it is in
\* from being empty, and as a directory it is noted.
LEMMA RemoveAllSkipsEnd ==
    ASSUME EndInv, TreeInv', NEW p \in Terminals, RemoveAllSkips(p) PROVE EndInv'
<1> DEFINE j == job[p]
<1>1. /\ Running(p) /\ j.at = "removeAll" /\ Changes(p, {})
      /\ UNCHANGED <<dirs, files>> /\ Handles(j) /\ Holds(j)
  BY DEF RemoveAllSkips, At, EndInv, TreeInv
<1>2. PICK e \in j.todo \cap (files \cup dirs), k \in JobRecords :
         /\ job' = [job EXCEPT ![p] = k]
         /\ k.at = "removeAll" /\ k.verb = "rmdir" /\ k.name = j.name
         /\ k.todo = j.todo \ {e} /\ k.seen = j.seen
         /\ k.ok <=> (j.ok /\ e # j.name)
         /\ \A f \in j.todo \ {e} : Parent[f] # e
         /\ left' = left \cup ({e} \cap dirs)
  BY RemoveAllSkipped DEF EndInv
<1>3. k \in Jobs /\ k # Idle
  BY IdleIsNone DEF Jobs, JobRecords
<1>4. /\ j.name \in Dirs \ {Root} /\ e # Root
      /\ \A f \in j.todo \ {j.name} : Parent[f] \in j.todo \cap j.seen
  BY <1>1 DEF Handles, Holds
<1>5. Others(p, {})
  BY <1>1, <1>2, <1>3, NotedAfter DEF EndInv
<1>6. \A x : Minds(j, x) <=> x \in j.todo \/ (j.ok /\ x = Parent[j.name])
  BY <1>1, JobIsRecord, IdleIsNone DEF Minds, Running
<1>7. \A x : x \in k.todo \/ (k.ok /\ x = Parent[j.name]) => Minds(k, x)
  BY <1>2, <1>3 DEF Minds
<1>8. Holds(k) /\ Walks(k, changed'[p], files')
  <2>1. \A f \in k.todo \ {j.name} : Parent[f] \in k.todo \cap k.seen
    BY <1>2, <1>4
  <2> QED
    BY <1>2, <2>1 DEF Holds, Walks
<1>9. ASSUME NEW x \in dirs \ {Root}, Entries(x) = {}, Minds(j, x)
      PROVE  x \in left' \/ Minds(k, x)
  <2>1. e = j.name => x # Parent[j.name]
    BY <1>2, <1>4, <1>9 DEF Entries
  <2> QED
    BY <1>2, <1>6, <1>7, <1>9, <2>1
<1> HIDE DEF j
<1> QED
  BY <1>1, <1>2, <1>3, <1>5, <1>8, <1>9, EndQuiet DEF j

\* Visiting e, a walk that hides nothing it is meant to show puts each secret
\* below e among what it has found, or below what it has to visit.
LEMMA VisitFinds ==
    ASSUME EndInv, NEW e \in dirs, NEW n \in files, e \in Above[n]
    PROVE  \E c \in Entries(e) : c \in Above[n] /\ c # Root
<1>1. n \in Names /\ e # n
  BY TreeAssumption DEF EndInv, TreeInv, TypeOK
<1>2. PICK c \in Above[n] \ {Root} : Parent[c] = e
  BY <1>1, ChildAbove
<1>3. c \in {n} \cup dirs
  BY <1>2, AboveExists DEF EndInv, TreeInv
<1> QED
  BY <1>2, <1>3 DEF Entries

\* No hidden directory is on the way from where a walk began to a secret it is
\* meant to show.
LEMMA ShownWay ==
    ASSUME EndInv, NEW verb, NEW d \in Dirs, NEW n \in Shown(verb, d),
           NEW c \in Above[n] \cap dirs, c # Root, d \in Above[Parent[c]]
    PROVE  c \notin Hidden
<1> SUFFICES ASSUME c \in Hidden PROVE FALSE
  OBVIOUS
<1>1. n \in Names /\ c \in Dirs \ {Root} /\ n # c /\ n # Root
  BY TreeAssumption DEF Shown, EndInv, TreeInv, TypeOK
<1>2. c \in Above[Parent[n]]
  BY <1>1, AboveParent
<1>3. c \in Above[d]
  BY <1>2 DEF Shown
<1>4. Parent[c] \in Dirs
  BY <1>1, ParentIsDir
<1>5. c \in Above[Parent[c]]
  BY <1>3, <1>4, AboveTrans
<1>6. Root \in Above[c]
  BY DEF EndInv, Rooted
<1> QED
  BY <1>1, <1>5, <1>6, NoLoop

\* The next job of a walk, whichever entry it takes.
LEMMA WalkGoesOn ==
    ASSUME EndInv, NEW p \in Terminals, Running(p), job[p].at = "walk",
           NEW e \in job[p].todo, NEW k \in JobRecords,
           k.at = "walk", k.verb = job[p].verb, k.name = job[p].name,
           \/ /\ k.verb = "find" /\ e \in files
              /\ k.todo = job[p].todo \ {e} /\ k.found = job[p].found \cup {e}
           \/ /\ k.verb = "find" /\ e \in dirs /\ k.found = job[p].found
              /\ k.todo = (job[p].todo \ {e})
                            \cup IF e \in Hidden THEN {} ELSE Entries(e)
           \/ /\ k.verb = "ls" /\ e \in dirs
              /\ k.todo = (job[p].todo \ {e}) \cup ((Entries(e) \ Hidden) \cap Dirs)
              /\ k.found = job[p].found \cup ((Entries(e) \ Hidden) \cap Names)
    PROVE  Walks(k, changed[p], files)
<1> DEFINE j == job[p]
           d == job[p].name
<1>1. /\ j.verb \in {"find", "ls"} /\ (j.verb = "find" => d = Root)
      /\ j.verb = "ls" => j.todo \subseteq Dirs
      /\ \A f \in j.todo : d \in Above[f]
  BY DEF EndInv, Walks
<1>2. \A n \in Shown(j.verb, d) \ changed[p] :
         /\ n \in j.found => n \in files
         /\ n \in files => n \in j.found \/ \E f \in j.todo : f \in Above[n]
  BY DEF EndInv, Walks
<1>3. /\ files \subseteq Names /\ dirs \subseteq Dirs /\ Names \cap Dirs = {}
      /\ Root \in Dirs
  BY TreeAssumption DEF EndInv, TreeInv, TypeOK
<1>4. d \in Dirs
  <2>1. CASE j.verb = "find"
    BY <1>1, <1>3, <2>1
  <2>2. CASE j.verb = "ls"
    <3>1. e \in Names \cup Dirs /\ d \in Above[e] /\ e \in Dirs
      BY <1>1, <2>2
    <3>2. \A x \in Dirs \ {Root} : Parent[x] \in Dirs
      BY ParentIsDir
    <3>3. Dirs \in SUBSET (Names \cup Dirs)
      OBVIOUS
    <3> QED
      BY <3>1, <3>2, <3>3, AboveLeast
  <2> QED
    BY <1>1, <2>1, <2>2
<1>5. ASSUME NEW x \in dirs, d \in Above[x], NEW f \in Entries(x)
      PROVE  d \in Above[f]
  BY <1>3, <1>5, EntriesBelow DEF EndInv
<1>6. e \in dirs => \A f \in Entries(e) : d \in Above[f] /\ Parent[f] = e
  BY <1>1, <1>5 DEF Entries
<1>7. /\ k.verb = "ls" => k.todo \subseteq Dirs
      /\ \A f \in k.todo : d \in Above[f]
  BY <1>1, <1>6
<1>8. ASSUME NEW n \in Shown(j.verb, d) \ changed[p]
      PROVE  /\ n \in k.found => n \in files
             /\ n \in files => n \in k.found \/ \E f \in k.todo : f \in Above[n]
  <2>1. n \in k.found => n \in files
    BY <1>2, <1>3, <1>8 DEF Entries, Shown
  <2>2. ASSUME n \in files, n \notin k.found
        PROVE  \E f \in k.todo : f \in Above[n]
    <3>1. PICK f \in j.todo : f \in Above[n]
      BY <1>2, <1>8, <2>2
    <3>2. CASE f # e
      BY <3>1, <3>2
    <3>3. CASE f = e /\ e \in files
      <4>1. e = n
        BY <1>3, <2>2, <3>1, <3>3, AboveName
      <4>2. n \notin Hidden \/ j.verb = "find"
        BY <1>1, <1>8 DEF Shown
      <4> QED
        BY <1>3, <2>2, <3>3, <4>1
    <3>4. CASE f = e /\ e \in dirs
      <4>1. PICK c \in Entries(e) : c \in Above[n] /\ c # Root
        BY <2>2, <3>1, <3>4, VisitFinds
      <4>2. c \in {n} \cup dirs /\ Parent[c] = e /\ d \in Above[e]
        BY <1>1, <2>2, <4>1, AboveExists DEF Entries, EndInv, TreeInv
      <4>3. CASE j.verb = "find"
        <5>1. e \notin Hidden
          <6>1. CASE e = Root
            BY <6>1, TreeAssumption
          <6>2. CASE e # Root
            <7>1. Root \in Above[e] /\ Parent[e] \in Dirs
              BY <1>3, <3>4, <6>2, ParentIsDir DEF EndInv, Rooted
            <7>2. Root \in Above[Parent[e]]
              BY <1>3, <3>4, <6>2, <7>1, AboveParent
            <7> QED
              BY <1>1, <1>4, <1>8, <3>1, <3>4, <4>3, <6>2, <7>2, ShownWay
          <6> QED
            BY <6>1, <6>2
        <5>2. c \in k.todo
          BY <1>3, <3>4, <4>1, <4>3, <5>1
        <5> QED
          BY <4>1, <5>2
      <4>4. CASE j.verb = "ls"
        <5>1. CASE c = n
          <6>1. n \notin Hidden /\ n \in Names
            BY <1>3, <1>8, <2>2, <4>4 DEF Shown
          <6> QED
            BY <2>2, <4>1, <4>4, <5>1, <6>1
        <5>2. CASE c \in dirs
          <6>1. c \notin Hidden
            BY <1>4, <1>8, <4>1, <4>2, <5>2, ShownWay
          <6>2. c \in k.todo
            BY <1>3, <4>1, <4>4, <5>2, <6>1
          <6> QED
            BY <4>1, <6>2
        <5> QED
          BY <4>2, <5>1, <5>2
      <4> QED
        BY <1>1, <4>3, <4>4
    <3> QED
      BY <3>1, <3>2, <3>3, <3>4
  <2> QED
    BY <2>1, <2>2
<1> QED
  BY <1>1, <1>7, <1>8 DEF Walks

LEMMA WalksEnd ==
    ASSUME EndInv, TreeInv', NEW p \in Terminals, Walk(p) \/ PrintTree(p)
    PROVE  EndInv'
<1>1. /\ Running(p) /\ job[p].at = "walk" /\ job[p].verb \in {"find", "ls"}
      /\ Changes(p, {}) /\ UNCHANGED <<dirs, files, left>>
  BY DEF Walk, PrintTree, At
<1>2. \A x : ~Minds(job[p], x)
  BY <1>1 DEF Minds
<1>3. CASE Ends(p)
  BY <1>1, <1>2, <1>3, EndsQuiet
<1>4. ASSUME NEW e \in job[p].todo, NEW k \in JobRecords,
             job' = [job EXCEPT ![p] = k],
             k.at = "walk", k.verb = job[p].verb, k.name = job[p].name,
             Walks(k, changed[p], files)
      PROVE  EndInv'
  <2>1. k \in Jobs /\ k # Idle
    BY IdleIsNone DEF Jobs, JobRecords
  <2>2. Others(p, {}) /\ changed'[p] = changed[p]
    BY <1>1, <1>4, <2>1, NotedAfter DEF EndInv
  <2>3. Holds(k)
    BY <1>1, <1>4 DEF Holds
  <2> QED
    BY <1>1, <1>2, <1>4, <2>1, <2>2, <2>3, EndQuiet
<1>5. \/ Ends(p)
      \/ \E e \in job[p].todo, k \in JobRecords :
           /\ job' = [job EXCEPT ![p] = k]
           /\ k.at = "walk" /\ k.verb = job[p].verb /\ k.name = job[p].name
           /\ Walks(k, changed[p], files)
  BY <1>1, WalkSteps, WalkGoesOn DEF EndInv
<1> QED
  BY <1>3, <1>4, <1>5

----------------------------------------------------------------------------
\* The theorems.

\* Each empty directory is some command's to look at again, and each secret a walk
\* still owes is below something it has still to visit (store.go).
THEOREM EndsInvariance == Spec => []EndInv
<1>1. EndInv /\ [Next]_vars => EndInv'
  <2> SUFFICES ASSUME EndInv, Next PROVE EndInv'
    BY EndStutter
  <2>1. TreeInv'
    BY NextInv DEF EndInv
  <2>2. PICK p \in Terminals :
          \/ HandleInsert(p) \/ HandleMv(p) \/ HandleRm(p) \/ HandleRmRecursive(p)
          \/ HandleFind(p) \/ HandleLs(p)
          \/ MkdirUp(p) \/ MkdirDown(p) \/ MkdirFails(p)
          \/ WriteFile(p) \/ Rename(p) \/ Unlink(p)
          \/ RemoveAll(p) \/ RemoveAllSkips(p) \/ RemoveAllEnds(p)
          \/ CleanRead(p) \/ CleanReadFails(p) \/ CleanRemove(p)
          \/ Walk(p) \/ PrintTree(p) \/ WalkEnds(p) \/ Interrupt(p)
    BY DEF Next
  <2> QED
    BY <2>1, <2>2, BeginnersEnd, QuietEnd, MkdirDownEnd, WriteFileEnd, RenameEnd,
       UnlinkEnd, RemoveAllEnd, RemoveAllSkipsEnd, CleanRemoveEnd, WalksEnd
<1> QED
  BY EndInit, <1>1, PTL DEF Spec

\* When all commands are through, whatever they did to each other, every empty
\* directory is one that a command may have left which was interrupted, or had a
\* system call fail for a reason of its own (a move that fails at all); one whose
\* write or MkdirAll failed because others had removed what it needed has not
\* (store.go, cleanEmptyDirs, Write and RemoveDir).
THEOREM NoDirLeftEmpty == Spec => []NoEmptyDirs
<1>1. EndInv => NoEmptyDirs
  BY DEF EndInv, NoOrphans, NoEmptyDirs, Minds, Running
<1> QED
  BY <1>1, EndsInvariance, PTL

\* A walk that ends well has found just the secrets that were there all the time,
\* of those that nobody touched (store.go, AllSecrets and List).
THEOREM StableIsListed == Spec => []StableListed
<1>1. EndInv => StableListed
  <2> SUFFICES ASSUME EndInv, NEW p \in Terminals, At(p, "walk"), job[p].todo = {},
                      NEW n \in Shown(job[p].verb, job[p].name) \ changed[p]
               PROVE  Exists(n) <=> n \in job[p].found
    BY DEF StableListed
  <2>1. Walks(job[p], changed[p], files)
    BY DEF EndInv, At
  <2> QED
    BY <2>1 DEF Walks, At, Exists
<1> QED
  BY <1>1, EndsInvariance, PTL

=============================================================================
