--------------------------- MODULE CommandsProofs ---------------------------
(***************************************************************************)
(* Theorems about Commands, for any number of terminals, secrets,          *)
(* passphrases and keyfiles.                                               *)
(*                                                                         *)
(* The invariant follows a passphrase through a command: where it came     *)
(* from decides where it may go.  It has three layers: the kinds of values *)
(* at each place (Well), what may become the fallback when no command      *)
(* takes a passphrase to write from the agent (Sourced), and, with one     *)
(* writing terminal too, under which keyfile a command writes and how far  *)
(* a rekey has come (Guarded).                                             *)
(***************************************************************************)
EXTENDS Commands, TLAPS

NoRw == "rw" \notin Modes
OneWriter == \A t, u \in Writers : t = u

Places == {"idle", "fetch", "named", "global", "ask", "remember", "edit", "write",
           "move", "remove", "list", "visit", "purge", "backup", "journal", "rewrite",
           "restore", "marker", "cleanup", "flush"}

Cmds == {"show", "grep", "insert", "edit", "cp", "mv", "rm", "start", "resume", "abort"}
Making == {"insert", "edit", "cp"}
Turning == {"start", "resume", "abort"}

Noting == {<<>>} \cup {<<p>> : p \in Paths} \cup {<<p, q>> : p \in Paths, q \in Paths}

Locals ==
    [at : Places, cmd : Cmds \cup {None}, name : Names \cup {None},
     mode : Modes \cup {None}, kf : Credential, path : Paths \cup {None},
     purpose : {"open", "new", "grep", None}, ct : Key \cup {None},
     pass : Key \cup {None}, notes : Noting, todo : SUBSET Names, job : Job \cup {None}]

\* What a command has in its hands, by its place.
Well(c) ==
    /\ c \in Locals
    /\ c.at # "idle" /\ c.cmd \in Making => c.name \in Names
    /\ c.at \in {"fetch", "named", "global", "ask", "edit"} => c.mode \in Modes
    /\ c.at = "fetch" => c.cmd \in {"show", "edit", "cp"} /\ c.path \in Names
    /\ c.at \in {"named", "global", "ask", "remember"} =>
         \/ /\ c.purpose = "open" /\ c.cmd \in {"show", "edit", "cp"}
            /\ c.path \in Names /\ c.ct \in Key
         \/ c.purpose = "new" /\ c.cmd \in Making /\ c.path \in Names
         \/ c.purpose = "grep" /\ c.cmd = "grep" /\ c.path = Global /\ c.at # "remember"
    /\ c.at = "remember" => c.mode \in Modes /\ c.notes # <<>> /\ c.pass \in Key
    /\ c.at = "edit" => c.cmd = "edit"
    /\ c.at = "write" => c.cmd \in Making /\ c.pass \in Key
    /\ c.at = "move" => c.path \in Names
    /\ c.at = "purge" => c.cmd \in Turning
    /\ c.at \in {"backup", "journal", "rewrite", "restore", "marker", "cleanup"} =>
         c.cmd \in Turning /\ c.job \in Job

\* What it notes for every secret has opened one.
Sourced(c) ==
    /\ c.ct \in proven \cup {None}
    /\ c.at \in {"named", "global"} => c.purpose # "new"
    /\ c.at = "remember" => c.pass \in proven \/ \E n \in Names : c.notes = <<n>>

Target(c) == IF c.cmd = "abort" THEN c.job.old ELSE c.job.new

\* What it writes is under the keyfile of the marker, or under that of a rekey
\* that is pending.
Guarded(c) ==
    /\ c.at # "idle" /\ c.cmd \in Making =>
         /\ journal = None /\ c.kf = marker
         /\ c.ct \in Key => c.ct.kf = marker
         /\ c.pass \in Key => c.pass.kf = marker
    /\ c.at \in {"move", "remove", "purge", "backup", "journal"} => journal = None
    /\ c.at \in {"purge", "backup", "journal"} => c.cmd = "start"
    /\ c.at \in {"backup", "journal"} => c.job.old = marker
    /\ c.at = "journal" => /\ c.job.secrets = AllSecrets /\ c.todo = AllSecrets
                           /\ \A n \in AllSecrets : backup[n] = files[n]
    /\ c.at \in {"rewrite", "restore"} =>
         journal # None /\ c.job = journal /\ c.todo \subseteq journal.secrets
    /\ c.at = "rewrite" => c.cmd # "abort"
    /\ c.at = "restore" => c.cmd = "abort"
    /\ c.at \in {"rewrite", "restore"} =>
         \A n \in AllSecrets \ c.todo : files[n].kf = Target(c)
    /\ c.at \in {"marker", "cleanup"} =>
         /\ journal = None => AllSecrets = {}
         /\ \A n \in AllSecrets : files[n].kf = Target(c)
    /\ c.at = "cleanup" => marker = Target(c)

Good(t, c) ==
    /\ Well(c)
    /\ NoRw => Sourced(c)
    /\ NoRw /\ OneWriter /\ t \in Writers => Guarded(c)

\* While a rekey is pending the backup has all it needs to be undone.
JournalKept ==
    journal # None =>
      /\ AllSecrets \subseteq journal.secrets
      /\ \A n \in journal.secrets : backup[n] \in Key /\ backup[n].kf = journal.old

Types ==
    /\ files \in [Names -> Key \cup {NoFile}]
    /\ backup \in [Names -> Key \cup {NoFile}]
    /\ journal \in Job \cup {None}
    /\ marker \in Usual
    /\ agent \in {"none", "up", "stopping"}
    /\ cache \in [Paths -> Key \cup {None}]
    /\ agent = "none" => \A p \in Paths : cache[p] = None
    /\ proven \subseteq Key

State ==
    /\ Types
    /\ \A n \in Names : {files[n], backup[n]} \subseteq proven \cup {NoFile}
    /\ NoRw => GlobalProven
    /\ NoRw /\ OneWriter => StoreOpens /\ JournalKept

CInv ==
    /\ State
    /\ term \in [Terminals -> Locals]
    /\ \A t \in Terminals : Good(t, term[t])

----------------------------------------------------------------------------
\* What a step must show: the state it leaves, and that its own command is good.
\* Others may be writing too, but then nothing is claimed of the keyfile.

LEMMA StepInv ==
    ASSUME CInv, NEW t \in Terminals, NEW d, Becomes(t, d), Good(t, d)', State',
           proven \subseteq proven', t \in Writers \/ UNCHANGED store
    PROVE  CInv'
<1>1. d \in Locals
  BY DEF Good, Well
<1>2. term' \in [Terminals -> Locals] /\ term'[t] = d
  BY <1>1 DEF CInv, Becomes
<1>3. ASSUME NEW u \in Terminals, u # t PROVE Good(u, term[u])'
  <2>1. PICK c : c = term[u]
    OBVIOUS
  <2>2. term'[u] = c /\ Good(u, c)
    BY <1>3, <2>1 DEF CInv, Becomes
  <2>3. Well(c)
    BY <2>2 DEF Good
  <2>4. NoRw => Sourced(c)'
    BY <2>2 DEF Good, Sourced
  <2>5. NoRw /\ OneWriter /\ u \in Writers => Guarded(c)'
    <3>1. CASE t \in Writers
      BY <1>3, <3>1 DEF OneWriter
    <3>2. CASE UNCHANGED store
      <4>1. NoRw /\ OneWriter /\ u \in Writers => Guarded(c)
        BY <2>2 DEF Good
      <4>2. Guarded(c) => Guarded(c)'
        BY <3>2 DEF Guarded, store, AllSecrets, Target
      <4> QED
        BY <4>1, <4>2
    <3> QED
      BY <3>1, <3>2
  <2> QED
    BY <2>2, <2>3, <2>4, <2>5 DEF Good, Well, Sourced, Guarded, Target
<1>4. Good(t, term[t])'
  BY <1>2 DEF Good, Well, Sourced, Guarded, Target
<1>5. \A u \in Terminals : Good(u, term[u])'
  BY <1>3, <1>4
<1> QED
  BY <1>2, <1>5 DEF CInv

\* A step that leaves the store alone, and one that leaves the agent alone too.
LEMMA QuietState ==
    ASSUME CInv, UNCHANGED <<store, proven>>,
           agent' \in {"none", "up", "stopping"},
           cache' \in [Paths -> Key \cup {None}],
           agent' = "none" => \A p \in Paths : cache'[p] = None,
           NoRw => cache'[Global] \in proven \cup {None}
    PROVE  State'
  BY DEF CInv, State, Types, store, GlobalProven, StoreOpens, JournalKept, AllSecrets

LEMMA SameState ==
    ASSUME CInv, UNCHANGED <<store, agent, cache, proven>> PROVE State'
  BY DEF CInv, State, Types, store, GlobalProven, StoreOpens, JournalKept, AllSecrets

LEMMA SameGood ==
    ASSUME NEW t, NEW d, Good(t, d), UNCHANGED <<store, proven>> PROVE Good(t, d)'
<1>1. Well(d)'
  BY DEF Good, Well
<1>2. NoRw => Sourced(d)'
  BY DEF Good, Sourced
<1>3. NoRw /\ OneWriter /\ t \in Writers => Guarded(d)'
  BY DEF Good, Guarded, store, AllSecrets, Target
<1> QED
  BY <1>1, <1>2, <1>3 DEF Good

----------------------------------------------------------------------------
\* What the operators that build a command's record make of it.

LEMMA IdleIs ==
    /\ Idle \in Locals /\ Idle.at = "idle" /\ Idle.name = None
    /\ Idle.ct = None /\ Idle.pass = None /\ Idle.cmd = None
  BY DEF Idle, Locals, Noting, Places, Credential

LEMMA IdleGood == \A t : Good(t, Idle)
  BY IdleIs DEF Good, Well, Sourced, Guarded

LEMMA EndInv ==
    ASSUME CInv, NEW t \in Terminals, End(t), State', proven \subseteq proven',
           t \in Writers \/ UNCHANGED store
    PROVE  CInv'
<1>1. Good(t, Idle)'
  BY IdleIs DEF Good, Well, Sourced, Guarded
<1> QED
  BY <1>1, StepInv DEF End

LEMMA FreshIs ==
    ASSUME marker \in Usual, NEW cmd \in Cmds, NEW n \in Names \cup {None},
           NEW mode \in Modes, NEW f, f = Fresh(cmd, n, mode)
    PROVE  /\ f \in Locals /\ f.cmd = cmd /\ f.name = n /\ f.mode = mode
           /\ f.kf = marker /\ f.ct = None /\ f.pass = None
<1>1. PICK i \in Locals : i = Idle /\ i.ct = None /\ i.pass = None
  BY IdleIs
<1>2. f = [i EXCEPT !.cmd = cmd, !.name = n, !.mode = mode, !.kf = marker]
  BY <1>1, Zenon DEF Fresh
<1> QED
  BY <1>1, <1>2 DEF Locals, Usual

LEMMA AskingIs ==
    ASSUME NEW c \in Locals, NEW purpose \in {"open", "new"}, NEW path \in Paths,
           NEW a, a = Asking(c, purpose, path)
    PROVE  /\ a \in Locals /\ a.at \in {"ask", "named"}
           /\ purpose = "new" /\ c.mode # "rw" => a.at = "ask"
           /\ a.purpose = purpose /\ a.path = path /\ a.pass = None
           /\ a.cmd = c.cmd /\ a.name = c.name /\ a.mode = c.mode
           /\ a.kf = c.kf /\ a.ct = c.ct
<1>1. PICK place : place = IF c.mode = "off" \/ (purpose = "new" /\ c.mode # "rw")
                           THEN "ask" ELSE "named"
  OBVIOUS
<1>2. a = [c EXCEPT !.purpose = purpose, !.path = path, !.pass = None, !.at = place]
  BY <1>1, Zenon DEF Asking
<1>3. place \in {"ask", "named"} /\ place \in Places /\ purpose \in {"open", "new", "grep", None}
  BY <1>1 DEF Places
<1>4. a \in Locals
  BY <1>2, <1>3 DEF Locals
<1>5. /\ a.at = place /\ a.purpose = purpose /\ a.path = path /\ a.pass = None
      /\ a.cmd = c.cmd /\ a.name = c.name /\ a.mode = c.mode
      /\ a.kf = c.kf /\ a.ct = c.ct
  BY <1>2, <1>3 DEF Locals
<1> QED
  BY <1>1, <1>4, <1>5

\* A command that writes and looks for the passphrase to write with.
LEMMA AskingNewGood ==
    ASSUME NEW t, NEW c \in Locals, c.cmd \in Making, c.name \in Names,
           c.mode \in Modes,
           NoRw => c.ct \in proven \cup {None},
           NoRw /\ OneWriter /\ t \in Writers =>
             /\ journal = None /\ c.kf = marker
             /\ c.ct \in Key => c.ct.kf = marker,
           NEW a, a = Asking(c, "new", c.name)
    PROVE  Good(t, a)
<1>1. /\ a \in Locals /\ a.at \in {"ask", "named"}
      /\ c.mode # "rw" => a.at = "ask"
      /\ a.purpose = "new" /\ a.path = c.name /\ a.pass = None
      /\ a.cmd = c.cmd /\ a.name = c.name /\ a.mode = c.mode
      /\ a.kf = c.kf /\ a.ct = c.ct
  BY AskingIs DEF Paths
<1>2. Well(a)
  BY <1>1 DEF Well
<1>3. NoRw => Sourced(a)
  BY <1>1 DEF NoRw, Sourced
<1>4. NoRw /\ OneWriter /\ t \in Writers => Guarded(a)
  BY <1>1, NoneAssumption DEF Guarded
<1> QED
  BY <1>2, <1>3, <1>4 DEF Good

\* A command that has its passphrase.
Supplied(t, c) ==
    /\ c \in Locals /\ c.mode \in Modes /\ c.pass \in Key
    /\ c.cmd \in Making => c.name \in Names
    /\ \/ c.purpose = "open" /\ c.cmd \in {"show", "edit", "cp"}
       \/ c.purpose = "new" /\ c.cmd \in Making
       \/ c.purpose = "grep" /\ c.cmd = "grep"
    /\ NoRw => c.ct \in proven \cup {None}
    /\ NoRw /\ OneWriter /\ t \in Writers /\ c.cmd \in Making =>
         /\ journal = None /\ c.kf = marker /\ c.pass.kf = marker
         /\ c.ct \in Key => c.ct.kf = marker

LEMMA AfterGood ==
    ASSUME NEW t, NEW c, Supplied(t, c) PROVE Good(t, After(c))
<1> USE DEF Supplied
<1>1. CASE c.purpose = "grep"
  <2>1. PICK d : d = [c EXCEPT !.at = "list"]
    OBVIOUS
  <2>2. After(c) = d
    BY <1>1, <2>1, Zenon DEF After
  <2>3. d \in Locals /\ d.at = "list" /\ d.cmd = "grep" /\ d.ct = c.ct
    BY <1>1, <2>1 DEF Locals, Places, Making
  <2>4. Good(t, d)
    BY <2>3 DEF Good, Well, Sourced, Guarded, Making
  <2> QED
    BY <2>2, <2>4
<1>2. CASE c.purpose = "new"
  <2>1. PICK d : d = [c EXCEPT !.at = "write"]
    OBVIOUS
  <2>2. After(c) = d
    BY <1>2, <2>1, Zenon DEF After
  <2>3. /\ d \in Locals /\ d.at = "write" /\ d.cmd = c.cmd /\ d.name = c.name
        /\ d.ct = c.ct /\ d.pass = c.pass /\ d.kf = c.kf
    BY <2>1 DEF Locals, Places
  <2>4. Good(t, d)
    BY <1>2, <2>3 DEF Good, Well, Sourced, Guarded
  <2> QED
    BY <2>2, <2>4
<1>3. CASE c.purpose = "open" /\ c.cmd = "edit"
  <2>1. PICK d : d = [c EXCEPT !.at = "edit"]
    OBVIOUS
  <2>2. After(c) = d
    BY <1>3, <2>1, Zenon DEF After
  <2>3. /\ d \in Locals /\ d.at = "edit" /\ d.cmd = "edit" /\ d.name = c.name
        /\ d.ct = c.ct /\ d.pass = c.pass /\ d.kf = c.kf /\ d.mode = c.mode
    BY <1>3, <2>1 DEF Locals, Places
  <2>4. Good(t, d)
    BY <1>3, <2>3 DEF Good, Well, Sourced, Guarded, Making
  <2> QED
    BY <2>2, <2>4
<1>4. CASE c.purpose = "open" /\ c.cmd = "cp"
  <2>1. PICK a : a = Asking(c, "new", c.name)
    OBVIOUS
  <2>2. PICK d : d = [a EXCEPT !.ct = None]
    OBVIOUS
  <2>3. After(c) = d
    BY <1>4, <2>1, <2>2, Zenon DEF After
  <2>4. /\ a \in Locals /\ a.at \in {"ask", "named"}
        /\ c.mode # "rw" => a.at = "ask"
        /\ a.purpose = "new" /\ a.path = c.name /\ a.pass = None
        /\ a.cmd = c.cmd /\ a.name = c.name /\ a.mode = c.mode /\ a.kf = c.kf
    BY <1>4, <2>1, AskingIs DEF Making, Paths
  <2>5. /\ d \in Locals /\ d.at = a.at /\ d.purpose = "new" /\ d.path = c.name
        /\ d.pass = None /\ d.cmd = "cp" /\ d.name = c.name /\ d.mode = c.mode
        /\ d.kf = c.kf /\ d.ct = None
    BY <1>4, <2>2, <2>4 DEF Locals
  <2>6. Good(t, d)
    BY <1>4, <2>4, <2>5, NoneAssumption DEF Good, Well, Sourced, Guarded, Making, NoRw
  <2> QED
    BY <2>3, <2>6
<1>5. CASE c.purpose = "open" /\ c.cmd = "show"
  <2>1. After(c) = Idle
    BY <1>5, Zenon DEF After
  <2> QED
    BY <2>1, IdleGood
<1> QED
  BY <1>1, <1>2, <1>3, <1>4, <1>5

\* Got: with a passphrase from wherever, and the paths to note it under.
LEMMA GotInv ==
    ASSUME CInv, NEW t \in Terminals, NEW c, c = term[t],
           c.at \in {"named", "global", "ask"},
           NEW k \in Key, NEW notes \in Noting, Got(t, k, notes),
           c.purpose = "grep" => notes = <<>>,
           NoRw => notes = <<>> \/ k \in proven \/ \E n \in Names : notes = <<n>>,
           NoRw /\ OneWriter /\ t \in Writers /\ c.cmd \in Making => k.kf = marker,
           State', UNCHANGED <<store, proven>>
    PROVE  CInv'
<1>1. PICK d : d = [c EXCEPT !.pass = k, !.notes = notes]
  OBVIOUS
<1>2. PICK e : e = [d EXCEPT !.at = "remember"]
  OBVIOUS
<1>3. Becomes(t, IF notes = <<>> THEN After(d) ELSE e)
  BY <1>1, <1>2, Zenon DEF Got
<1>4. Good(t, c) /\ c \in Locals
  BY DEF CInv
<1>5. /\ d \in Locals /\ d.pass = k /\ d.notes = notes /\ d.mode = c.mode
      /\ d.cmd = c.cmd /\ d.name = c.name /\ d.purpose = c.purpose /\ d.ct = c.ct
      /\ d.kf = c.kf /\ d.path = c.path
  BY <1>1, <1>4 DEF Locals
<1>6. Supplied(t, d)
  BY <1>4, <1>5 DEF Supplied, Good, Well, Sourced, Guarded
<1>7. /\ e \in Locals /\ e.at = "remember" /\ e.pass = k /\ e.notes = notes
      /\ e.mode = c.mode /\ e.cmd = c.cmd /\ e.name = c.name /\ e.ct = c.ct
      /\ e.purpose = c.purpose /\ e.kf = c.kf /\ e.path = c.path
  BY <1>2, <1>5 DEF Locals, Places
<1>8. notes # <<>> => Good(t, e)
  BY <1>4, <1>7 DEF Good, Well, Sourced, Guarded
<1>9. PICK f : Becomes(t, f) /\ Good(t, f)
  BY <1>3, <1>6, <1>8, AfterGood
<1>10. Good(t, f)'
  BY <1>9, SameGood
<1> QED
  BY <1>9, <1>10, StepInv

\* A command goes on in another place, with what it has.
LEMMA GotoIs ==
    ASSUME NEW c \in Locals, NEW there \in Places, NEW d, d = [c EXCEPT !.at = there]
    PROVE  /\ d \in Locals /\ d.at = there /\ d.pass = c.pass /\ d.notes = c.notes
           /\ d.mode = c.mode /\ d.cmd = c.cmd /\ d.name = c.name /\ d.ct = c.ct
           /\ d.purpose = c.purpose /\ d.kf = c.kf /\ d.path = c.path
           /\ d.job = c.job /\ d.todo = c.todo
  BY DEF Locals

\* From one place to look for a passphrase to the next.
LEMMA LooksOnInv ==
    ASSUME CInv, NEW t \in Terminals,
           \/ term[t].at = "named" /\ Goto(t, "global")
           \/ term[t].at \in {"named", "global"} /\ Goto(t, "ask"),
           State', UNCHANGED <<store, proven>>
    PROVE  CInv'
<1>1. PICK c : c = term[t]
  OBVIOUS
<1>2. Good(t, c) /\ c \in Locals
  BY <1>1 DEF CInv
<1>3. PICK there \in {"global", "ask"} :
         Goto(t, there) /\ c.at \in {"named", "global"}
  BY <1>1
<1>4. PICK d : d = [c EXCEPT !.at = there]
  OBVIOUS
<1>5. Becomes(t, d)
  BY <1>1, <1>3, <1>4, Zenon DEF Goto
<1>6. /\ d \in Locals /\ d.at = there /\ d.pass = c.pass
      /\ d.mode = c.mode /\ d.cmd = c.cmd /\ d.name = c.name /\ d.ct = c.ct
      /\ d.purpose = c.purpose /\ d.kf = c.kf /\ d.path = c.path
  BY <1>2, <1>4, GotoIs DEF Places
<1>7. Good(t, d)
  BY <1>2, <1>3, <1>6 DEF Good, Well, Sourced, Guarded
<1>8. Good(t, d)'
  BY <1>7, SameGood
<1> QED
  BY <1>5, <1>8, StepInv

----------------------------------------------------------------------------
\* The steps of commands that read, and how all look for a passphrase.

LEMMA FetchInv == ASSUME CInv, NEW t \in Terminals, Fetch(t) PROVE CInv'
<1>1. PICK c : c = term[t]
  OBVIOUS
<1>2. Good(t, c) /\ c \in Locals /\ c.at = "fetch" /\ State'
      /\ UNCHANGED <<store, proven>>
  BY <1>1, SameState DEF CInv, Fetch, At
<1>3. c.path \in Names /\ c.cmd \in {"show", "edit", "cp"} /\ c.mode \in Modes
  BY <1>2 DEF Good, Well
<1>4. CASE files[c.path] = NoFile
  <2>1. End(t)
    BY <1>1, <1>4 DEF Fetch
  <2> QED
    BY <1>2, <2>1, EndInv
<1>5. CASE files[c.path] # NoFile
  <2>1. PICK a : a = Asking(c, "open", c.path)
    OBVIOUS
  <2>2. PICK d : d = [a EXCEPT !.ct = files[c.path]]
    OBVIOUS
  <2>3. Becomes(t, d)
    BY <1>1, <1>5, <2>1, <2>2, Zenon DEF Fetch
  <2>4. /\ a \in Locals /\ a.at \in {"ask", "named"}
        /\ a.purpose = "open" /\ a.path = c.path /\ a.pass = None
        /\ a.cmd = c.cmd /\ a.name = c.name /\ a.mode = c.mode /\ a.kf = c.kf
    BY <1>2, <1>3, <2>1, AskingIs DEF Paths
  <2>5. files[c.path] \in Key /\ files[c.path] \in proven
    BY <1>3, <1>5 DEF CInv, State, Types
  <2>6. /\ d \in Locals /\ d.at = a.at /\ d.purpose = "open" /\ d.path = c.path
        /\ d.pass = None /\ d.cmd = c.cmd /\ d.name = c.name /\ d.mode = c.mode
        /\ d.kf = c.kf /\ d.ct = files[c.path]
    BY <2>2, <2>4, <2>5 DEF Locals
  <2>7. Well(d)
    BY <1>2, <1>3, <2>4, <2>5, <2>6 DEF Good, Well
  <2>8. NoRw => Sourced(d)
    BY <2>4, <2>5, <2>6 DEF Sourced
  <2>9. NoRw /\ OneWriter /\ t \in Writers => Guarded(d)
    BY <1>2, <1>3, <1>5, <2>4, <2>6, NoneAssumption
       DEF CInv, State, Good, Guarded, StoreOpens, AllSecrets
  <2>10. Good(t, d)'
    BY <1>2, <2>7, <2>8, <2>9, SameGood DEF Good
  <2> QED
    BY <1>2, <2>3, <2>10, StepInv
<1> QED
  BY <1>4, <1>5

LEMMA GetNamedInv == ASSUME CInv, NEW t \in Terminals, GetNamed(t) PROVE CInv'
<1>1. PICK c : c = term[t]
  OBVIOUS
<1>2. Good(t, c) /\ c \in Locals /\ c.at = "named" /\ UNCHANGED <<store, proven>>
  BY <1>1 DEF CInv, GetNamed, At
<1>3. State'
  BY <1>1, QuietState DEF CInv, State, Types, GetNamed, AgentFor, GlobalProven
<1>4. CASE Usable(c, cache[c.path])
  <2>1. Got(t, cache[c.path], <<>>)
    BY <1>1, <1>4 DEF GetNamed
  <2>2. cache[c.path] \in Key /\ <<>> \in Noting
    BY <1>2, <1>4 DEF CInv, State, Types, Good, Well, Usable, Noting, Paths
  <2>3. NoRw /\ OneWriter /\ t \in Writers /\ c.cmd \in Making =>
          cache[c.path].kf = marker
    BY <1>2, <1>4 DEF Usable, Good, Well, Sourced, Guarded, Making
  <2> QED
    BY <1>1, <1>2, <1>3, <2>1, <2>2, <2>3, GotInv
<1>5. CASE ~Usable(c, cache[c.path])
  BY <1>1, <1>2, <1>3, <1>5, LooksOnInv DEF GetNamed
<1> QED
  BY <1>4, <1>5

LEMMA GetGlobalInv == ASSUME CInv, NEW t \in Terminals, GetGlobal(t) PROVE CInv'
<1>1. PICK c : c = term[t]
  OBVIOUS
<1>2. Good(t, c) /\ c \in Locals /\ c.at = "global" /\ UNCHANGED <<store, proven>>
  BY <1>1 DEF CInv, GetGlobal, At
<1>3. State'
  BY <1>1, QuietState DEF CInv, State, Types, GetGlobal, AgentFor, GlobalProven
<1>4. CASE Usable(c, cache[Global])
  <2>1. PICK notes : notes = IF c.purpose = "grep" THEN <<>> ELSE <<c.path>>
    OBVIOUS
  <2>2. Got(t, cache[Global], notes)
    BY <1>1, <1>4, <2>1, Zenon DEF GetGlobal
  <2>3. cache[Global] \in Key
    BY <1>2, <1>4 DEF CInv, State, Types, Usable, Paths
  <2>4. /\ notes \in Noting
        /\ c.purpose = "grep" => notes = <<>>
        /\ NoRw => notes = <<>> \/ cache[Global] \in proven \/ \E n \in Names : notes = <<n>>
    BY <1>2, <2>1 DEF Good, Well, Noting, Paths
  <2>5. NoRw /\ OneWriter /\ t \in Writers /\ c.cmd \in Making =>
          cache[Global].kf = marker
    BY <1>2, <1>4 DEF Usable, Good, Well, Sourced, Guarded, Making
  <2> QED
    BY <1>1, <1>2, <1>3, <2>2, <2>3, <2>4, <2>5, GotInv
<1>5. CASE ~Usable(c, cache[Global])
  BY <1>1, <1>2, <1>3, <1>5, LooksOnInv DEF GetGlobal
<1> QED
  BY <1>4, <1>5

LEMMA AskInv == ASSUME CInv, NEW t \in Terminals, Ask(t) PROVE CInv'
<1>1. PICK c : c = term[t]
  OBVIOUS
<1>2. Good(t, c) /\ c \in Locals /\ c.at = "ask" /\ State'
      /\ UNCHANGED <<store, proven>>
  BY <1>1, SameState DEF CInv, Ask, At
<1>3. PICK r \in Raws :
        IF c.purpose = "open" /\ ApplyKeyfile(r, c.kf) # c.ct
        THEN End(t) ELSE Got(t, ApplyKeyfile(r, c.kf), Notes(c))
  BY <1>1 DEF Ask
<1>4. PICK k : k = ApplyKeyfile(r, c.kf)
  OBVIOUS
<1>7. k \in Key /\ k.kf = c.kf
  BY <1>2, <1>4 DEF ApplyKeyfile, Key, Locals
<1>5. CASE c.purpose = "open" /\ k # c.ct
  BY <1>2, <1>3, <1>4, <1>5, EndInv
<1>6. CASE ~(c.purpose = "open" /\ k # c.ct)
  <2>1. Got(t, k, Notes(c))
    BY <1>3, <1>4, <1>6
  <2>2. /\ Notes(c) \in Noting
        /\ c.purpose = "grep" => Notes(c) = <<>>
        /\ NoRw /\ c.purpose # "open" =>
             Notes(c) = <<>> \/ \E n \in Names : Notes(c) = <<n>>
    BY <1>2 DEF Notes, Noting, Good, Well, Paths, NoRw
  <2>3. NoRw => Notes(c) = <<>> \/ k \in proven \/ \E n \in Names : Notes(c) = <<n>>
    BY <1>2, <1>6, <2>2, NoneAssumption DEF Good, Sourced, Well
  <2>4. NoRw /\ OneWriter /\ t \in Writers /\ c.cmd \in Making => k.kf = marker
    BY <1>2, <1>7 DEF Good, Guarded
  <2> QED
    BY <1>1, <1>2, <1>7, <2>1, <2>2, <2>3, <2>4, GotInv
<1> QED
  BY <1>5, <1>6

\* The first path of those under which a passphrase is to be noted, and the rest.
LEMMA NotingIs ==
    ASSUME NEW notes \in Noting, notes # <<>>
    PROVE  /\ Head(notes) \in Paths /\ Tail(notes) \in Noting
           /\ \A n \in Paths : notes = <<n>> => Tail(notes) = <<>> /\ Head(notes) = n
<1>1. CASE \E p \in Paths : notes = <<p>>
  <2>1. PICK p \in Paths : notes = <<p>>
    BY <1>1
  <2>2. Head(notes) = p /\ Tail(notes) = <<>>
    BY <2>1
  <2> QED
    BY <2>1, <2>2 DEF Noting
<1>2. CASE \E p, q \in Paths : notes = <<p, q>>
  <2>1. PICK p \in Paths, q \in Paths : notes = <<p, q>>
    BY <1>2
  <2>2. Head(notes) = p /\ Tail(notes) = <<q>> /\ \A n : notes # <<n>>
    BY <2>1
  <2> QED
    BY <2>1, <2>2 DEF Noting
<1> QED
  BY <1>1, <1>2 DEF Noting

LEMMA NotedGood ==
    ASSUME NEW t, NEW c, Good(t, c), c.at = "remember" PROVE Good(t, Noted(c))
<1>1. PICK d : d = [c EXCEPT !.notes = Tail(c.notes)]
  OBVIOUS
<1>2. Noted(c) = IF d.notes = <<>> THEN After(d) ELSE d
  BY <1>1, Zenon DEF Noted
<1>3. c \in Locals /\ c.notes \in Noting /\ c.notes # <<>>
  BY DEF Good, Well, Locals
<1>4. Tail(c.notes) \in Noting /\ \A n \in Paths : c.notes = <<n>> => Tail(c.notes) = <<>>
  BY <1>3, NotingIs
<1>5. /\ d \in Locals /\ d.at = "remember" /\ d.pass = c.pass
      /\ d.notes = Tail(c.notes) /\ d.mode = c.mode /\ d.cmd = c.cmd
      /\ d.name = c.name /\ d.purpose = c.purpose /\ d.ct = c.ct
      /\ d.kf = c.kf /\ d.path = c.path
  BY <1>1, <1>3, <1>4 DEF Locals
<1>6. Supplied(t, d)
  BY <1>5 DEF Supplied, Good, Well, Sourced, Guarded
<1>7. ASSUME d.notes # <<>> PROVE Good(t, d)
  <2>1. Well(d)
    BY <1>5, <1>7 DEF Good, Well
  <2>2. NoRw => Sourced(d)
    BY <1>4, <1>5, <1>7 DEF Good, Sourced, Paths
  <2>3. NoRw /\ OneWriter /\ t \in Writers => Guarded(d)
    BY <1>5 DEF Good, Guarded
  <2> QED
    BY <2>1, <2>2, <2>3 DEF Good
<1> QED
  BY <1>2, <1>6, <1>7, AfterGood

LEMMA NotedInv ==
    ASSUME CInv, NEW t \in Terminals, term[t].at = "remember",
           Becomes(t, Noted(term[t])), State', UNCHANGED <<store, proven>>
    PROVE  CInv'
<1>1. PICK c : c = term[t]
  OBVIOUS
<1>2. PICK d : d = Noted(c)
  OBVIOUS
<1>3. Good(t, d)
  BY <1>1, <1>2, NotedGood DEF CInv
<1>4. Becomes(t, d)
  BY <1>1, <1>2
<1>5. Good(t, d)'
  BY <1>3, SameGood
<1> QED
  BY <1>4, <1>5, StepInv

LEMMA RememberInv == ASSUME CInv, NEW t \in Terminals, Remember(t) PROVE CInv'
<1>1. PICK c : c = term[t]
  OBVIOUS
<1>2. /\ Good(t, c) /\ c \in Locals /\ c.at = "remember"
      /\ UNCHANGED <<store, proven>>
      /\ agent' = IF agent = "none" THEN "up" ELSE agent
      /\ cache' = [cache EXCEPT ![Head(c.notes)] = c.pass]
  BY <1>1 DEF CInv, Remember, At
<1>3. c.notes \in Noting /\ c.notes # <<>> /\ c.pass \in Key
  BY <1>2 DEF Good, Well, Locals
<1>4. PICK p \in Paths : p = Head(c.notes) /\ \A n \in Paths : c.notes = <<n>> => p = n
  BY <1>3, NotingIs
<1>5. NoRw => p # Global \/ c.pass \in proven
  BY <1>2, <1>4, GlobalAssumption DEF Good, Sourced, Paths
<1>6. cache' = [cache EXCEPT ![p] = c.pass]
  BY <1>2, <1>4
<1>7. NoRw => cache'[Global] \in proven \cup {None}
  BY <1>5, <1>6 DEF CInv, State, Types, GlobalProven, Paths
<1>8. cache' \in [Paths -> Key \cup {None}] /\ agent' \in {"up", "stopping"}
  BY <1>2, <1>3, <1>6 DEF CInv, State, Types
<1>9. State'
  BY <1>2, <1>7, <1>8, QuietState
<1> QED
  BY <1>1, <1>2, <1>9, NotedInv DEF Remember

LEMMA NoAnswerInv == ASSUME CInv, NEW t \in Terminals, NoAnswer(t) PROVE CInv'
<1>1. State' /\ UNCHANGED <<store, proven>>
  BY SameState DEF NoAnswer
<1> QED
  BY <1>1, LooksOnInv, NotedInv DEF NoAnswer, At

LEMMA ListSecretsInv == ASSUME CInv, NEW t \in Terminals, ListSecrets(t) PROVE CInv'
<1>1. State' /\ UNCHANGED <<store, proven>>
  BY SameState DEF ListSecrets
<1>2. CASE AllSecrets = {}
  BY <1>1, <1>2, EndInv DEF ListSecrets, End
<1>3. CASE AllSecrets # {}
  <2>1. PICK c : c = term[t]
    OBVIOUS
  <2>2. Good(t, c) /\ c \in Locals /\ c.at = "list"
    BY <2>1 DEF CInv, ListSecrets, At
  <2>3. PICK d : d = [c EXCEPT !.at = "visit", !.todo = AllSecrets]
    OBVIOUS
  <2>4. Becomes(t, d)
    BY <1>3, <2>1, <2>3, Zenon DEF ListSecrets
  <2>5. /\ d \in Locals /\ d.at = "visit" /\ d.pass = c.pass /\ d.mode = c.mode
        /\ d.cmd = c.cmd /\ d.name = c.name /\ d.ct = c.ct /\ d.kf = c.kf
    BY <2>2, <2>3 DEF Locals, Places, AllSecrets
  <2>6. Good(t, d)
    BY <2>2, <2>5 DEF Good, Well, Sourced, Guarded
  <2>7. Good(t, d)'
    BY <1>1, <2>6, SameGood
  <2> QED
    BY <1>1, <2>4, <2>7, StepInv
<1> QED
  BY <1>2, <1>3

LEMMA VisitInv ==
    ASSUME CInv, NEW t \in Terminals, NEW n \in Names, Visit(t, n) PROVE CInv'
<1>1. PICK c : c = term[t]
  OBVIOUS
<1>2. Good(t, c) /\ c \in Locals /\ c.at = "visit" /\ UNCHANGED <<store, proven>>
  BY <1>1 DEF CInv, Visit, At
<1>3. /\ agent' \in {"none", "up", "stopping"}
      /\ cache' \in [Paths -> Key \cup {None}]
      /\ agent' = "none" => \A p \in Paths : cache'[p] = None
      /\ cache'[Global] = cache[Global]
  BY <1>1, <1>2, GlobalAssumption DEF Visit, CInv, State, Types, Paths, Locals
<1>4. State'
  BY <1>2, <1>3, QuietState DEF CInv, State, GlobalProven
<1>5. CASE c.todo = {n}
  BY <1>1, <1>2, <1>4, <1>5, EndInv DEF Visit, End
<1>6. CASE c.todo # {n}
  <2>1. PICK d : d = [c EXCEPT !.todo = c.todo \ {n}]
    OBVIOUS
  <2>2. Becomes(t, d)
    BY <1>1, <1>6, <2>1, Zenon DEF Visit
  <2>3. /\ d \in Locals /\ d.at = "visit" /\ d.pass = c.pass /\ d.mode = c.mode
        /\ d.cmd = c.cmd /\ d.name = c.name /\ d.ct = c.ct /\ d.kf = c.kf
    BY <1>2, <2>1 DEF Locals
  <2>4. Good(t, d)
    BY <1>2, <2>3 DEF Good, Well, Sourced, Guarded
  <2>5. Good(t, d)'
    BY <1>2, <2>4, SameGood
  <2> QED
    BY <1>2, <1>4, <2>2, <2>5, StepInv
<1> QED
  BY <1>5, <1>6

LEMMA InterruptInv == ASSUME CInv, NEW t \in Terminals, Interrupt(t) PROVE CInv'
<1>1. State' /\ UNCHANGED <<store, proven>>
  BY SameState DEF Interrupt
<1> QED
  BY <1>1, EndInv DEF Interrupt

----------------------------------------------------------------------------
\* How commands begin.

LEMMA BeginnerInv ==
    ASSUME CInv, NEW t \in Terminals, Begin(t), NEW d, Becomes(t, d), Good(t, d)
    PROVE  CInv'
<1>1. State' /\ UNCHANGED <<store, proven>>
  BY SameState DEF Begin
<1>2. Good(t, d)'
  BY <1>1, SameGood
<1> QED
  BY <1>1, <1>2, StepInv

LEMMA HandleShowInv == ASSUME CInv, NEW t \in Terminals, HandleShow(t) PROVE CInv'
<1>1. PICK n \in AllSecrets, mode \in Modes :
        Becomes(t, [Fresh("show", n, mode) EXCEPT !.at = "fetch", !.path = n])
  BY DEF HandleShow
<1>2. PICK f : f = Fresh("show", n, mode)
  OBVIOUS
<1>3. PICK d : d = [f EXCEPT !.at = "fetch", !.path = n]
  OBVIOUS
<1>4. Becomes(t, d)
  BY <1>1, <1>2, <1>3, Zenon
<1>5. n \in Names /\ marker \in Usual
  BY DEF AllSecrets, CInv, State, Types
<1>6. f \in Locals /\ f.cmd = "show" /\ f.mode = mode /\ f.ct = None
  BY <1>2, <1>5, FreshIs DEF Cmds
<1>7. /\ d \in Locals /\ d.at = "fetch" /\ d.path = n /\ d.cmd = "show"
      /\ d.mode = mode /\ d.ct = None
  <2>1. "fetch" \in Places /\ n \in Paths
    BY <1>5 DEF Places, Paths
  <2>2. d \in Locals
    <3>1. f \in Locals
      BY <1>6
    <3> QED
      BY <1>3, <2>1, <3>1 DEF Locals
  <2>3. d.at = "fetch" /\ d.path = n /\ d.cmd = f.cmd /\ d.mode = f.mode /\ d.ct = f.ct
    BY <1>3, <1>6 DEF Locals
  <2> QED
    BY <1>6, <2>2, <2>3
<1>8. Good(t, d)
  BY <1>5, <1>7 DEF Good, Well, Sourced, Guarded, Making
<1> QED
  BY <1>4, <1>8, BeginnerInv DEF HandleShow

LEMMA HandleGrepInv == ASSUME CInv, NEW t \in Terminals, HandleGrep(t) PROVE CInv'
<1>1. PICK mode \in Modes :
        Becomes(t, [Fresh("grep", None, mode) EXCEPT
           !.purpose = "grep", !.path = Global,
           !.at = IF mode = "off" THEN "ask" ELSE "global"])
  BY DEF HandleGrep
<1>2. PICK f : f = Fresh("grep", None, mode)
  OBVIOUS
<1>3. PICK place : place = IF mode = "off" THEN "ask" ELSE "global"
  OBVIOUS
<1>4. PICK d : d = [f EXCEPT !.purpose = "grep", !.path = Global, !.at = place]
  OBVIOUS
<1>5. Becomes(t, d)
  BY <1>1, <1>2, <1>3, <1>4, Zenon
<1>9. marker \in Usual /\ "grep" \in Cmds /\ None \in Names \cup {None}
  BY DEF Cmds, CInv, State, Types
<1>6. f \in Locals /\ f.cmd = "grep" /\ f.mode = mode /\ f.ct = None
  BY <1>2, <1>9, FreshIs
<1>10. place \in Places /\ place \in {"ask", "global"} /\ Global \in Paths
  BY <1>3 DEF Places, Paths
<1>7. /\ d \in Locals /\ d.at \in {"ask", "global"} /\ d.path = Global
      /\ d.purpose = "grep" /\ d.cmd = "grep" /\ d.mode = mode /\ d.ct = None
  <2>1. d \in Locals
    <3>1. f \in Locals
      BY <1>6
    <3> QED
      BY <1>4, <1>10, <3>1 DEF Locals
  <2>2. /\ d.at = place /\ d.path = Global /\ d.purpose = "grep"
        /\ d.cmd = f.cmd /\ d.mode = f.mode /\ d.ct = f.ct
    BY <1>4, <1>6 DEF Locals
  <2> QED
    BY <1>6, <1>10, <2>1, <2>2
<1>8. Good(t, d)
  BY <1>7 DEF Good, Well, Sourced, Guarded, Making
<1> QED
  BY <1>5, <1>8, BeginnerInv DEF HandleGrep

LEMMA HandleInsertInv == ASSUME CInv, NEW t \in Terminals, HandleInsert(t) PROVE CInv'
<1>1. PICK n \in Names, mode \in Modes :
        Becomes(t, Asking(Fresh("insert", n, mode), "new", n))
  BY DEF HandleInsert
<1>2. PICK f : f = Fresh("insert", n, mode)
  OBVIOUS
<1>3. PICK d : d = Asking(f, "new", n)
  OBVIOUS
<1>4. Becomes(t, d)
  BY <1>1, <1>2, <1>3
<1>5. /\ f \in Locals /\ f.cmd = "insert" /\ f.name = n /\ f.mode = mode
      /\ f.ct = None /\ f.kf = marker
  BY <1>2, FreshIs DEF Cmds, CInv, State, Types
<1>6. Good(t, d)
  BY <1>3, <1>5, AskingNewGood, NoneAssumption DEF Making, HandleInsert, NoActiveRekey
<1> QED
  BY <1>4, <1>6, BeginnerInv DEF HandleInsert

LEMMA HandleEditInv == ASSUME CInv, NEW t \in Terminals, HandleEdit(t) PROVE CInv'
<1>1. PICK n \in Names, mode \in Modes :
        Becomes(t, [Fresh("edit", n, mode) EXCEPT
           !.at = IF n \in AllSecrets THEN "fetch" ELSE "edit", !.path = n])
  BY DEF HandleEdit
<1>2. PICK f : f = Fresh("edit", n, mode)
  OBVIOUS
<1>3. PICK place : place = IF n \in AllSecrets THEN "fetch" ELSE "edit"
  OBVIOUS
<1>4. PICK d : d = [f EXCEPT !.at = place, !.path = n]
  OBVIOUS
<1>5. Becomes(t, d)
  BY <1>1, <1>2, <1>3, <1>4, Zenon
<1>6. /\ f \in Locals /\ f.cmd = "edit" /\ f.name = n /\ f.mode = mode
      /\ f.ct = None /\ f.pass = None /\ f.kf = marker
  BY <1>2, FreshIs DEF Cmds, CInv, State, Types
<1>7. /\ d \in Locals /\ d.at \in {"fetch", "edit"} /\ d.path = n
      /\ d.cmd = "edit" /\ d.name = n /\ d.mode = mode
      /\ d.ct = None /\ d.pass = None /\ d.kf = marker
  <2>1. place \in Places /\ place \in {"fetch", "edit"} /\ n \in Paths
    BY <1>3 DEF Places, Paths
  <2> QED
    BY <1>4, <1>6, <2>1 DEF Locals
<1>8. Good(t, d)
  BY <1>7, NoneAssumption DEF Good, Well, Sourced, Guarded, Making, HandleEdit, NoActiveRekey
<1> QED
  BY <1>5, <1>8, BeginnerInv DEF HandleEdit

LEMMA HandleCpInv == ASSUME CInv, NEW t \in Terminals, HandleCp(t) PROVE CInv'
<1>1. PICK n \in AllSecrets, m \in Names, mode \in Modes :
        Becomes(t, [Fresh("cp", m, mode) EXCEPT !.at = "fetch", !.path = n])
  BY DEF HandleCp
<1>2. PICK f : f = Fresh("cp", m, mode)
  OBVIOUS
<1>3. PICK d : d = [f EXCEPT !.at = "fetch", !.path = n]
  OBVIOUS
<1>4. Becomes(t, d)
  BY <1>1, <1>2, <1>3, Zenon
<1>5. n \in Names
  BY DEF AllSecrets
<1>6. /\ f \in Locals /\ f.cmd = "cp" /\ f.name = m /\ f.mode = mode
      /\ f.ct = None /\ f.pass = None /\ f.kf = marker
  BY <1>2, FreshIs DEF Cmds, CInv, State, Types
<1>7. /\ d \in Locals /\ d.at = "fetch" /\ d.path = n
      /\ d.cmd = "cp" /\ d.name = m /\ d.mode = mode
      /\ d.ct = None /\ d.pass = None /\ d.kf = marker
  <2>1. "fetch" \in Places /\ n \in Paths
    BY <1>5 DEF Places, Paths
  <2> QED
    BY <1>3, <1>6, <2>1 DEF Locals
<1>8. Good(t, d)
  BY <1>5, <1>7, NoneAssumption DEF Good, Well, Sourced, Guarded, Making, HandleCp, NoActiveRekey
<1> QED
  BY <1>4, <1>8, BeginnerInv DEF HandleCp

\* The others begin with nothing but their places.
Plain(place, cmd) == [Idle EXCEPT !.at = place, !.cmd = cmd]

LEMMA PlainIs ==
    ASSUME NEW place \in Places, NEW cmd \in Cmds, NEW d, d = Plain(place, cmd)
    PROVE  d \in Locals /\ d.at = place /\ d.cmd = cmd /\ d.ct = None
<1>1. PICK i : i = Idle
  OBVIOUS
<1>2. i \in Locals /\ i.ct = None
  BY <1>1, IdleIs
<1>3. d = [i EXCEPT !.at = place, !.cmd = cmd]
  BY <1>1, Zenon DEF Plain
<1> QED
  BY <1>2, <1>3 DEF Locals

LEMMA HandleMvInv == ASSUME CInv, NEW t \in Terminals, HandleMv(t) PROVE CInv'
<1>1. PICK n \in AllSecrets, m \in Names :
        Becomes(t, [Idle EXCEPT !.at = "move", !.cmd = "mv", !.path = n, !.name = m])
  BY DEF HandleMv
<1>2. PICK f : f = Plain("move", "mv")
  OBVIOUS
<1>3. PICK d : d = [f EXCEPT !.path = n, !.name = m]
  OBVIOUS
<1>4. Becomes(t, d)
  BY <1>1, <1>2, <1>3, Zenon DEF Plain
<1>5. f \in Locals /\ f.at = "move" /\ f.cmd = "mv" /\ f.ct = None
  <2>1. "move" \in Places /\ "mv" \in Cmds
    BY DEF Places, Cmds
  <2> QED
    BY <1>2, <2>1, PlainIs
<1>6. n \in Paths
  BY DEF AllSecrets, Paths
<1>7. d \in Locals /\ d.at = "move" /\ d.cmd = "mv" /\ d.ct = None /\ d.path \in Names
  <2>1. d \in Locals
    <3>1. f \in Locals
      BY <1>5
    <3> QED
      BY <1>3, <1>6, <3>1 DEF Locals
  <2>2. d.at = f.at /\ d.cmd = f.cmd /\ d.ct = f.ct /\ d.path = n
    BY <1>3, <1>5 DEF Locals
  <2> QED
    BY <1>5, <2>1, <2>2 DEF AllSecrets
<1>8. Good(t, d)
  BY <1>7 DEF Good, Well, Sourced, Guarded, Making, HandleMv, NoActiveRekey
<1> QED
  BY <1>4, <1>8, BeginnerInv DEF HandleMv

LEMMA HandleRmInv == ASSUME CInv, NEW t \in Terminals, HandleRm(t) PROVE CInv'
<1>1. PICK n \in AllSecrets :
        Becomes(t, [Idle EXCEPT !.at = "remove", !.cmd = "rm", !.name = n])
  BY DEF HandleRm
<1>2. PICK f : f = Plain("remove", "rm")
  OBVIOUS
<1>3. PICK d : d = [f EXCEPT !.name = n]
  OBVIOUS
<1>4. Becomes(t, d)
  BY <1>1, <1>2, <1>3, Zenon DEF Plain
<1>5. f \in Locals /\ f.at = "remove" /\ f.cmd = "rm" /\ f.ct = None
  <2>1. "remove" \in Places /\ "rm" \in Cmds
    BY DEF Places, Cmds
  <2> QED
    BY <1>2, <2>1, PlainIs
<1>6. n \in Names
  BY DEF AllSecrets
<1>7. d \in Locals /\ d.at = "remove" /\ d.cmd = "rm" /\ d.ct = None
  BY <1>3, <1>5, <1>6 DEF Locals
<1>8. Good(t, d)
  BY <1>7 DEF Good, Well, Sourced, Guarded, Making, HandleRm, NoActiveRekey
<1> QED
  BY <1>4, <1>8, BeginnerInv DEF HandleRm

LEMMA RekeyStartInv == ASSUME CInv, NEW t \in Terminals, RekeyStart(t) PROVE CInv'
<1>1. PICK d : d = Plain("purge", "start")
  OBVIOUS
<1>2. d \in Locals /\ d.at = "purge" /\ d.cmd = "start" /\ d.ct = None
  <2>1. "purge" \in Places /\ "start" \in Cmds
    BY DEF Places, Cmds
  <2> QED
    BY <1>1, <2>1, PlainIs
<1>3. Becomes(t, d)
  BY <1>1, Zenon DEF RekeyStart, Plain
<1>4. Good(t, d)
  BY <1>2 DEF Good, Well, Sourced, Guarded, Making, Turning, RekeyStart
<1> QED
  BY <1>3, <1>4, BeginnerInv DEF RekeyStart

\* A rekey that is taken up, or undone.
LEMMA TakenUpInv ==
    ASSUME CInv, NEW t \in Terminals, Begin(t), journal # None,
           NEW cmd \in {"resume", "abort"},
           NEW place \in {"rewrite", "restore"}, place = "restore" <=> cmd = "abort",
           Becomes(t, [Idle EXCEPT !.at = place, !.cmd = cmd,
                                   !.job = journal, !.todo = journal.secrets])
    PROVE  CInv'
<1>1. PICK f : f = Plain(place, cmd)
  OBVIOUS
<1>2. PICK d : d = [f EXCEPT !.job = journal, !.todo = journal.secrets]
  OBVIOUS
<1>3. Becomes(t, d)
  BY <1>1, <1>2, Zenon DEF Plain
<1>4. f \in Locals /\ f.at = place /\ f.cmd = cmd /\ f.ct = None
  <2>1. place \in Places /\ cmd \in Cmds
    BY DEF Places, Cmds
  <2> QED
    BY <1>1, <2>1, PlainIs
<1>5. journal \in Job /\ journal.secrets \in SUBSET Names
  BY DEF CInv, State, Types, Job
<1>6. /\ d \in Locals /\ d.at = place /\ d.cmd = cmd /\ d.ct = None
      /\ d.job = journal /\ d.todo = journal.secrets
  <2>1. d \in Locals
    <3>1. f \in Locals
      BY <1>4
    <3>2. journal \in Job \cup {None}
      BY <1>5
    <3> QED
      BY <1>2, <1>5, <3>1, <3>2 DEF Locals
  <2>2. /\ d.at = f.at /\ d.cmd = f.cmd /\ d.ct = f.ct
        /\ d.job = journal /\ d.todo = journal.secrets
    BY <1>2, <1>4 DEF Locals
  <2> QED
    BY <1>4, <2>1, <2>2
<1>7. Well(d) /\ (NoRw => Sourced(d))
  BY <1>5, <1>6 DEF Well, Sourced, Making, Turning
<1>8. NoRw /\ OneWriter /\ t \in Writers => Guarded(d)
  BY <1>6 DEF CInv, State, JournalKept, Guarded, Making
<1> QED
  BY <1>3, <1>7, <1>8, BeginnerInv DEF Good

LEMMA RekeyResumeInv == ASSUME CInv, NEW t \in Terminals, RekeyResume(t) PROVE CInv'
  BY TakenUpInv DEF RekeyResume

LEMMA RekeyAbortInv == ASSUME CInv, NEW t \in Terminals, RekeyAbort(t) PROVE CInv'
  BY TakenUpInv DEF RekeyAbort

----------------------------------------------------------------------------
\* The steps that end the commands that write.

LEMMA EditInv == ASSUME CInv, NEW t \in Terminals, Edit(t) PROVE CInv'
<1>1. PICK c : c = term[t]
  OBVIOUS
<1>2. /\ Good(t, c) /\ c \in Locals /\ c.at = "edit" /\ State'
      /\ UNCHANGED <<store, proven>>
  BY <1>1, SameState DEF CInv, Edit, At
<1>3. /\ c.cmd = "edit" /\ c.cmd \in Making /\ c.name \in Names /\ c.mode \in Modes
      /\ c.pass \in Key \cup {None}
  BY <1>2 DEF Good, Well, Making, Locals
<1>4. CASE End(t)
  BY <1>2, <1>4, EndInv
<1>5. CASE c.pass # None /\ Goto(t, "write")
  <2>1. PICK d : d = [c EXCEPT !.at = "write"]
    OBVIOUS
  <2>2. Becomes(t, d)
    BY <1>1, <1>5, <2>1, Zenon DEF Goto
  <2>3. /\ d \in Locals /\ d.at = "write" /\ d.cmd = c.cmd /\ d.name = c.name
        /\ d.ct = c.ct /\ d.pass = c.pass /\ d.kf = c.kf
    BY <1>2, <2>1 DEF Locals, Places
  <2>4. Good(t, d)
    BY <1>2, <1>3, <1>5, <2>3 DEF Good, Well, Sourced, Guarded
  <2>5. Good(t, d)'
    BY <1>2, <2>4, SameGood
  <2> QED
    BY <1>2, <2>2, <2>5, StepInv
<1>6. CASE Becomes(t, Asking(c, "new", c.name))
  <2>1. PICK d : d = Asking(c, "new", c.name)
    OBVIOUS
  <2>2. NoRw => c.ct \in proven \cup {None}
    BY <1>2 DEF Good, Sourced
  <2>3. NoRw /\ OneWriter /\ t \in Writers =>
          journal = None /\ c.kf = marker /\ (c.ct \in Key => c.ct.kf = marker)
    BY <1>2, <1>3 DEF Good, Guarded
  <2>4. Good(t, d)
    BY <1>2, <1>3, <2>1, <2>2, <2>3, AskingNewGood
  <2>5. Good(t, d)'
    BY <1>2, <2>4, SameGood
  <2> QED
    BY <1>2, <1>6, <2>1, <2>5, StepInv
<1> QED
  BY <1>1, <1>4, <1>5, <1>6 DEF Edit

LEMMA WriteInv ==
    ASSUME CInv, NEW t \in Terminals, t \in Writers, Write(t) PROVE CInv'
<1>1. PICK c : c = term[t]
  OBVIOUS
<1>2. Good(t, c) /\ c \in Locals /\ c.at = "write"
  BY <1>1 DEF CInv, Write, At
<1>3. /\ files' = [files EXCEPT ![c.name] = c.pass]
      /\ proven' = proven \cup {c.pass}
      /\ UNCHANGED <<backup, journal, marker, agent, cache>>
  BY <1>1 DEF Write
<1>4. c.pass \in Key /\ c.cmd \in Making
  BY <1>2 DEF Good, Well
<1>5. Types'
  BY <1>3, <1>4 DEF CInv, State, Types
<1>6. \A n \in Names : {files'[n], backup'[n]} \subseteq proven' \cup {NoFile}
  BY <1>3 DEF CInv, State, Types
<1>7. NoRw => GlobalProven'
  BY <1>3 DEF CInv, State, GlobalProven
<1>8. NoRw /\ OneWriter => (StoreOpens /\ JournalKept)'
  <2>1. NoRw /\ OneWriter => journal = None /\ c.pass.kf = marker
    BY <1>2, <1>4 DEF Good, Guarded
  <2> QED
    BY <1>3, <2>1 DEF CInv, State, Types, StoreOpens, JournalKept, AllSecrets
<1>9. State'
  BY <1>5, <1>6, <1>7, <1>8 DEF State
<1> QED
  BY <1>3, <1>9, EndInv DEF Write

\* mv and rm: a secret is under the keyfile it was under before, or gone.
LEMMA RearrangeInv ==
    ASSUME CInv, NEW t \in Terminals, t \in Writers, End(t),
           term[t].at \in {"move", "remove"},
           files' \in [Names -> Key \cup {NoFile}],
           \A n \in Names : files'[n] = NoFile \/ \E m \in Names : files'[n] = files[m],
           UNCHANGED <<backup, journal, marker, agent, cache, proven>>
    PROVE  CInv'
<1>1. NoRw /\ OneWriter => journal = None
  BY DEF CInv, Good, Guarded
<1>2. Types' /\ (NoRw => GlobalProven')
  BY DEF CInv, State, Types, GlobalProven
<1>3. \A n \in Names : {files'[n], backup'[n]} \subseteq proven' \cup {NoFile}
  BY DEF CInv, State
<1>4. NoRw /\ OneWriter => (StoreOpens /\ JournalKept)'
  BY <1>1 DEF CInv, State, StoreOpens, JournalKept, AllSecrets
<1>5. State'
  BY <1>2, <1>3, <1>4 DEF State
<1> QED
  BY <1>5, EndInv

LEMMA MoveInv ==
    ASSUME CInv, NEW t \in Terminals, t \in Writers, Move(t) PROVE CInv'
<1>1. term[t].path \in Names /\ term[t].at = "move"
  BY DEF CInv, Good, Well, Move, At
<1>2. files \in [Names -> Key \cup {NoFile}]
  BY DEF CInv, State, Types
<1>3. files' \in [Names -> Key \cup {NoFile}]
  BY <1>1, <1>2 DEF Move
<1>4. \A n \in Names : files'[n] = NoFile \/ \E m \in Names : files'[n] = files[m]
  BY <1>1, <1>2 DEF Move
<1> QED
  BY <1>1, <1>3, <1>4, RearrangeInv DEF Move

LEMMA DeleteInv ==
    ASSUME CInv, NEW t \in Terminals, t \in Writers, Delete(t) PROVE CInv'
<1>1. files \in [Names -> Key \cup {NoFile}]
  BY DEF CInv, State, Types
<1>2. files' \in [Names -> Key \cup {NoFile}]
  BY <1>1 DEF Delete
<1>3. \A n \in Names : files'[n] = NoFile \/ \E m \in Names : files'[n] = files[m]
  BY <1>1 DEF Delete
<1> QED
  BY <1>2, <1>3, RearrangeInv DEF Delete, At

----------------------------------------------------------------------------
\* The steps of a rekey.

LEMMA RekeyPurgeInv ==
    ASSUME CInv, NEW t \in Terminals, t \in Writers, RekeyPurge(t) PROVE CInv'
<1>1. PICK c : c = term[t]
  OBVIOUS
<1>2. Good(t, c) /\ c \in Locals /\ c.at = "purge"
  BY <1>1 DEF CInv, RekeyPurge, At
<1>3. /\ backup' = [n \in Names |-> NoFile] /\ journal' = None
      /\ UNCHANGED <<files, marker, agent, cache, proven>>
  BY DEF RekeyPurge
<1>4. PICK new \in Usual, chpass \in BOOLEAN :
        Becomes(t, [c EXCEPT !.at = "backup",
             !.job = [old |-> marker, new |-> new, chpass |-> chpass, secrets |-> {}]])
  BY <1>1, Zenon DEF RekeyPurge
<1>5. PICK job : job = [old |-> marker, new |-> new, chpass |-> chpass, secrets |-> {}]
  OBVIOUS
<1>6. PICK d : d = [c EXCEPT !.at = "backup", !.job = job]
  OBVIOUS
<1>7. Becomes(t, d)
  BY <1>4, <1>5, <1>6, Zenon
<1>8. job \in Job /\ job.old = marker
  BY <1>5 DEF Job, CInv, State, Types
<1>9. /\ d \in Locals /\ d.at = "backup" /\ d.job = job /\ d.cmd = c.cmd
      /\ d.name = c.name /\ d.ct = c.ct /\ d.pass = c.pass /\ d.kf = c.kf
  BY <1>2, <1>6, <1>8 DEF Locals, Places
<1>10. Well(d) /\ (NoRw => Sourced(d))
  BY <1>2, <1>8, <1>9 DEF Good, Well, Sourced
<1>11. NoRw /\ OneWriter => journal = None /\ Guarded(d)'
  BY <1>2, <1>3, <1>8, <1>9 DEF Good, Guarded, Making
<1>12. Good(t, d)'
  BY <1>3, <1>10, <1>11 DEF Good, Well, Sourced
<1>13. Types' /\ (NoRw => GlobalProven')
  BY <1>3 DEF CInv, State, Types, GlobalProven
<1>14. \A n \in Names : {files'[n], backup'[n]} \subseteq proven' \cup {NoFile}
  BY <1>3 DEF CInv, State
<1>15. NoRw /\ OneWriter => (StoreOpens /\ JournalKept)'
  BY <1>3, <1>11 DEF CInv, State, StoreOpens, JournalKept, AllSecrets
<1>16. State'
  BY <1>13, <1>14, <1>15 DEF State
<1> QED
  BY <1>3, <1>7, <1>12, <1>16, StepInv

LEMMA RekeyBackupInv ==
    ASSUME CInv, NEW t \in Terminals, t \in Writers, RekeyBackup(t) PROVE CInv'
<1>1. PICK c : c = term[t]
  OBVIOUS
<1>2. Good(t, c) /\ c \in Locals /\ c.at = "backup" /\ c.job \in Job
  BY <1>1 DEF CInv, RekeyBackup, At, Good, Well
<1>3. /\ backup' = [n \in Names |-> IF n \in AllSecrets THEN files[n] ELSE backup[n]]
      /\ UNCHANGED <<files, journal, marker, agent, cache, proven>>
  BY DEF RekeyBackup
<1>4. PICK place : place = IF AllSecrets = {} THEN "marker" ELSE "journal"
  OBVIOUS
<1>5. PICK job : job = [c.job EXCEPT !.secrets = AllSecrets]
  OBVIOUS
<1>6. PICK d : d = [c EXCEPT !.job = job, !.todo = AllSecrets, !.at = place]
  OBVIOUS
<1>7. Becomes(t, d)
  BY <1>1, <1>4, <1>5, <1>6, Zenon DEF RekeyBackup
<1>8. job \in Job /\ job.old = c.job.old /\ job.new = c.job.new /\ job.secrets = AllSecrets
  BY <1>2, <1>5 DEF Job, AllSecrets
<1>9. place \in {"marker", "journal"} /\ (place = "marker" <=> AllSecrets = {})
  BY <1>4
<1>10. /\ d \in Locals /\ d.at = place /\ d.job = job /\ d.todo = AllSecrets
       /\ d.cmd = c.cmd /\ d.name = c.name /\ d.ct = c.ct
  BY <1>2, <1>6, <1>8, <1>9 DEF Locals, Places, AllSecrets
<1>11. Well(d) /\ (NoRw => Sourced(d))
  BY <1>2, <1>8, <1>9, <1>10 DEF Good, Well, Sourced
<1>12. AllSecrets' = AllSecrets /\ \A n \in AllSecrets : backup'[n] = files[n]
  BY <1>3 DEF AllSecrets
<1>13. NoRw /\ OneWriter => journal = None /\ c.cmd = "start" /\ c.job.old = marker
  BY <1>2 DEF Good, Guarded
<1>14. NoRw /\ OneWriter => Guarded(d)'
  BY <1>3, <1>8, <1>9, <1>10, <1>12, <1>13 DEF Guarded, Making
<1>15. Good(t, d)'
  BY <1>3, <1>11, <1>14 DEF Good, Well, Sourced
<1>16. Types' /\ (NoRw => GlobalProven')
  BY <1>3 DEF CInv, State, Types, GlobalProven
<1>17. \A n \in Names : {files'[n], backup'[n]} \subseteq proven' \cup {NoFile}
  BY <1>3 DEF CInv, State
<1>18. NoRw /\ OneWriter => (StoreOpens /\ JournalKept)'
  BY <1>3, <1>13 DEF CInv, State, StoreOpens, JournalKept, AllSecrets
<1>19. State'
  BY <1>16, <1>17, <1>18 DEF State
<1> QED
  BY <1>3, <1>7, <1>15, <1>19, StepInv

LEMMA RekeyJournalInv ==
    ASSUME CInv, NEW t \in Terminals, t \in Writers, RekeyJournal(t) PROVE CInv'
<1>1. PICK c : c = term[t]
  OBVIOUS
<1>2. Good(t, c) /\ c \in Locals /\ c.at = "journal" /\ c.job \in Job
  BY <1>1 DEF CInv, RekeyJournal, At, Good, Well
<1>3. journal' = c.job /\ UNCHANGED <<files, backup, marker, agent, cache, proven>>
  BY <1>1 DEF RekeyJournal
<1>4. PICK d : d = [c EXCEPT !.at = "rewrite"]
  OBVIOUS
<1>5. Becomes(t, d)
  BY <1>1, <1>4, Zenon DEF RekeyJournal, Goto
<1>6. /\ d \in Locals /\ d.at = "rewrite" /\ d.job = c.job /\ d.todo = c.todo
      /\ d.cmd = c.cmd /\ d.name = c.name /\ d.ct = c.ct
  BY <1>2, <1>4 DEF Locals, Places
<1>7. Well(d) /\ (NoRw => Sourced(d))
  BY <1>2, <1>6 DEF Good, Well, Sourced
<1>8. NoRw /\ OneWriter =>
        /\ journal = None /\ c.cmd = "start" /\ c.job.old = marker
        /\ c.job.secrets = AllSecrets /\ c.todo = AllSecrets
        /\ \A n \in AllSecrets : backup[n] = files[n]
  BY <1>2 DEF Good, Guarded
<1>9. AllSecrets' = AllSecrets /\ journal' # None
  BY <1>2, <1>3, NoneAssumption DEF AllSecrets
<1>10. NoRw /\ OneWriter => Guarded(d)'
  BY <1>3, <1>6, <1>8, <1>9 DEF Guarded, Making
<1>11. Good(t, d)'
  BY <1>3, <1>7, <1>10 DEF Good, Well, Sourced
<1>12. Types' /\ (NoRw => GlobalProven')
  BY <1>2, <1>3 DEF CInv, State, Types, GlobalProven
<1>13. \A n \in Names : {files'[n], backup'[n]} \subseteq proven' \cup {NoFile}
  BY <1>3 DEF CInv, State
<1>14. NoRw /\ OneWriter => (StoreOpens /\ JournalKept)'
  <2>1. \A n \in AllSecrets : files[n] \in Key
    BY DEF CInv, State, Types, AllSecrets
  <2>2. NoRw /\ OneWriter => \A n \in AllSecrets : files[n].kf = marker
    BY <1>8 DEF CInv, State, StoreOpens
  <2> QED
    BY <1>3, <1>8, <1>9, <2>1, <2>2 DEF StoreOpens, JournalKept
<1>15. State'
  BY <1>12, <1>13, <1>14 DEF State
<1> QED
  BY <1>3, <1>5, <1>11, <1>15, StepInv

\* A secret is rewritten or restored: it is now under the keyfile that the
\* command wants all of them under.
LEMMA TurnedInv ==
    ASSUME CInv, NEW t \in Terminals, t \in Writers,
           NEW c, c = term[t], c.at \in {"rewrite", "restore"},
           NEW n \in Names, n \in c.todo,
           NEW k \in Key, files' = [files EXCEPT ![n] = k], proven' = proven \cup {k},
           NoRw /\ OneWriter => k.kf = Target(c),
           UNCHANGED <<backup, journal, marker, agent, cache>>, Done(t, n)
    PROVE  CInv'
<1>1. Good(t, c) /\ c \in Locals /\ c.job \in Job
  BY DEF CInv, Good, Well
<1>2. PICK place : place = IF c.todo = {n} THEN "marker" ELSE c.at
  OBVIOUS
<1>3. PICK d : d = [c EXCEPT !.todo = c.todo \ {n}, !.at = place]
  OBVIOUS
<1>4. Becomes(t, d)
  BY <1>2, <1>3, Zenon DEF Done
<1>5. /\ d \in Locals /\ d.at = place /\ d.job = c.job /\ d.todo = c.todo \ {n}
      /\ d.cmd = c.cmd /\ d.name = c.name /\ d.ct = c.ct
      /\ place \in {"marker", c.at} /\ (place = "marker" => d.todo = {})
  <2>1. place \in Places /\ place \in {"marker", c.at}
    BY <1>2 DEF Places
  <2>2. /\ d \in Locals /\ d.at = place /\ d.job = c.job /\ d.todo = c.todo \ {n}
        /\ d.cmd = c.cmd /\ d.name = c.name /\ d.ct = c.ct
    BY <1>1, <1>3, <2>1 DEF Locals
  <2> QED
    BY <1>2, <2>1, <2>2
<1>6. Well(d) /\ (NoRw => Sourced(d)')
  BY <1>1, <1>5 DEF Good, Well, Sourced
<1>7. NoRw /\ OneWriter =>
        /\ journal # None /\ c.job = journal /\ c.todo \subseteq journal.secrets
        /\ c.at = "rewrite" => c.cmd # "abort"
        /\ c.at = "restore" => c.cmd = "abort"
        /\ \A m \in AllSecrets \ c.todo : files[m].kf = Target(c)
  BY <1>1 DEF Good, Guarded
<1>8. files \in [Names -> Key \cup {NoFile}]
  BY DEF CInv, State, Types
<1>9. /\ AllSecrets' \subseteq AllSecrets \cup {n} /\ files'[n] = k
      /\ \A m \in Names \ {n} : files'[m] = files[m]
  BY <1>8 DEF AllSecrets
<1>10. NoRw /\ OneWriter => \A m \in AllSecrets' \ d.todo : files'[m].kf = Target(c)
  BY <1>5, <1>7, <1>9 DEF AllSecrets
<1>11. Target(d) = Target(c)
  BY <1>5 DEF Target
<1>12. NoRw /\ OneWriter => Guarded(d)'
  <2>1. d.cmd \in Making => d.at = "idle" \/ c.cmd \in Making
    BY <1>5
  <2>2. NoRw /\ OneWriter => c.cmd \notin Making
    BY <1>1, <1>7 DEF Good, Guarded
  <2>3. Target(d)' = Target(c)
    BY <1>5 DEF Target
  <2> QED
    BY <1>5, <1>7, <1>10, <2>2, <2>3 DEF Guarded
<1>13. Good(t, d)'
  BY <1>6, <1>12 DEF Good, Well
<1>14. Types' /\ (NoRw => GlobalProven')
  BY <1>8 DEF CInv, State, Types, GlobalProven
<1>15. \A m \in Names : {files'[m], backup'[m]} \subseteq proven' \cup {NoFile}
  BY <1>9 DEF CInv, State
<1>16. NoRw /\ OneWriter => (StoreOpens /\ JournalKept)'
  BY <1>7, <1>9 DEF CInv, State, StoreOpens, JournalKept
<1>17. State'
  BY <1>14, <1>15, <1>16 DEF State
<1> QED
  BY <1>4, <1>13, <1>17, StepInv

LEMMA RekeySecretInv ==
    ASSUME CInv, NEW t \in Terminals, t \in Writers, NEW n \in Names, RekeySecret(t, n)
    PROVE  CInv'
<1>1. PICK c : c = term[t]
  OBVIOUS
<1>2. /\ Good(t, c) /\ c.at = "rewrite" /\ n \in c.todo /\ c.job \in Job
      /\ backup[n] \in Key
  BY <1>1 DEF CInv, State, Types, RekeySecret, At, Good, Well
<1>3. PICK r \in IF c.job.chpass THEN Raws ELSE {backup[n].raw} :
        /\ files' = [files EXCEPT ![n] = NewDerived(r, c.job.old, c.job.new, TRUE)]
        /\ proven' = proven \cup {NewDerived(r, c.job.old, c.job.new, TRUE)}
  BY <1>1 DEF RekeySecret
<1>4. PICK k : k = NewDerived(r, c.job.old, c.job.new, TRUE)
  OBVIOUS
<1>5. r \in Raws
  BY <1>2, <1>3 DEF Key
<1>6. k \in Key /\ k.kf = c.job.new
  BY <1>2, <1>4, <1>5 DEF Job, Usual, NewDerived, HasBytes, Key, Credential
<1>7. NoRw /\ OneWriter => k.kf = Target(c)
  BY <1>2, <1>6 DEF Good, Guarded, Target
<1> QED
  BY <1>1, <1>2, <1>3, <1>4, <1>6, <1>7, TurnedInv DEF RekeySecret

LEMMA RestoreSecretInv ==
    ASSUME CInv, NEW t \in Terminals, t \in Writers, NEW n \in Names, RestoreSecret(t, n)
    PROVE  CInv'
<1>1. PICK c : c = term[t]
  OBVIOUS
<1>2. /\ Good(t, c) /\ c.at = "restore" /\ n \in c.todo
      /\ backup[n] \in Key /\ backup[n] \in proven
  BY <1>1 DEF CInv, State, Types, RestoreSecret, At
<1>3. files' = [files EXCEPT ![n] = backup[n]] /\ proven' = proven \cup {backup[n]}
  BY <1>2 DEF RestoreSecret
<1>4. NoRw /\ OneWriter => backup[n].kf = Target(c)
  BY <1>2 DEF Good, Guarded, Target, CInv, State, JournalKept
<1> QED
  BY <1>1, <1>2, <1>3, <1>4, TurnedInv DEF RestoreSecret

LEMMA RekeyMarkerInv ==
    ASSUME CInv, NEW t \in Terminals, t \in Writers, RekeyMarker(t) PROVE CInv'
<1>1. PICK c : c = term[t]
  OBVIOUS
<1>2. Good(t, c) /\ c \in Locals /\ c.at = "marker" /\ c.job \in Job
  BY <1>1 DEF CInv, RekeyMarker, At, Good, Well
<1>3. marker' = Target(c) /\ UNCHANGED <<files, backup, journal, agent, cache, proven>>
  BY <1>1 DEF RekeyMarker, Target
<1>4. PICK d : d = [c EXCEPT !.at = "cleanup"]
  OBVIOUS
<1>5. Becomes(t, d)
  BY <1>1, <1>4, Zenon DEF RekeyMarker, Goto
<1>6. /\ d \in Locals /\ d.at = "cleanup" /\ d.job = c.job
      /\ d.cmd = c.cmd /\ d.name = c.name /\ d.ct = c.ct
  BY <1>2, <1>4 DEF Locals, Places
<1>7. Well(d) /\ (NoRw => Sourced(d))
  BY <1>2, <1>6 DEF Good, Well, Sourced
<1>8. NoRw /\ OneWriter =>
        /\ c.cmd \notin Making
        /\ journal = None => AllSecrets = {}
        /\ \A n \in AllSecrets : files[n].kf = Target(c)
  BY <1>2 DEF Good, Well, Guarded, Making, Turning
<1>9. AllSecrets' = AllSecrets
  BY <1>3 DEF AllSecrets
<1>10. NoRw /\ OneWriter => Guarded(d)'
  BY <1>3, <1>6, <1>8, <1>9 DEF Guarded, Target
<1>11. Good(t, d)'
  BY <1>3, <1>7, <1>10 DEF Good, Well, Sourced
<1>12. Types' /\ (NoRw => GlobalProven')
  BY <1>2, <1>3 DEF CInv, State, Types, GlobalProven, Job, Target
<1>13. \A n \in Names : {files'[n], backup'[n]} \subseteq proven' \cup {NoFile}
  BY <1>3 DEF CInv, State
<1>14. NoRw /\ OneWriter => (StoreOpens /\ JournalKept)'
  BY <1>3, <1>8, <1>9 DEF CInv, State, StoreOpens, JournalKept
<1>15. State'
  BY <1>12, <1>13, <1>14 DEF State
<1> QED
  BY <1>3, <1>5, <1>11, <1>15, StepInv

LEMMA RekeyCleanupInv ==
    ASSUME CInv, NEW t \in Terminals, t \in Writers, RekeyCleanup(t) PROVE CInv'
<1>1. PICK c : c = term[t]
  OBVIOUS
<1>2. Good(t, c) /\ c \in Locals /\ c.at = "cleanup"
  BY <1>1 DEF CInv, RekeyCleanup, At
<1>3. /\ backup' = [n \in Names |-> NoFile] /\ journal' = None
      /\ UNCHANGED <<files, marker, agent, cache, proven>>
  BY DEF RekeyCleanup
<1>4. NoRw /\ OneWriter => /\ c.cmd \notin Making
                          /\ \A n \in AllSecrets : files[n].kf = marker
  BY <1>2 DEF Good, Well, Guarded, Making, Turning
<1>5. Types' /\ (NoRw => GlobalProven')
  BY <1>3 DEF CInv, State, Types, GlobalProven
<1>6. \A n \in Names : {files'[n], backup'[n]} \subseteq proven' \cup {NoFile}
  BY <1>3 DEF CInv, State
<1>7. NoRw /\ OneWriter => (StoreOpens /\ JournalKept)'
  BY <1>3, <1>4 DEF StoreOpens, JournalKept, AllSecrets
<1>8. State'
  BY <1>5, <1>6, <1>7 DEF State
<1>9. CASE End(t)
  BY <1>3, <1>8, <1>9, EndInv
<1>10. CASE Goto(t, "flush")
  <2>1. PICK d : d = [c EXCEPT !.at = "flush"]
    OBVIOUS
  <2>2. Becomes(t, d)
    BY <1>1, <1>10, <2>1, Zenon DEF Goto
  <2>3. /\ d \in Locals /\ d.at = "flush"
        /\ d.cmd = c.cmd /\ d.name = c.name /\ d.ct = c.ct
    BY <1>2, <2>1 DEF Locals, Places
  <2>4. Well(d) /\ (NoRw => Sourced(d))
    BY <1>2, <2>3 DEF Good, Well, Sourced
  <2>5. NoRw /\ OneWriter => Guarded(d)'
    BY <1>4, <2>3 DEF Guarded
  <2>6. Good(t, d)'
    BY <1>3, <2>4, <2>5 DEF Good, Well, Sourced
  <2> QED
    BY <1>3, <1>8, <2>2, <2>6, StepInv
<1> QED
  BY <1>1, <1>9, <1>10 DEF RekeyCleanup

LEMMA FlushAgentCacheInv ==
    ASSUME CInv, NEW t \in Terminals, FlushAgentCache(t) PROVE CInv'
<1>1. State'
  BY QuietState DEF CInv, State, Types, FlushAgentCache, GlobalProven
<1> QED
  BY <1>1, EndInv DEF FlushAgentCache

----------------------------------------------------------------------------
\* The agent.

LEMMA SteadyInv ==
    ASSUME CInv, UNCHANGED <<store, term, proven>>, State' PROVE CInv'
<1>1. term' \in [Terminals -> Locals]
  BY DEF CInv
<1>2. ASSUME NEW u \in Terminals PROVE Good(u, term[u])'
  <2>1. PICK c : c = term[u]
    OBVIOUS
  <2>2. Good(u, c)'
    BY <1>2, <2>1, SameGood DEF CInv
  <2> QED
    BY <2>1, <2>2 DEF Good, Well, Sourced, Guarded, Target
<1> QED
  BY <1>1, <1>2 DEF CInv

LEMMA ExpireInv == ASSUME CInv, NEW p \in Paths, Expire(p) PROVE CInv'
<1>1. State'
  BY QuietState DEF CInv, State, Types, Expire, GlobalProven, Paths
<1> QED
  BY <1>1, SteadyInv DEF Expire

LEMMA AgentStopInv == ASSUME CInv, AgentStop PROVE CInv'
<1>1. State'
  BY QuietState DEF CInv, State, Types, AgentStop, GlobalProven
<1> QED
  BY <1>1, SteadyInv DEF AgentStop

LEMMA AgentGoneInv == ASSUME CInv, AgentGone PROVE CInv'
<1>1. State'
  BY QuietState DEF CInv, State, Types, AgentGone, GlobalProven, Paths
<1> QED
  BY <1>1, SteadyInv DEF AgentGone

----------------------------------------------------------------------------

LEMMA InitInv == Init => CInv
<1> SUFFICES ASSUME Init PROVE CInv
  OBVIOUS
<1>1. State
  BY DEF Init, State, Types, GlobalProven, StoreOpens, JournalKept, AllSecrets, Paths
<1>2. term \in [Terminals -> Locals] /\ \A t \in Terminals : Good(t, term[t])
  BY IdleIs, IdleGood, Zenon DEF Init
<1> QED
  BY <1>1, <1>2 DEF CInv

LEMMA NextInv == CInv /\ [Next]_vars => CInv'
<1> SUFFICES ASSUME CInv, [Next]_vars PROVE CInv'
  OBVIOUS
<1>1. ASSUME NEW t \in Terminals, Reading(t) PROVE CInv'
  BY <1>1, HandleShowInv, HandleGrepInv, FetchInv, GetNamedInv, GetGlobalInv, AskInv,
     RememberInv, NoAnswerInv, ListSecretsInv, VisitInv, InterruptInv DEF Reading
<1>2. ASSUME NEW t \in Writers, Changing(t) PROVE CInv'
  BY <1>2, WritersAssumption, HandleInsertInv, HandleEditInv, HandleCpInv, HandleMvInv,
     HandleRmInv, EditInv, WriteInv, MoveInv, DeleteInv DEF Changing
<1>3. ASSUME NEW t \in Writers, Rekeying(t) PROVE CInv'
  BY <1>3, WritersAssumption, RekeyStartInv, RekeyPurgeInv, RekeyBackupInv,
     RekeyJournalInv, RekeyResumeInv, RekeyAbortInv, RekeySecretInv, RestoreSecretInv,
     RekeyMarkerInv, RekeyCleanupInv, FlushAgentCacheInv DEF Rekeying
<1>4. CASE UNCHANGED vars
  BY <1>4, SameState, SteadyInv DEF vars
<1> QED
  BY <1>1, <1>2, <1>3, <1>4, ExpireInv, AgentStopInv, AgentGoneInv DEF Next

LEMMA Invariant == Spec => []CInv
  BY InitInv, NextInv, PTL DEF Spec

\* Every variable has a value of its kind, only a serving agent holds
\* passphrases and a command that is about to write has one, whatever the
\* modes and however many terminals write.
THEOREM Typed == Spec => []TypeOK
<1>1. CInv => TypeOK
  BY DEF CInv, State, Types, Good, Well, TypeOK, At
<1> QED
  BY <1>1, Invariant, PTL

\* Where no command runs in mode rw the fallback of the agent is a passphrase
\* that a secret of the store has had, however many terminals write: Notes
\* makes a passphrase the fallback only when it has opened something.
THEOREM FallbackIsProven == NoRw => (Spec => []GlobalProven)
<1> SUFFICES ASSUME NoRw PROVE Spec => []GlobalProven
  OBVIOUS
<1>1. CInv => GlobalProven
  BY DEF CInv, State
<1> QED
  BY <1>1, Invariant, PTL

\* Where moreover one terminal writes, every secret opens with the keyfile of
\* the marker whenever no rekey is pending, for any number of readers, secrets
\* and keyfiles, and whatever the agent still holds.
THEOREM OneKeyfile == NoRw /\ OneWriter => (Spec => []StoreOpens)
<1> SUFFICES ASSUME NoRw, OneWriter PROVE Spec => []StoreOpens
  OBVIOUS
<1>1. CInv => StoreOpens
  BY DEF CInv, State
<1> QED
  BY <1>1, Invariant, PTL

=============================================================================
