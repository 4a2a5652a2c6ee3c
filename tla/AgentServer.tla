---------------------------- MODULE AgentServer ----------------------------
(***************************************************************************)
(* The process of the passphrase agent (agent/server.go): the goroutines   *)
(* of Server that share its cache, its done channel and its listener.      *)
(*                                                                         *)
(*   the accept loop of Run     one handler per connection                 *)
(*   handleConn                 reads a request, serves it under the lock, *)
(*                              writes the answer                          *)
(*   reaper                     evicts under the lock, every Period        *)
(*   the signal goroutine and the goroutine of each SHUTDOWN request       *)
(*                              both run Shutdown                          *)
(*                                                                         *)
(* Time is counted in units since the last use of an entry and since the   *)
(* last tick of the reaper.  A tick of the reaper is served before time    *)
(* goes on, and a shutdown takes less than a unit.                         *)
(***************************************************************************)
EXTENDS AgentProtocol

CONSTANTS
    Period,   \* time between two ticks of the reaper
    Signal    \* the goroutine that waits for SIGTERM

ASSUME PeriodAssumption == Period \in Nat \ {0}

ASSUME SignalAssumption == Signal \notin Conns

VARIABLES
    conn,       \* the request and the answer of each connection
    cache,      \* s.cache
    elapsed,    \* time since the last tick of the reaper
    done,       \* s.done has been closed
    listening,  \* s.listener is open
    stopper,    \* where each goroutine that runs Shutdown is
    process     \* whether the agent process runs, has exited or has panicked

vars == <<conn, cache, elapsed, done, listening, stopper, process>>

Stoppers == Conns \cup {Signal}

\* Mutants: GET compares with now.After; the reaper is one unit late.
ExpiredAfter(e) == e.age > TTL
EvictableLate(e) == e.age > TTL + 1

\* GET wants now.Before(expiresAt); the reaper wants now.After(expiresAt).
Expired(e) == e.age >= TTL
Evictable(e) == e.age > TTL

Init ==
    /\ conn = [c \in Conns |-> Closed]
    /\ cache = [p \in Paths |-> Nothing]
    /\ elapsed = 0
    /\ done = FALSE /\ listening = TRUE
    /\ stopper = [s \in Stoppers |-> "none"]
    /\ process = "running"

----------------------------------------------------------------------------
\* Connections.

\* A client connects and sends its line; Accept starts a handler.
Accept(c) ==
    /\ process = "running" /\ listening
    /\ conn[c] = Closed /\ stopper[c] = "none"
    /\ \E r \in Requests : conn' = [conn EXCEPT ![c] = r]
    /\ UNCHANGED <<cache, elapsed, done, listening, stopper, process>>

Answer(c, a) == conn' = [conn EXCEPT ![c] = Answered(conn[c], a)]

Handling(c, verb) ==
    /\ process = "running" /\ conn[c].at = "read" /\ conn[c].verb = verb
    /\ UNCHANGED <<elapsed, done, listening, process>>

Put(p, e) == cache' = [cache EXCEPT ![p] = e]

HandlePing(c) ==
    /\ Handling(c, "PING")
    /\ Answer(c, "PONG")
    /\ UNCHANGED <<cache, stopper>>

\* Mutant: no answer for an entry that has expired.
HandleGetHit(c) ==
    /\ Handling(c, "GET")
    /\ LET p == conn[c].path
       IN /\ cache[p] # Nothing /\ ~Expired(cache[p])
          /\ Answer(c, cache[p].pass) /\ Put(p, [cache[p] EXCEPT !.age = 0])
    /\ UNCHANGED stopper

\* A hit refreshes the entry; an expired entry is deleted.
HandleGet(c) ==
    /\ Handling(c, "GET")
    /\ LET p == conn[c].path
       IN IF cache[p] # Nothing /\ ~Expired(cache[p])
          THEN Answer(c, cache[p].pass) /\ Put(p, [cache[p] EXCEPT !.age = 0])
          ELSE Answer(c, "MISS") /\ Put(p, Nothing)
    /\ UNCHANGED stopper

HandleSet(c) ==
    /\ Handling(c, "SET")
    /\ Put(conn[c].path, [pass |-> conn[c].pass, age |-> 0])
    /\ Answer(c, "OK")
    /\ UNCHANGED stopper

\* Mutant: a FORGET is answered like a GET that found nothing.
HandleForgetMiss(c) ==
    /\ Handling(c, "FORGET")
    /\ Put(conn[c].path, Nothing)
    /\ Answer(c, "MISS")
    /\ UNCHANGED stopper

HandleForget(c) ==
    /\ Handling(c, "FORGET")
    /\ Put(conn[c].path, Nothing)
    /\ Answer(c, "OK")
    /\ UNCHANGED stopper

ClearLocked == cache' = [p \in Paths |-> Nothing]

HandleClear(c) ==
    /\ Handling(c, "CLEAR")
    /\ ClearLocked
    /\ Answer(c, "OK")
    /\ UNCHANGED stopper

\* The answer goes out before the goroutine of Shutdown is started.
HandleShutdown(c) ==
    /\ Handling(c, "SHUTDOWN")
    /\ Answer(c, "BYE")
    /\ UNCHANGED <<cache, stopper>>

\* The answer is on its way, or lost; the connection is closed.
WriteAnswer(c) ==
    /\ process = "running" /\ conn[c].at = "reply"
    /\ conn' = [conn EXCEPT ![c] = Closed]
    /\ stopper' = IF conn[c].verb = "SHUTDOWN"
                  THEN [stopper EXCEPT ![c] = "check"] ELSE stopper
    /\ UNCHANGED <<cache, elapsed, done, listening, process>>

----------------------------------------------------------------------------
\* Time and the reaper.

Tick ==
    /\ process = "running" /\ ~done /\ elapsed < Period
    /\ elapsed' = elapsed + 1
    /\ cache' = [p \in Paths |-> IF cache[p] = Nothing THEN Nothing
                                 ELSE [cache[p] EXCEPT !.age = @ + 1]]
    /\ UNCHANGED <<conn, done, listening, stopper, process>>

\* Once done is closed the reaper may return instead.
Reap ==
    /\ process = "running" /\ elapsed = Period
    /\ elapsed' = 0
    /\ cache' = [p \in Paths |-> IF cache[p] # Nothing /\ Evictable(cache[p])
                                 THEN Nothing ELSE cache[p]]
    /\ UNCHANGED <<conn, done, listening, stopper, process>>

----------------------------------------------------------------------------
\* Shutdown, run by one or several goroutines.

At(s, here) == process = "running" /\ stopper[s] = here
Goto(s, there) == stopper' = [stopper EXCEPT ![s] = there]

\* SIGTERM; the signal goroutine has not returned because done is open.
Sigterm ==
    /\ At(Signal, "none") /\ ~done
    /\ Goto(Signal, "check")
    /\ UNCHANGED <<conn, cache, elapsed, done, listening, process>>

\* select on done ...
CheckDone(s) ==
    /\ At(s, "check")
    /\ Goto(s, IF done THEN "finished" ELSE "close")
    /\ UNCHANGED <<conn, cache, elapsed, done, listening, process>>

\* ... and close it: closing a closed channel is a panic.
CloseDone(s) ==
    /\ At(s, "close")
    /\ IF done THEN process' = "panicked" /\ UNCHANGED <<done, stopper>>
               ELSE done' = TRUE /\ Goto(s, "listener") /\ UNCHANGED process
    /\ UNCHANGED <<conn, cache, elapsed, listening>>

\* Mutant: the listener stays open.
CloseListenerSkipped(s) ==
    /\ At(s, "listener")
    /\ Goto(s, "clear")
    /\ UNCHANGED <<conn, cache, elapsed, done, listening, process>>

CloseListener(s) ==
    /\ At(s, "listener")
    /\ listening' = FALSE
    /\ Goto(s, "clear")
    /\ UNCHANGED <<conn, cache, elapsed, done, process>>

ClearCache(s) ==
    /\ At(s, "clear")
    /\ ClearLocked
    /\ Goto(s, "unlink")
    /\ UNCHANGED <<conn, elapsed, done, listening, process>>

RemoveSocket(s) ==
    /\ At(s, "unlink")
    /\ Goto(s, "finished")
    /\ UNCHANGED <<conn, cache, elapsed, done, listening, process>>

\* Accept fails, done is closed: Run returns, main ends, and with it every
\* other goroutine wherever it is.
RunReturns ==
    /\ process = "running" /\ ~listening /\ done
    /\ process' = "exited"
    /\ UNCHANGED <<conn, cache, elapsed, done, listening, stopper>>

----------------------------------------------------------------------------

ServeConn(c) ==
    \/ HandlePing(c) \/ HandleGet(c) \/ HandleSet(c) \/ HandleForget(c)
    \/ HandleClear(c) \/ HandleShutdown(c) \/ WriteAnswer(c)

ShutdownStep(s) ==
    CheckDone(s) \/ CloseDone(s) \/ CloseListener(s) \/ ClearCache(s) \/ RemoveSocket(s)

Next ==
    \/ \E c \in Conns : Accept(c) \/ ServeConn(c)
    \/ Tick \/ Reap \/ Sigterm
    \/ \E s \in Stoppers : ShutdownStep(s)
    \/ RunReturns

Spec == Init /\ [][Next]_vars

\* Runnable goroutines run.
FairSpec ==
    /\ Spec
    /\ \A c \in Conns : WF_vars(ServeConn(c))
    /\ \A s \in Stoppers : WF_vars(ShutdownStep(s))
    /\ WF_vars(Reap) /\ WF_vars(RunReturns)

----------------------------------------------------------------------------
\* Properties.

\* Every variable has a value of its kind; an answer is one its request can
\* get.
TypeOK ==
    /\ conn \in [Conns -> Requests \cup Replies \cup {Closed}]
    /\ cache \in [Paths -> Entry \cup {Nothing}]
    /\ elapsed \in 0..Period
    /\ done \in BOOLEAN /\ listening \in BOOLEAN
    /\ stopper \in [Stoppers ->
         {"none", "check", "close", "listener", "clear", "unlink", "finished"}]
    /\ process \in {"running", "exited", "panicked"}

\* A passphrase nobody uses is out of memory one period of the reaper after
\* its time is over, although the reaper keeps an entry whose time ends at
\* its tick (server.go, reaper and handleConn).
EvictionBound ==
    \A p \in Paths : cache[p] # Nothing => cache[p].age <= TTL + elapsed

\* To its clients the agent is a cache whose entries disappear when their
\* time is over: whichever goroutine finds an expired entry, before or after
\* the reaper, no answer shows it, and a hit is a use.
Promise == INSTANCE AgentCache WITH
    held <- [p \in Paths |->
               IF cache[p] = Nothing \/ Expired(cache[p]) THEN Nothing ELSE cache[p]]

ImplementsAgentCache == Promise!Spec

\* A client that is connected gets its answer, or sees the agent go away.
EveryRequestAnswered ==
    \A c \in Conns : conn[c].at = "read" ~> conn[c] = Closed \/ process # "running"

\* A SHUTDOWN request, or SIGTERM, ends the process.
ShutdownCompletes ==
    /\ \A c \in Conns : conn[c].verb = "SHUTDOWN" ~> process # "running"
    /\ stopper[Signal] = "check" ~> process # "running"

\* Expected of the agent by a comment, and not so.

\* server.go: "return // already shut down".  A second Shutdown does nothing.
SecondShutdownIsHarmless == process # "panicked"

=============================================================================
