---------------------------- MODULE AgentSocket ----------------------------
(***************************************************************************)
(* Agents that come and go on one socket path (agent/server.go, Run and    *)
(* Shutdown; agent/client.go; commands/agent.go), and the commands that    *)
(* look for one, start one, use it and stop it.                            *)
(*                                                                         *)
(* A path is not a lock: an agent that starts removes the socket it finds  *)
(* when nobody answers on it, and an agent that stops removes whatever has *)
(* the name by then, twice (Close of a Unix listener unlinks its path, and *)
(* os.Remove follows).  An agent that has lost its socket is an orphan: it *)
(* runs and holds passphrases, and no command can reach it.                *)
(*                                                                         *)
(* A passphrase is what it is to the stop that is watched: "old" where an  *)
(* agent held it when the stop began, "kept" where a command read it from  *)
(* an agent and sets it again, "new" otherwise; its entry has no name.     *)
(* Commands run with the agent enabled, in mode r or rw; cp and edit are   *)
(* two in a row.  A running agent is assumed to answer within the five     *)
(* seconds a client waits.                                                 *)
(***************************************************************************)
EXTENDS FiniteSets

CONSTANTS
    Agents,   \* agent processes
    Readers,  \* terminals that run commands on secrets, one at a time
    Stoppers, \* terminals that run "agent stop" or a rekey
    None,     \* no file, no connection, no stop to keep track of
    Stale,    \* the socket file of a process that is gone
    Flushed   \* a stop is over

Clients == Readers \cup Stoppers

ASSUME DistinctAssumption ==
    /\ None \notin Agents \cup Clients /\ Stale \notin Agents \cup {None}
    /\ Flushed \notin Agents \cup Clients \cup {None}
    /\ Agents \cap Clients = {}

VARIABLES
    file,    \* what the socket path names
    agent,   \* where each agent is in Run or Shutdown
    cache,   \* the passphrases it holds: "old", "kept" or "new"
    at,      \* where each command is
    op,      \* the request it makes, if any
    pass,    \* the passphrase it is about to set, if any: typed by the user, or
             \* read from an agent
    conn,    \* the agent it is connected to
    elders,  \* history: the agents past their probe when the one that has the
             \* socket began to listen
    flush,   \* history: the stop whose effect is watched: who runs it, then
             \* the agent that was told, then Flushed
    late     \* history: the commands that run and began after that stop was over

vars == <<file, agent, cache, at, op, pass, conn, elders, flush, late>>

Init ==
    /\ file = None
    /\ agent = [a \in Agents |-> "free"]
    /\ cache = [a \in Agents |-> {}]
    /\ at = [c \in Clients |-> "idle"]
    /\ op = [c \in Clients |-> "none"]
    /\ pass = [c \in Clients |-> "none"]
    /\ conn = [c \in Clients |-> None]
    /\ elders = {}
    /\ flush = None
    /\ late = {}

\* Between listen and close the kernel accepts connections.
Listening(a) == agent[a] \in {"chmod", "serve", "unlink", "close", "undo", "undoClose"}

\* Handlers answer as long as the process lives, a Shutdown notwithstanding.
Answering(a) == agent[a] \in {"serve", "unlink", "close", "clear", "unlinkAgain"}

\* verifySocketOwnership and Dial: whoever has the path must listen.
Reachable == file \in Agents /\ Listening(file)

\* It also answers what it is asked.  (A ping of an agent that listens and is
\* not ready yet waits for five seconds, and may be in vain.)
InService == Reachable /\ Answering(file)

Starting(a) ==
    agent[a] \in {"probe", "remove", "bind", "listen", "chmod",
                 "undo", "undoClose", "undoRemove"}
Orphan(a) == agent[a] = "serve" /\ file # a

----------------------------------------------------------------------------
\* The process of an agent.

Moves(a, here, there) ==
    /\ agent[a] = here
    /\ agent' = [agent EXCEPT ![a] = there]
    /\ UNCHANGED <<cache, at, op, pass, conn, late>>

Step(a, here, there) == Moves(a, here, there) /\ UNCHANGED elders

\* The process is gone, its connections with it.
Ends(a) ==
    /\ agent' = [agent EXCEPT ![a] = "free"]
    /\ cache' = [cache EXCEPT ![a] = {}]
    /\ conn' = [c \in Clients |-> IF conn[c] = a THEN None ELSE conn[c]]
    /\ elders' = elders \ {a}
    /\ flush' = IF flush = a THEN Flushed ELSE flush
    /\ UNCHANGED <<at, op, pass, late>>

\* "sympa agent start".
HandleAgentStart(a) ==
    /\ Step(a, "free", "probe")
    /\ UNCHANGED <<file, flush>>

\* Mutant: whoever has the path is taken for dead.
ProbeBlind(a) ==
    /\ Step(a, "probe", "remove")
    /\ UNCHANGED <<file, flush>>

\* Stat and dial: another agent answers, or the path is free for the taking.
Probe(a) ==
    /\ ~Reachable
    /\ Step(a, "probe", "remove")
    /\ UNCHANGED <<file, flush>>

AlreadyRunning(a) ==
    /\ agent[a] = "probe" /\ Reachable
    /\ Ends(a)
    /\ UNCHANGED file

\* Mutant: a socket nobody answers on is left where it is.
RemoveOldNever(a) ==
    /\ Step(a, "remove", "bind")
    /\ UNCHANGED <<file, flush>>

RemoveOld(a) ==
    /\ Step(a, "remove", "bind")
    /\ file' = None
    /\ UNCHANGED flush

\* net.Listen binds first; a path that is taken again is an error.
Bind(a) ==
    /\ file = None
    /\ Step(a, "bind", "listen")
    /\ file' = a
    /\ UNCHANGED flush

BindFails(a) ==
    /\ agent[a] = "bind" /\ file # None
    /\ Ends(a)
    /\ UNCHANGED file

Listen(a) ==
    /\ Moves(a, "listen", "chmod")
    /\ elders' = IF file = a
                 THEN {b \in Agents \ {a} : agent[b] \notin {"free", "probe"}}
                 ELSE elders
    /\ UNCHANGED <<file, flush>>

\* Chmod goes by the path, whosever it is.
Chmod(a) ==
    /\ Step(a, "chmod", IF file = None THEN "undo" ELSE "serve")
    /\ UNCHANGED <<file, flush>>

\* After a failed Chmod: Close unlinks and closes, and Remove unlinks again.
UndoListen(a) ==
    /\ \/ Step(a, "undo", "undoClose") /\ file' = None
       \/ Step(a, "undoClose", "undoRemove") /\ UNCHANGED file
    /\ UNCHANGED flush

UndoRemove(a) ==
    /\ agent[a] = "undoRemove"
    /\ Ends(a)
    /\ file' = None

\* SIGTERM, once the handler is there.
Sigterm(a) ==
    /\ Step(a, "serve", "unlink")
    /\ UNCHANGED <<file, flush>>

\* Close of the listener, first half: the path is removed, whosever it is now.
Unlink(a) ==
    /\ Step(a, "unlink", "close")
    /\ file' = None
    /\ flush' = IF flush = a THEN Flushed ELSE flush

\* Second half: nobody is accepted any more.
CloseListener(a) ==
    /\ Step(a, "close", "clear")
    /\ UNCHANGED <<file, flush>>

ClearCache(a) ==
    /\ agent[a] = "clear"
    /\ agent' = [agent EXCEPT ![a] = "unlinkAgain"]
    /\ cache' = [cache EXCEPT ![a] = {}]
    /\ UNCHANGED <<file, at, op, pass, conn, elders, flush, late>>

RemoveSocket(a) ==
    /\ agent[a] = "unlinkAgain"
    /\ Ends(a)
    /\ file' = None

\* Accept fails: Run returns, whether Shutdown is through or not.
RunReturns(a) ==
    /\ agent[a] \in {"clear", "unlinkAgain"}
    /\ Ends(a)
    /\ UNCHANGED file

\* A panic, SIGKILL, or a signal before the handler is there.
Kill(a) ==
    /\ agent[a] # "free"
    /\ Ends(a)
    /\ file' = IF file = a THEN Stale ELSE file

\* The time of a passphrase is over (AgentServer shows how).
Evict(a) ==
    /\ \E p \in cache[a] : cache' = [cache EXCEPT ![a] = @ \ {p}]
    /\ UNCHANGED <<file, agent, at, op, pass, conn, elders, flush, late>>

\* Bound: an orphan that holds nothing and talks to nobody is forgotten; all
\* it could still do is to get a SIGTERM.
Retire(a) ==
    /\ Orphan(a) /\ cache[a] = {} /\ \A c \in Clients : conn[c] # a
    /\ Ends(a)
    /\ UNCHANGED file

----------------------------------------------------------------------------
\* Commands.

Goto(c, there) ==
    /\ at' = [at EXCEPT ![c] = there]
    /\ UNCHANGED <<op, pass, late>>

Turn(c, there, request, p) ==
    /\ at' = [at EXCEPT ![c] = there]
    /\ op' = [op EXCEPT ![c] = request]
    /\ pass' = [pass EXCEPT ![c] = p]

Over(c) == Turn(c, "idle", "none", "none") /\ late' = late \ {c}

\* The user is asked; a passphrase that does (decrypt, or be confirmed) is cached.
Ask(c) ==
    \/ Turn(c, "ping", "set", "typed") /\ UNCHANGED late
    \/ Over(c)

\* An entry is set, or is not, and nobody is told; the path and the fallback each
\* have one, and so has every secret that "grep" decrypts.
Again(c) == Goto(c, "ping") \/ Over(c)

\* A request failed, or a GET missed: after the path, the fallback is looked up.
Missed(c) ==
    \/ op[c] = "get" /\ Turn(c, "dial", "global", "none") /\ UNCHANGED late
    \/ op[c] = "global" /\ Ask(c)
    \/ op[c] = "set" /\ Again(c)
    \/ op[c] = "stop" /\ Over(c)

\* cachedDecrypt begins with a "get" of the path, "grep" with the fallback,
\* writePassphrase with a "peek" in mode rw, and with a "set" otherwise, when
\* the user has been asked.
Begin(c, request) ==
    /\ at[c] = "idle"
    /\ Turn(c, "ping", request, IF request = "set" THEN "typed" ELSE "none")
    /\ late' = IF flush = Flushed THEN late \cup {c} ELSE late
    /\ UNCHANGED <<file, agent, cache, conn, elders, flush>>

\* "sympa agent stop", or the flush after a rekey.  What the agents hold now
\* is old when it is over, and what commands have read from them by then is kept.
HandleAgentStop(c) ==
    /\ at[c] = "idle"
    /\ at' = [at EXCEPT ![c] = "ping"] /\ op' = [op EXCEPT ![c] = "stop"]
    /\ IF flush \in {None, Flushed}
       THEN /\ flush' = c /\ late' = {}
            /\ cache' = [a \in Agents |-> IF cache[a] = {} THEN {} ELSE {"old"}]
            /\ pass' = [d \in Clients |->
                          IF pass[d] = "new" /\ \E a \in Agents : cache[a] # {}
                          THEN "kept" ELSE pass[d]]
       ELSE UNCHANGED <<flush, late, cache, pass>>
    /\ UNCHANGED <<file, agent, conn, elders>>

\* The watched stop has told an agent, or found none, or it has failed.
StopWas(c, how) == flush' = IF flush = c THEN how ELSE flush

Found(c) ==
    IF op[c] = "peek" THEN Turn(c, "dial", "get", "none") /\ UNCHANGED late
                      ELSE Goto(c, "dial")

\* Mutant: a ping that failed, for whatever reason, means there is no agent.
PingOnce(c) ==
    /\ at[c] = "ping"
    /\ \/ InService /\ Found(c) /\ UNCHANGED flush
       \/ op[c] = "stop" /\ Over(c) /\ StopWas(c, Flushed)
       \/ ~InService /\ op[c] = "peek" /\ Ask(c) /\ UNCHANGED flush
       \/ /\ ~InService /\ op[c] \in {"get", "global", "set"}
          /\ Goto(c, "spawn") /\ UNCHANGED flush
    /\ UNCHANGED <<file, agent, cache, conn, elders>>

Ping(c) ==
    /\ at[c] = "ping"
    /\ \/ InService /\ Found(c) /\ UNCHANGED flush
       \/ ~InService /\ op[c] = "stop" /\ Over(c) /\ StopWas(c, Flushed)
       \/ ~InService /\ op[c] = "peek" /\ Ask(c) /\ UNCHANGED flush
       \/ /\ ~InService /\ op[c] \in {"get", "global", "set"}
          /\ Goto(c, "spawn") /\ UNCHANGED flush
    /\ UNCHANGED <<file, agent, cache, conn, elders>>

\* EnsureRunning starts an agent (bound: when all of Agents are there, it is
\* one that dies at once) ...
Spawn(c) ==
    /\ at[c] = "spawn" /\ Goto(c, "poll")
    /\ IF \E a \in Agents : agent[a] = "free"
       THEN \E a \in Agents :
               agent[a] = "free" /\ agent' = [agent EXCEPT ![a] = "probe"]
       ELSE UNCHANGED agent
    /\ UNCHANGED <<file, cache, conn, elders, flush>>

\* ... and waits for one to answer, whichever it is ...
Poll(c) ==
    /\ at[c] = "poll" /\ InService /\ Goto(c, "dial")
    /\ UNCHANGED <<file, agent, cache, conn, elders, flush>>

\* ... for a second.
GiveUp(c) ==
    /\ at[c] = "poll" /\ ~InService
    /\ IF op[c] = "set" THEN Again(c) ELSE Ask(c)
    /\ UNCHANGED <<file, agent, cache, conn, elders, flush>>

Dial(c) ==
    /\ at[c] = "dial"
    /\ IF Reachable
       THEN conn' = [conn EXCEPT ![c] = file] /\ Goto(c, "wait") /\ UNCHANGED flush
       ELSE Missed(c) /\ StopWas(c, None) /\ UNCHANGED conn
    /\ UNCHANGED <<file, agent, cache, elders>>

\* The connection breaks: the process is gone, or has closed its listener
\* before it accepted.
Drop(c) ==
    /\ at[c] = "wait"
    /\ conn[c] \in {None} \cup
         {a \in Agents : agent[a] \in {"clear", "unlinkAgain", "undoRemove"}}
    /\ conn' = [conn EXCEPT ![c] = None]
    /\ Missed(c) /\ StopWas(c, None)
    /\ UNCHANGED <<file, agent, cache, elders>>

\* Mutant: connections are accepted before the socket is secured.
ServedEarly(c, request) ==
    /\ at[c] = "wait" /\ op[c] = request
    /\ conn[c] # None /\ (Answering(conn[c]) \/ agent[conn[c]] = "chmod")
    /\ conn' = [conn EXCEPT ![c] = None]
    /\ UNCHANGED <<file, elders>>

Served(c, request) ==
    /\ at[c] = "wait" /\ op[c] = request
    /\ conn[c] # None /\ Answering(conn[c])
    /\ conn' = [conn EXCEPT ![c] = None]
    /\ UNCHANGED <<file, elders>>

\* What is found need not decrypt, and the agent may have nothing of that name.
\* A fallback that decrypts is set for the path as well.
Get(c) ==
    /\ \/ Served(c, "get") /\ (Missed(c) \/ (cache[conn[c]] # {} /\ Over(c)))
       \/ Served(c, "global") /\ Ask(c)
       \/ /\ Served(c, "global") /\ UNCHANGED late
          /\ \E p \in cache[conn[c]] :
               Turn(c, "ping", "set", IF p = "old" THEN "kept" ELSE p)
    /\ UNCHANGED <<agent, cache, flush>>

\* The entry of that name goes, if there is one.
Set(c) ==
    /\ Served(c, "set") /\ Again(c)
    /\ \E p \in cache[conn[c]] \cup {"none"} :
         cache' = [cache EXCEPT ![conn[c]] =
                     (@ \ {p}) \cup {IF pass[c] = "typed" THEN "new" ELSE pass[c]}]
    /\ UNCHANGED <<agent, flush>>

\* BYE, and the agent begins to stop unless it has begun before.
Shutdown(c) ==
    /\ Served(c, "stop") /\ Over(c)
    /\ LET a == conn[c]
       IN /\ agent' = IF agent[a] = "serve" THEN [agent EXCEPT ![a] = "unlink"] ELSE agent
          /\ StopWas(c, IF agent[a] \in {"serve", "unlink"} THEN a ELSE Flushed)
    /\ UNCHANGED cache

----------------------------------------------------------------------------

RunStep(a) ==
    \/ Probe(a) \/ AlreadyRunning(a) \/ RemoveOld(a) \/ Bind(a) \/ BindFails(a)
    \/ Listen(a) \/ Chmod(a) \/ UndoListen(a) \/ UndoRemove(a)

ShutdownStep(a) ==
    \/ Unlink(a) \/ CloseListener(a) \/ ClearCache(a) \/ RemoveSocket(a)
    \/ RunReturns(a)

CommandStep(c) ==
    \/ Ping(c) \/ Spawn(c) \/ Poll(c) \/ GiveUp(c) \/ Dial(c) \/ Drop(c)
    \/ Get(c) \/ Set(c) \/ Shutdown(c)

Next ==
    \/ \E a \in Agents : RunStep(a) \/ ShutdownStep(a)
    \/ \E a \in Agents : HandleAgentStart(a) \/ Sigterm(a) \/ Kill(a)
    \/ \E a \in Agents : Evict(a) \/ Retire(a)
    \/ \E c \in Clients : CommandStep(c)
    \/ \E c \in Readers, request \in {"get", "global", "peek", "set"} : Begin(c, request)
    \/ \E c \in Stoppers : HandleAgentStop(c)

Spec == Init /\ [][Next]_vars

\* Processes run, an agent that is not used forgets, and among the commands that
\* are given are some that read a secret.
FairSpec ==
    /\ Spec
    /\ \A a \in Agents :
         /\ WF_vars(RunStep(a)) /\ WF_vars(ShutdownStep(a))
         /\ WF_vars(Orphan(a) /\ Evict(a)) /\ WF_vars(Retire(a))
    /\ \A c \in Clients : WF_vars(CommandStep(c))
    /\ \A c \in Readers : SF_vars(Begin(c, "get"))

----------------------------------------------------------------------------
\* Properties.

\* Every variable has a value of its kind; only an agent that answers holds a
\* passphrase, only a command that waits is connected, and what a command has in
\* hand it is about to set.
TypeOK ==
    /\ file \in Agents \cup {None, Stale}
    /\ agent \in [Agents ->
         {"free", "probe", "remove", "bind", "listen", "chmod", "serve",
          "unlink", "close", "clear", "unlinkAgain", "undo", "undoClose", "undoRemove"}]
    /\ cache \in [Agents -> SUBSET {"old", "kept", "new"}]
    /\ at \in [Clients -> {"idle", "ping", "spawn", "poll", "dial", "wait"}]
    /\ op \in [Clients -> {"none", "get", "global", "peek", "set", "stop"}]
    /\ pass \in [Clients -> {"none", "typed", "kept", "new"}]
    /\ conn \in [Clients -> Agents \cup {None}]
    /\ elders \subseteq Agents
    /\ flush \in Agents \cup Clients \cup {None, Flushed}
    /\ late \subseteq Clients
    /\ \A a \in Agents : cache[a] # {} => Answering(a)
    /\ \A c \in Clients : conn[c] # None => at[c] = "wait"
    /\ \A c \in Clients : /\ op[c] = "set" <=> pass[c] # "none"
                          /\ at[c] = "idle" => op[c] = "none"

\* A command that begins when a stop is over never gets a passphrase that an
\* agent has held since before the stop, although agents may lose their socket,
\* start and stop meanwhile, and orphans still hold it.  (It may get one from that
\* time: a command that was under way had read it, and has set it again in a new
\* agent; helpers.go:90 and 161.)  Code: commands/agent.go, handleAgentStop;
\* keyfile.go, flushAgentCache; helpers.go, cachedDecrypt.
StopIsFinal ==
    \A c \in late :
        op[c] \in {"get", "global"} /\ conn[c] # None => "old" \notin cache[conn[c]]

\* An agent in service is out of reach of those that come after it: only an
\* agent that was past its probe before this one listened can take the socket
\* away, at any later moment of its life (server.go, Run and Shutdown).
LaterAgentsYield ==
    [][Reachable /\ file' # file =>
         \E a \in elders \cup {file} : agent'[a] # agent[a]]_vars

\* Somebody starts, stops or kills an agent, another reader than c begins, or
\* starts one, or an agent takes so long to start that a command gives up, or the
\* next one begins.
Disturbed(c) ==
    \/ \E a \in Agents : HandleAgentStart(a) \/ Sigterm(a)
    \/ \E a \in Agents : Kill(a) /\ ~RunStep(a) /\ ~ShutdownStep(a) /\ ~Retire(a)
    \/ \E d \in Stoppers : HandleAgentStop(d)
    \/ \E d \in Readers \ {c} : Spawn(d)
    \/ \E d \in Readers \ {c}, request \in {"get", "global", "peek", "set"} : Begin(d, request)
    \/ \E d \in Clients, a \in Agents : (Ping(d) \/ GiveUp(d)) /\ Starting(a)

\* However the socket was left, by whichever agent that died, stopped late or
\* lost a race, the commands of one terminal bring an agent back into service
\* for good, unless they are disturbed again and again (client.go,
\* EnsureRunning; server.go, Run).
ServiceRecovers ==
    \A c \in Readers : []<><<Disturbed(c)>>_vars \/ <>[]InService

=============================================================================
