------------------------- MODULE AgentSocketProofs -------------------------
(***************************************************************************)
(* Theorems about AgentSocket, for any number of agents and terminals.     *)
(*                                                                         *)
(* Both safety properties rest on what a path can name: a new agent gets   *)
(* it (Bind) when it holds nothing, and an agent that has lost it never    *)
(* does.                                                                   *)
(***************************************************************************)
EXTENDS AgentSocket, TLAPS

\* Whoever is not the agent in service is behind its probe for an old reason.
EldersKnown ==
    Reachable => \A b \in Agents \ {file} :
                   agent[b] \in {"free", "probe"} \/ b \in elders

\* From the first half of Close on, an agent does not have its socket.
Unlinked ==
    \A a \in Agents : agent[a] \in {"close", "clear", "unlinkAgain"} => file # a

\* Every agent with an old passphrase, but for those of S, has lost its socket.
Hidden(S) == \A a \in Agents \ S : "old" \in cache[a] => file # a

\* How far the stop that is watched has come: it is connected to an agent, has
\* told it, or is over.
StopProgress ==
    /\ flush \in Clients /\ at[flush] = "wait" => Hidden({conn[flush]})
    /\ flush \in Agents => Hidden({flush})
    /\ flush = Flushed => Hidden({})
    /\ late # {} => flush = Flushed

SInv == TypeOK /\ EldersKnown /\ Unlinked /\ StopProgress /\ StopIsFinal

----------------------------------------------------------------------------

LEMMA InitInv == Init => SInv
<1> SUFFICES ASSUME Init PROVE SInv
  OBVIOUS
<1>1. TypeOK
  BY DEF Init, TypeOK
<1>2. EldersKnown /\ Unlinked
  BY DistinctAssumption DEF Init, EldersKnown, Unlinked, Reachable
<1>3. StopProgress /\ StopIsFinal
  BY DistinctAssumption DEF Init, StopProgress, StopIsFinal
<1> QED
  BY <1>1, <1>2, <1>3 DEF SInv

\* What the end of a process does to each part of the invariant, when it may
\* take the socket file along but gives it to nobody.
LEMMA EndsInv ==
    ASSUME SInv, NEW a \in Agents, agent[a] # "free", Ends(a),
           file' \in {file, None, Stale}
    PROVE  SInv'
<1> USE DistinctAssumption DEF SInv
<1>1. TypeOK'
  BY DEF TypeOK, Ends, Answering
<1>2. EldersKnown'
  BY DEF TypeOK, EldersKnown, Reachable, Listening, Ends
<1>3. Unlinked'
  BY DEF TypeOK, Unlinked, Ends
<1>4. StopProgress'
  <2>1. \A S : Hidden(S) => Hidden(S \cup {a})' /\ Hidden(S)'
    BY DEF TypeOK, Hidden, Ends
  <2>2. Hidden({a}) => Hidden({})'
    BY DEF TypeOK, Hidden, Ends
  <2>3. \A c \in Clients : Hidden({conn[c]}) => Hidden({conn[c]})'
    BY DEF TypeOK, Hidden, Ends
  <2>4. at' = at /\ late' = late /\ flush' = IF flush = a THEN Flushed ELSE flush
    BY DEF Ends
  <2>5. CASE flush = a
    BY <2>2, <2>4, <2>5 DEF StopProgress
  <2>6. CASE flush # a
    BY <2>1, <2>3, <2>4, <2>6 DEF StopProgress
  <2> QED
    BY <2>5, <2>6
<1>5. StopIsFinal'
  BY DEF TypeOK, StopIsFinal, Ends
<1> QED
  BY <1>1, <1>2, <1>3, <1>4, <1>5

\* The other steps of an agent up to its service.
LEMMA RunInv ==
    ASSUME SInv, NEW a \in Agents,
           \/ HandleAgentStart(a) \/ Probe(a) \/ RemoveOld(a) \/ Bind(a)
           \/ Listen(a) \/ Chmod(a) \/ UndoListen(a)
    PROVE  SInv'
<1> USE DistinctAssumption DEF SInv, Step, Moves
<1> USE DEF HandleAgentStart, Probe, RemoveOld, Bind, Listen, Chmod, UndoListen
<1>1. TypeOK'
  BY DEF TypeOK, Answering
<1>2. EldersKnown'
  BY DEF TypeOK, EldersKnown, Reachable, Listening
<1>3. Unlinked'
  BY DEF TypeOK, Unlinked
<1>4. StopProgress'
  <2>1. \A S : Hidden(S) => Hidden(S)'
    BY DEF TypeOK, Hidden, Answering
  <2>2. UNCHANGED <<at, conn, flush, late>>
    OBVIOUS
  <2> QED
    BY <2>1, <2>2 DEF StopProgress
<1>5. StopIsFinal'
  BY DEF TypeOK, StopIsFinal
<1> QED
  BY <1>1, <1>2, <1>3, <1>4, <1>5

\* The steps of an agent that stops, and what time does to a cache.
LEMMA ShutdownInv ==
    ASSUME SInv, NEW a \in Agents,
           \/ Sigterm(a) \/ Unlink(a) \/ CloseListener(a) \/ ClearCache(a)
           \/ Evict(a)
    PROVE  SInv'
<1> USE DistinctAssumption DEF SInv, Step, Moves
<1> USE DEF Sigterm, Unlink, CloseListener, ClearCache, Evict
<1>1. TypeOK'
  BY DEF TypeOK, Answering
<1>2. EldersKnown'
  BY DEF TypeOK, EldersKnown, Reachable, Listening
<1>3. Unlinked'
  BY DEF TypeOK, Unlinked
<1>4. StopProgress'
  <2>1. \A b \in Agents : "old" \in cache'[b] => "old" \in cache[b]
    BY DEF TypeOK
  <2>2. \A S : Hidden(S) => Hidden(S)'
    <3>1. \A b \in Agents : file' = b => file = b
      OBVIOUS
    <3> QED
      BY <2>1, <3>1 DEF Hidden
  <2>3. flush' # flush => Hidden({})' /\ flush' = Flushed
    BY DEF TypeOK, Hidden
  <2>4. UNCHANGED <<at, conn, late>> /\ StopProgress
    OBVIOUS
  <2> HIDE DEF SInv, Step, Moves, Sigterm, Unlink, CloseListener, ClearCache, Evict
  <2>5. CASE flush' = flush
    BY <2>2, <2>4, <2>5 DEF StopProgress
  <2>6. CASE flush' # flush
    BY <2>3, <2>4, <2>6 DEF StopProgress
  <2> QED
    BY <2>5, <2>6
<1>5. StopIsFinal'
  BY DEF TypeOK, StopIsFinal
<1> QED
  BY <1>1, <1>2, <1>3, <1>4, <1>5

----------------------------------------------------------------------------
\* Commands leave the socket alone.

CommandMove(c) ==
    \/ CommandStep(c) \/ HandleAgentStop(c)
    \/ \E request \in {"get", "global", "peek", "set"} : Begin(c, request)

\* A command goes on to its next request, or is over, and the others stay.
Advances(c) ==
    /\ at' \in [Clients -> {"idle", "ping", "spawn", "poll", "dial", "wait"}]
    /\ op' \in [Clients -> {"none", "get", "global", "peek", "set", "stop"}]
    /\ pass' \in [Clients -> {"none", "typed", "kept", "new"}]
    /\ \A d \in Clients : /\ op'[d] = "set" <=> pass'[d] # "none"
                          /\ at'[d] = "idle" => op'[d] = "none"
    /\ \A d \in Clients \ {c} : at'[d] = at[d] /\ op'[d] = op[d]
    /\ late' \subseteq late

\* What a request that fails, an entry that is set and a question lead to.
LEMMA RequestAdvances ==
    ASSUME TypeOK, NEW c \in Clients,
           \/ Missed(c)
           \/ op[c] = "set" /\ Again(c)
           \/ Ask(c)
           \/ Over(c)
    PROVE  Advances(c) /\ at'[c] # "wait"
<1> USE DEF TypeOK, Turn
<1>1. CASE Over(c)
  BY <1>1 DEF Over, Advances
<1>2. CASE Ask(c)
  BY <1>1, <1>2 DEF Ask, Advances
<1>3. CASE op[c] = "set" /\ Again(c)
  BY <1>1, <1>3 DEF Again, Goto, Advances
<1>4. CASE Missed(c)
  <2>1. CASE op[c] = "get" /\ Turn(c, "dial", "global", "none") /\ UNCHANGED late
    BY <2>1 DEF Advances
  <2> QED
    BY <1>1, <1>2, <1>3, <1>4, <2>1 DEF Missed
<1> QED
  BY <1>1, <1>2, <1>3, <1>4

\* Every step of a command; it waits only after it has dialled.
LEMMA CommandAdvances ==
    ASSUME TypeOK, NEW c \in Clients, CommandStep(c)
    PROVE  Advances(c) /\ (at'[c] = "wait" => Dial(c))
<1>1. CASE Ping(c)
  <2>1. CASE Found(c)
    BY <2>1 DEF TypeOK, Found, Turn, Goto, Advances
  <2>2. CASE Goto(c, "spawn")
    BY <2>2 DEF TypeOK, Goto, Advances
  <2> QED
    BY <1>1, <2>1, <2>2, RequestAdvances DEF Ping
<1>2. CASE Spawn(c) \/ Poll(c)
  BY <1>2 DEF TypeOK, Spawn, Poll, Goto, Advances
<1>3. CASE GiveUp(c)
  BY <1>3, RequestAdvances DEF GiveUp
<1>4. CASE Dial(c)
  <2>1. CASE Goto(c, "wait")
    BY <1>4, <2>1 DEF TypeOK, Goto, Advances
  <2>2. CASE Missed(c)
    BY <1>4, <2>2, RequestAdvances
  <2> QED
    BY <1>4, <2>1, <2>2 DEF Dial
<1>5. CASE Drop(c)
  BY <1>5, RequestAdvances DEF Drop
<1>6. CASE Get(c)
  <2>1. ASSUME NEW p \in {"kept", "new"}, Turn(c, "ping", "set", p), UNCHANGED late
        PROVE  Advances(c) /\ at'[c] # "wait"
    BY <2>1 DEF TypeOK, Turn, Advances
  <2>2. ASSUME NEW p \in cache[conn[c]], Served(c, "global")
        PROVE  (IF p = "old" THEN "kept" ELSE p) \in {"kept", "new"}
    BY <2>2 DEF TypeOK, Served
  <2> QED
    BY <1>6, <2>1, <2>2, RequestAdvances DEF Get
<1>7. CASE Set(c)
  BY <1>7, RequestAdvances DEF Set, Served
<1>8. CASE Shutdown(c)
  BY <1>8, RequestAdvances DEF Shutdown
<1> QED
  BY <1>1, <1>2, <1>3, <1>4, <1>5, <1>6, <1>7, <1>8 DEF CommandStep

\* What a command does to the rest: only a SET adds to a cache, and nothing old.
LEMMA CommandEffects ==
    ASSUME TypeOK, NEW c \in Clients, CommandStep(c)
    PROVE  /\ file' = file /\ elders' = elders
           /\ cache' \in [Agents -> SUBSET {"old", "kept", "new"}]
           /\ \A a \in Agents : "old" \in cache'[a] => "old" \in cache[a]
           /\ \A a \in Agents : cache'[a] # {} => cache[a] # {} \/ Answering(a)
           /\ conn' \in [Clients -> Agents \cup {None}]
           /\ \A d \in Clients \ {c} : conn'[d] = conn[d]
           /\ ~Dial(c) => conn'[c] = None
<1>1. CASE Ping(c) \/ Spawn(c) \/ Poll(c) \/ GiveUp(c)
  BY <1>1 DEF TypeOK, Ping, Spawn, Poll, GiveUp
<1>2. CASE Dial(c)
  BY <1>2 DEF TypeOK, Dial, Reachable
<1>3. CASE Drop(c)
  BY <1>3 DEF TypeOK, Drop
<1>4. CASE Get(c) \/ Shutdown(c)
  BY <1>4 DEF TypeOK, Get, Shutdown, Served
<1>5. CASE Set(c)
  <2>1. op[c] = "set" /\ conn[c] \in Agents /\ Answering(conn[c])
    BY <1>5 DEF TypeOK, Set, Served
  <2>2. (IF pass[c] = "typed" THEN "new" ELSE pass[c]) \in {"kept", "new"}
    BY <2>1 DEF TypeOK
  <2>3. PICK p, q : q \in {"kept", "new"}
                    /\ cache' = [cache EXCEPT ![conn[c]] = (@ \ {p}) \cup {q}]
    BY <1>5, <2>2 DEF Set
  <2> QED
    BY <1>5, <2>1, <2>3 DEF TypeOK, Set, Served
<1> QED
  BY <1>1, <1>2, <1>3, <1>4, <1>5 DEF CommandStep

\* An agent changes at most from free to its probe, and from its service to
\* its stop.
LEMMA CommandAgents ==
    ASSUME TypeOK, NEW c \in Clients, CommandMove(c)
    PROVE  /\ file' = file /\ elders' = elders
           /\ \/ agent' = agent
              \/ \E a \in Agents :
                   agent[a] = "free" /\ agent' = [agent EXCEPT ![a] = "probe"]
              \/ \E a \in Agents :
                   agent[a] = "serve" /\ agent' = [agent EXCEPT ![a] = "unlink"]
<1>1. CASE Spawn(c)
  BY <1>1 DEF Spawn
<1>2. CASE Shutdown(c)
  <2>1. conn[c] \in Agents
    BY <1>2 DEF TypeOK, Shutdown, Served
  <2> QED
    BY <1>2, <2>1 DEF Shutdown, Served
<1>3. CASE Ping(c) \/ Poll(c) \/ GiveUp(c) \/ Dial(c) \/ Drop(c)
  BY <1>3 DEF Ping, Poll, GiveUp, Dial, Drop
<1>4. CASE Get(c) \/ Set(c)
  BY <1>4 DEF Get, Set, Served
<1> QED
  BY <1>1, <1>2, <1>3, <1>4 DEF CommandMove, CommandStep, Begin, HandleAgentStop

LEMMA CommandType ==
    ASSUME TypeOK, NEW c \in Clients, CommandMove(c)
    PROVE  TypeOK'
<1> USE DistinctAssumption
<1>1. ASSUME NEW request \in {"get", "global", "peek", "set"}, Begin(c, request)
      PROVE  TypeOK'
  BY <1>1 DEF TypeOK, Begin, Turn, Answering
<1>2. CASE HandleAgentStop(c)
  <2>1. /\ file' = file /\ agent' = agent /\ conn' = conn /\ elders' = elders
        /\ flush' \in Agents \cup Clients \cup {None, Flushed} /\ late' \subseteq Clients
    BY <1>2 DEF TypeOK, HandleAgentStop
  <2>2. /\ cache' \in [Agents -> SUBSET {"old", "kept", "new"}]
        /\ \A a \in Agents : cache'[a] # {} => cache[a] # {}
    BY <1>2 DEF TypeOK, HandleAgentStop
  <2>3. /\ pass' \in [Clients -> {"none", "typed", "kept", "new"}]
        /\ \A d \in Clients : pass'[d] = "none" <=> pass[d] = "none"
    BY <1>2 DEF TypeOK, HandleAgentStop
  <2>4. /\ at[c] = "idle"
        /\ at' = [at EXCEPT ![c] = "ping"] /\ op' = [op EXCEPT ![c] = "stop"]
    BY <1>2 DEF HandleAgentStop
  <2> QED
    BY <2>1, <2>2, <2>3, <2>4 DEF TypeOK, Answering
<1>3. CASE CommandStep(c)
  <2>1. Advances(c) /\ (at'[c] = "wait" => Dial(c))
    BY <1>3, CommandAdvances
  <2>2. agent' \in [Agents ->
           {"free", "probe", "remove", "bind", "listen", "chmod", "serve", "unlink",
            "close", "clear", "unlinkAgain", "undo", "undoClose", "undoRemove"}]
    BY <1>3, CommandAgents DEF TypeOK, CommandMove
  <2>3. flush' \in Agents \cup Clients \cup {None, Flushed}
    BY <1>3 DEF TypeOK, CommandStep, Ping, Spawn, Poll, GiveUp, Dial, Drop, Get, Set,
       Shutdown, StopWas, Served
  <2>4. \A a \in Agents : cache'[a] # {} => Answering(a)'
    BY <1>3, CommandEffects, CommandAgents DEF TypeOK, Answering, CommandMove
  <2>5. \A d \in Clients : conn'[d] # None => at'[d] = "wait"
    <3>1. Dial(c) /\ conn'[c] # None => at'[c] = "wait"
      BY DEF TypeOK, Dial, Goto
    <3> QED
      BY <1>3, <2>1, <3>1, CommandEffects DEF TypeOK, Advances
  <2>6. /\ file' = file /\ elders' = elders
        /\ cache' \in [Agents -> SUBSET {"old", "kept", "new"}]
        /\ conn' \in [Clients -> Agents \cup {None}]
    BY <1>3, CommandEffects
  <2> QED
    BY <2>1, <2>2, <2>3, <2>4, <2>5, <2>6 DEF TypeOK, Advances
<1> QED
  BY <1>1, <1>2, <1>3 DEF CommandMove

LEMMA CommandElders ==
    ASSUME SInv, NEW c \in Clients, CommandMove(c)
    PROVE  EldersKnown' /\ Unlinked'
<1>1. TypeOK /\ TypeOK' /\ EldersKnown /\ Unlinked
  BY CommandType DEF SInv
<1> QED
  BY <1>1, CommandAgents, DistinctAssumption
     DEF TypeOK, EldersKnown, Unlinked, Reachable, Listening

\* A stop that finds no agent in service leaves no old passphrase in reach.
LEMMA NobodyThere ==
    ASSUME SInv, ~InService
    PROVE  Hidden({})
BY DistinctAssumption
   DEF SInv, TypeOK, Unlinked, InService, Reachable, Listening, Answering, Hidden

LEMMA CommandStop ==
    ASSUME SInv, NEW c \in Clients, CommandMove(c)
    PROVE  StopProgress'
<1> USE DistinctAssumption DEF SInv
<1>0. file' = file
  BY CommandAgents
<1>1. ASSUME NEW request \in {"get", "global", "peek", "set"}, Begin(c, request)
      PROVE  StopProgress'
  <2>1. \A S : Hidden(S) => Hidden(S)'
    BY <1>1 DEF Begin, Hidden
  <2> QED
    BY <1>1, <2>1 DEF TypeOK, StopProgress, Begin, Turn
<1>2. CASE HandleAgentStop(c)
  <2>1. CASE flush \in {None, Flushed}
    BY <1>2, <2>1 DEF TypeOK, StopProgress, HandleAgentStop
  <2>2. CASE flush \notin {None, Flushed}
    <3>1. \A S : Hidden(S) => Hidden(S)'
      BY <1>2, <2>2 DEF HandleAgentStop, Hidden
    <3> QED
      BY <1>2, <2>2, <3>1 DEF TypeOK, StopProgress, HandleAgentStop
  <2> QED
    BY <2>1, <2>2
<1>3. CASE CommandStep(c)
  <2>1. \A S : Hidden(S) => Hidden(S)'
    BY <1>3, CommandEffects DEF Hidden
  <2>2. Advances(c) /\ (at'[c] = "wait" => Dial(c))
    BY <1>3, CommandAdvances
  <2>3. \A d \in Clients \ {c} : conn'[d] = conn[d]
    BY <1>3, CommandEffects
  <2>4. Dial(c) /\ conn'[c] # None => Hidden({conn[c]})'
    <3> SUFFICES ASSUME Dial(c), conn'[c] # None PROVE Hidden({conn[c]})'
      OBVIOUS
    <3>1. conn'[c] = file
      BY DEF TypeOK, Dial
    <3> QED
      BY <1>0, <3>1 DEF Hidden
  <2>5. Dial(c) /\ conn'[c] = None => at'[c] # "wait"
    <3>1. Missed(c) => at'[c] # "wait"
      BY RequestAdvances
    <3>2. Reachable /\ Dial(c) => conn'[c] \in Agents
      BY DEF TypeOK, Dial, Reachable
    <3> QED
      BY <3>1, <3>2 DEF Dial
  <2>6. CASE flush' = flush
    <3>1. flush \in Clients /\ at'[flush] = "wait" => Hidden({conn[flush]})'
      <4>1. CASE flush = c
        BY <2>2, <2>4, <2>5, <2>6, <4>1
      <4>2. CASE flush # c
        BY <2>1, <2>2, <2>3, <2>6, <4>2 DEF StopProgress, Advances
      <4> QED
        BY <4>1, <4>2
    <3> QED
      BY <2>1, <2>2, <2>6, <3>1 DEF StopProgress, Advances
  <2>7. ASSUME flush = c, flush' = None PROVE StopProgress'
    BY <2>2, <2>7 DEF TypeOK, StopProgress, Advances
  <2>8. ASSUME flush = c, flush' = Flushed, Hidden({})' PROVE StopProgress'
    BY <2>2, <2>8 DEF TypeOK, StopProgress, Advances
  <2>9. CASE Ping(c)
    <3>1. ~InService => Hidden({})'
      BY <2>1, NobodyThere
    <3> QED
      BY <2>6, <2>8, <2>9, <3>1 DEF Ping, StopWas
  <2>10. CASE Shutdown(c)
    <3>1. conn[c] \in Agents /\ Answering(conn[c]) /\ at[c] = "wait"
      BY <2>10 DEF TypeOK, Shutdown, Served
    <3>2. agent[conn[c]] \notin {"serve", "unlink"} /\ Hidden({conn[c]}) => Hidden({})
      BY <3>1 DEF TypeOK, Unlinked, Answering, Hidden
    <3>3. flush = c => Hidden({conn[c]})
      BY <3>1 DEF StopProgress
    <3>4. CASE flush = c /\ agent[conn[c]] \in {"serve", "unlink"}
      BY <2>1, <2>2, <2>10, <3>1, <3>3, <3>4
         DEF TypeOK, StopProgress, Shutdown, StopWas, Advances
    <3>5. CASE flush = c /\ agent[conn[c]] \notin {"serve", "unlink"}
      BY <2>1, <2>8, <2>10, <3>2, <3>3, <3>5 DEF Shutdown, StopWas
    <3> QED
      BY <2>6, <2>10, <3>4, <3>5 DEF Shutdown, StopWas
  <2>11. CASE Dial(c) \/ Drop(c)
    BY <2>6, <2>7, <2>11 DEF Dial, Drop, StopWas
  <2> QED
    BY <1>3, <2>6, <2>9, <2>10, <2>11 DEF CommandStep, Spawn, Poll, GiveUp, Get, Set
<1> QED
  BY <1>1, <1>2, <1>3 DEF CommandMove

LEMMA CommandFinal ==
    ASSUME SInv, NEW c \in Clients, CommandMove(c)
    PROVE  StopIsFinal'
<1> USE DistinctAssumption DEF SInv
<1>1. ASSUME NEW request \in {"get", "global", "peek", "set"}, Begin(c, request)
      PROVE  StopIsFinal'
  BY <1>1 DEF TypeOK, StopIsFinal, Begin, Turn
<1>2. CASE HandleAgentStop(c)
  BY <1>2 DEF TypeOK, StopIsFinal, HandleAgentStop
<1>3. CASE CommandStep(c)
  <2>1. ASSUME Dial(c), conn'[c] # None, c \in late'
        PROVE  "old" \notin cache'[conn'[c]]
    <3>1. Advances(c)
      BY <1>3, CommandAdvances
    <3>2. Hidden({})
      BY <2>1, <3>1 DEF StopProgress, Advances
    <3>3. conn'[c] = file /\ file \in Agents /\ cache' = cache
      BY <2>1 DEF TypeOK, Dial, Reachable
    <3> QED
      BY <3>2, <3>3 DEF Hidden
  <2>2. ~Dial(c) => conn'[c] = None
    BY <1>3, CommandEffects
  <2>3. ASSUME NEW d \in late' \ {c}, op'[d] \in {"get", "global"}, conn'[d] # None
        PROVE  "old" \notin cache'[conn'[d]]
    BY <1>3, <2>3, CommandAdvances, CommandEffects DEF TypeOK, StopIsFinal, Advances
  <2> QED
    BY <2>1, <2>2, <2>3 DEF StopIsFinal
<1> QED
  BY <1>1, <1>2, <1>3 DEF CommandMove

----------------------------------------------------------------------------

LEMMA Invariance == SInv /\ [Next]_vars => SInv'
<1> SUFFICES ASSUME SInv, [Next]_vars PROVE SInv'
  OBVIOUS
<1>1. ASSUME NEW a \in Agents, RunStep(a) PROVE SInv'
  <2>1. CASE AlreadyRunning(a) \/ BindFails(a) \/ UndoRemove(a)
    BY <2>1, EndsInv DEF AlreadyRunning, BindFails, UndoRemove
  <2> QED
    BY <1>1, <2>1, RunInv DEF RunStep
<1>2. ASSUME NEW a \in Agents, ShutdownStep(a) PROVE SInv'
  <2>1. CASE RemoveSocket(a) \/ RunReturns(a)
    BY <2>1, EndsInv DEF RemoveSocket, RunReturns
  <2> QED
    BY <1>2, <2>1, ShutdownInv DEF ShutdownStep
<1>3. ASSUME NEW a \in Agents, HandleAgentStart(a) \/ Sigterm(a) PROVE SInv'
  BY <1>3, RunInv, ShutdownInv
<1>4. ASSUME NEW a \in Agents, Kill(a) \/ Retire(a) PROVE SInv'
  BY <1>4, EndsInv DEF Kill, Retire, Orphan
<1>5. ASSUME NEW a \in Agents, Evict(a) PROVE SInv'
  BY <1>5, ShutdownInv
<1>6. ASSUME NEW c \in Clients, CommandMove(c)
      PROVE  SInv'
  BY <1>6, CommandType, CommandElders, CommandStop, CommandFinal DEF SInv
<1>7. CASE UNCHANGED vars
  BY <1>7 DEF vars, SInv, TypeOK, EldersKnown, Unlinked, StopProgress, StopIsFinal,
     Hidden, Reachable, Listening, Answering
<1> QED
  BY <1>1, <1>2, <1>3, <1>4, <1>5, <1>6, <1>7
     DEF Next, CommandMove, Clients

LEMMA SocketInvariant == Spec => []SInv
BY InitInv, Invariance, PTL DEF Spec

\* In every state of any instance the variables have values of their kind, and
\* only an agent that answers holds a passphrase.
THEOREM SocketTypes == Spec => []TypeOK
<1>1. SInv => TypeOK
  BY DEF SInv
<1> QED
  BY <1>1, SocketInvariant, PTL

\* Once a stop is over, no command that begins gets a passphrase from an agent
\* that has held it since before the stop: such an agent has lost its socket for
\* good.  (A command that was under way may set it again in another agent.)
THEOREM StopsAreFinal == Spec => []StopIsFinal
<1>1. SInv => StopIsFinal
  BY DEF SInv
<1> QED
  BY <1>1, SocketInvariant, PTL

\* Only agents that were past their probe before it listened can take the socket
\* of an agent that listens.
THEOREM ServiceIsSafe == Spec => LaterAgentsYield
<1> DEFINE Taken ==
      Reachable /\ file' # file => \E a \in elders \cup {file} : agent'[a] # agent[a]
<1>1. ASSUME SInv, [Next]_vars PROVE Taken
  <2> SUFFICES ASSUME Reachable, file' # file
               PROVE  \E a \in elders \cup {file} : agent'[a] # agent[a]
    OBVIOUS
  <2>1. ASSUME NEW a \in Agents, agent[a] \notin {"free", "probe"},
               agent'[a] # agent[a]
        PROVE  \E b \in elders \cup {file} : agent'[b] # agent[b]
    BY <2>1, <1>1 DEF SInv, EldersKnown
  <2>2. ASSUME NEW a \in Agents, RunStep(a) PROVE agent[a] \notin {"free", "probe"}
                                                   /\ agent'[a] # agent[a]
    BY <2>2, <1>1, DistinctAssumption
       DEF SInv, TypeOK, RunStep, Probe, AlreadyRunning, RemoveOld, Bind, BindFails,
           Listen, Chmod, UndoListen, UndoRemove, Step, Moves, Ends, Reachable
  <2>3. ASSUME NEW a \in Agents, ShutdownStep(a)
        PROVE  agent[a] \notin {"free", "probe"} /\ agent'[a] # agent[a]
    BY <2>3, <1>1
       DEF SInv, TypeOK, ShutdownStep, Unlink, CloseListener, ClearCache, RemoveSocket,
           RunReturns, Step, Moves, Ends
  <2>4. ASSUME NEW a \in Agents, HandleAgentStart(a) \/ Sigterm(a) \/ Kill(a)
        PROVE  agent[a] \notin {"free", "probe"} /\ agent'[a] # agent[a]
    BY <2>4, <1>1
       DEF SInv, TypeOK, HandleAgentStart, Sigterm, Kill, Step, Moves, Ends, Reachable,
           Listening
  <2>5. ASSUME NEW a \in Agents PROVE ~Evict(a) /\ ~Retire(a)
    BY DEF Evict, Retire, Ends
  <2>6. ASSUME NEW c \in Clients PROVE ~CommandMove(c)
    BY <1>1, CommandAgents DEF SInv
  <2> QED
    BY <1>1, <2>1, <2>2, <2>3, <2>4, <2>5, <2>6
       DEF Next, CommandMove, Clients, vars
<1> QED
  BY <1>1, SocketInvariant, PTL DEF Spec, LaterAgentsYield
=============================================================================
