---------------------------- MODULE AgentProofs ----------------------------
(***************************************************************************)
(* Theorems about AgentServer.  The goroutines inside Shutdown and the     *)
(* state of the process do not matter to EvictionBound: an entry is made,  *)
(* used, aged and evicted by actions that read nothing else than cache,    *)
(* elapsed and the request they serve.  Nor do they to the refinement of   *)
(* AgentCache, but for the step of Shutdown that clears the cache.         *)
(***************************************************************************)
EXTENDS AgentServer, TLAPS

AInv == TypeOK /\ EvictionBound

----------------------------------------------------------------------------
\* Requests and their answers.

\* What TypeOK says of a connection whose request waits to be served.
LEMMA WaitingRequest ==
    ASSUME TypeOK, NEW c \in Conns, conn[c].at = "read"
    PROVE  conn[c] \in Requests
<1>1. conn[c] \in Requests \cup Replies \cup {Closed}
  BY DEF TypeOK
<1>2. conn[c] \notin Replies
  BY DEF Replies
<1>3. conn[c] # Closed
  BY DEF Closed
<1> QED
  BY <1>1, <1>2, <1>3

\* The request a handler serves is one of the requests.
LEMMA HandledRequest ==
    ASSUME TypeOK, NEW c \in Conns, NEW v, Handling(c, v)
    PROVE  conn[c] \in Requests /\ conn[c].verb = v
BY WaitingRequest DEF Handling

\* The path and the passphrase of a request that has them.
LEMMA RequestParts ==
    ASSUME NEW r \in Requests
    PROVE  /\ r.verb \in {"GET", "FORGET", "SET"} => r.path \in Paths
           /\ r.verb = "SET" => r.pass \in Passes
BY DEF Requests

\* The answers of each kind of request.
LEMMA ReplyToGet ==
    ASSUME NEW r \in Requests, r.verb = "GET", NEW a \in Passes \cup {"MISS"}
    PROVE  Answered(r, a) \in Replies
BY DEF Requests, Replies, Answered

LEMMA ReplyToOthers ==
    ASSUME NEW r \in Requests
    PROVE  /\ r.verb \in {"SET", "FORGET", "CLEAR"} => Answered(r, "OK") \in Replies
           /\ r.verb = "PING" => Answered(r, "PONG") \in Replies
           /\ r.verb = "SHUTDOWN" => Answered(r, "BYE") \in Replies
BY DEF Requests, Replies, Answered

\* A reply in the place of a request leaves the connections well typed.
LEMMA AnswerType ==
    ASSUME TypeOK, NEW c \in Conns, NEW a,
           Answered(conn[c], a) \in Replies, Answer(c, a)
    PROVE  conn' \in [Conns -> Requests \cup Replies \cup {Closed}]
BY DEF TypeOK, Answer

\* An entry put into the cache leaves a cache.
LEMMA PutType ==
    ASSUME TypeOK, NEW p \in Paths, NEW e \in Entry \cup {Nothing}, Put(p, e)
    PROVE  cache' \in [Paths -> Entry \cup {Nothing}]
BY DEF TypeOK, Put

\* A fresh entry, or none, respects the bound.
LEMMA PutBound ==
    ASSUME AInv, NEW p \in Paths, NEW e \in Entry \cup {Nothing},
           e # Nothing => e.age = 0, Put(p, e), elapsed' = elapsed
    PROVE  EvictionBound'
BY TTLAssumption DEF AInv, TypeOK, EvictionBound, Put

----------------------------------------------------------------------------
\* The invariant, action by action.

LEMMA InitInv == Init => AInv
<1> SUFFICES ASSUME Init PROVE AInv
  OBVIOUS
<1>1. TypeOK
  <2>1. conn \in [Conns -> Requests \cup Replies \cup {Closed}]
    BY DEF Init
  <2>2. cache \in [Paths -> Entry \cup {Nothing}]
    BY DEF Init
  <2>3. elapsed \in 0..Period
    BY PeriodAssumption DEF Init
  <2>4. stopper \in [Stoppers ->
          {"none", "check", "close", "listener", "clear", "unlink", "finished"}]
    BY DEF Init
  <2> QED
    BY <2>1, <2>2, <2>3, <2>4 DEF Init, TypeOK
<1>2. EvictionBound
  BY DEF Init, EvictionBound
<1> QED
  BY <1>1, <1>2 DEF AInv

\* A step of a connection.
LEMMA ConnStep ==
    ASSUME AInv, NEW c \in Conns, Accept(c) \/ ServeConn(c)
    PROVE  AInv'
<1> USE DEF AInv
<1>1. CASE Accept(c)
  <2>1. PICK r \in Requests : conn' = [conn EXCEPT ![c] = r]
    BY <1>1 DEF Accept
  <2> QED
    BY <1>1, <2>1 DEF Accept, TypeOK, EvictionBound
<1>2. CASE HandlePing(c)
  <2>1. Answered(conn[c], "PONG") \in Replies
    BY <1>2, HandledRequest, ReplyToOthers DEF HandlePing
  <2>2. conn' \in [Conns -> Requests \cup Replies \cup {Closed}]
    BY <1>2, <2>1, AnswerType DEF HandlePing
  <2> QED
    BY <1>2, <2>2 DEF HandlePing, Handling, TypeOK, EvictionBound
<1>3. CASE HandleGet(c)
  <2> DEFINE p == conn[c].path
  <2>1. conn[c] \in Requests /\ conn[c].verb = "GET" /\ p \in Paths
    BY <1>3, HandledRequest, RequestParts DEF HandleGet
  <2>2. PICK a \in Passes \cup {"MISS"}, e \in Entry \cup {Nothing} :
          Answer(c, a) /\ Put(p, e) /\ (e # Nothing => e.age = 0)
    <3>1. CASE cache[p] # Nothing /\ ~Expired(cache[p])
      <4>1. cache[p] \in Entry
        BY <2>1, <3>1 DEF TypeOK
      <4>2. /\ [cache[p] EXCEPT !.age = 0] \in Entry
            /\ [cache[p] EXCEPT !.age = 0].age = 0
            /\ cache[p].pass \in Passes
        BY <4>1 DEF Entry
      <4>3. Answer(c, cache[p].pass) /\ Put(p, [cache[p] EXCEPT !.age = 0])
        BY <1>3, <3>1 DEF HandleGet
      <4> QED
        BY <4>2, <4>3
    <3>2. CASE ~(cache[p] # Nothing /\ ~Expired(cache[p]))
      <4>1. Answer(c, "MISS") /\ Put(p, Nothing)
        BY <1>3, <3>2 DEF HandleGet
      <4> QED
        BY <4>1
    <3> QED
      BY <3>1, <3>2
  <2>3. Answered(conn[c], a) \in Replies
    BY <2>1, ReplyToGet
  <2>4. conn' \in [Conns -> Requests \cup Replies \cup {Closed}]
    BY <2>2, <2>3, AnswerType
  <2>5. cache' \in [Paths -> Entry \cup {Nothing}]
    BY <2>1, <2>2, PutType
  <2>6. UNCHANGED <<elapsed, done, listening, process, stopper>>
    BY <1>3 DEF HandleGet, Handling
  <2>7. EvictionBound'
    BY <2>1, <2>2, <2>6, PutBound
  <2> QED
    BY <2>4, <2>5, <2>6, <2>7 DEF TypeOK
<1>4. CASE HandleSet(c)
  <2> DEFINE p == conn[c].path
             e == [pass |-> conn[c].pass, age |-> 0]
  <2>1. conn[c] \in Requests /\ conn[c].verb = "SET"
    BY <1>4, HandledRequest DEF HandleSet
  <2>2. p \in Paths /\ e \in Entry /\ e.age = 0
    BY <2>1, RequestParts DEF Entry
  <2>3. Answer(c, "OK") /\ Put(p, e)
    BY <1>4 DEF HandleSet
  <2>4. conn' \in [Conns -> Requests \cup Replies \cup {Closed}]
    BY <2>1, <2>3, ReplyToOthers, AnswerType
  <2>5. cache' \in [Paths -> Entry \cup {Nothing}]
    BY <2>2, <2>3, PutType
  <2>6. UNCHANGED <<elapsed, done, listening, process, stopper>>
    BY <1>4 DEF HandleSet, Handling
  <2>7. EvictionBound'
    BY <2>2, <2>3, <2>6, PutBound
  <2> QED
    BY <2>4, <2>5, <2>6, <2>7 DEF TypeOK
<1>5. CASE HandleForget(c)
  <2> DEFINE p == conn[c].path
  <2>1. conn[c] \in Requests /\ conn[c].verb = "FORGET" /\ p \in Paths
    BY <1>5, HandledRequest, RequestParts DEF HandleForget
  <2>2. Answer(c, "OK") /\ Put(p, Nothing)
    BY <1>5 DEF HandleForget
  <2>3. conn' \in [Conns -> Requests \cup Replies \cup {Closed}]
    BY <2>1, <2>2, ReplyToOthers, AnswerType
  <2>4. cache' \in [Paths -> Entry \cup {Nothing}]
    BY <2>1, <2>2, PutType
  <2>5. UNCHANGED <<elapsed, done, listening, process, stopper>>
    BY <1>5 DEF HandleForget, Handling
  <2>6. EvictionBound'
    BY <2>1, <2>2, <2>5, PutBound
  <2> QED
    BY <2>3, <2>4, <2>5, <2>6 DEF TypeOK
<1>6. CASE HandleClear(c)
  <2>1. conn[c] \in Requests /\ conn[c].verb = "CLEAR"
    BY <1>6, HandledRequest DEF HandleClear
  <2>2. conn' \in [Conns -> Requests \cup Replies \cup {Closed}]
    BY <1>6, <2>1, ReplyToOthers, AnswerType DEF HandleClear
  <2> QED
    BY <1>6, <2>2 DEF HandleClear, Handling, ClearLocked, TypeOK, EvictionBound
<1>7. CASE HandleShutdown(c)
  <2>1. conn[c] \in Requests /\ conn[c].verb = "SHUTDOWN"
    BY <1>7, HandledRequest DEF HandleShutdown
  <2>2. conn' \in [Conns -> Requests \cup Replies \cup {Closed}]
    BY <1>7, <2>1, ReplyToOthers, AnswerType DEF HandleShutdown
  <2> QED
    BY <1>7, <2>2 DEF HandleShutdown, Handling, TypeOK, EvictionBound
<1>8. CASE WriteAnswer(c)
  BY <1>8 DEF WriteAnswer, TypeOK, EvictionBound, Stoppers
<1> QED
  BY <1>1, <1>2, <1>3, <1>4, <1>5, <1>6, <1>7, <1>8 DEF ServeConn

\* A step of the reaper or of time.
LEMMA TickStep == AInv /\ Tick => AInv'
<1> SUFFICES ASSUME AInv, Tick PROVE AInv'
  OBVIOUS
<1> USE DEF AInv
<1>1. \A p \in Paths : IF cache[p] = Nothing THEN cache'[p] = Nothing
                       ELSE /\ cache'[p] \in Entry
                            /\ cache'[p].age = cache[p].age + 1
                            /\ cache[p].age \in Nat
  <2> SUFFICES ASSUME NEW p \in Paths, cache[p] # Nothing
               PROVE  /\ cache'[p] \in Entry
                      /\ cache'[p].age = cache[p].age + 1
                      /\ cache[p].age \in Nat
    BY DEF Tick
  <2>1. cache[p] \in Entry
    BY DEF TypeOK
  <2>2. cache'[p] = [cache[p] EXCEPT !.age = cache[p].age + 1]
    BY DEF Tick
  <2> QED
    BY <2>1, <2>2 DEF Entry
<1>2. elapsed' = elapsed + 1 /\ elapsed \in 0..Period /\ elapsed' \in 0..Period
  BY PeriodAssumption DEF Tick, TypeOK
<1>3. cache' \in [Paths -> Entry \cup {Nothing}]
  <2>1. cache' = [p \in Paths |-> cache'[p]]
    BY DEF Tick
  <2> QED
    BY <1>1, <2>1
<1>4. TypeOK'
  BY <1>2, <1>3 DEF Tick, TypeOK
<1>5. EvictionBound'
  BY <1>1, <1>2, TTLAssumption DEF EvictionBound
<1> QED
  BY <1>4, <1>5

\* The reaper leaves no entry that is older than TTL.
LEMMA ReapStep == AInv /\ Reap => AInv'
<1> SUFFICES ASSUME AInv, Reap PROVE AInv'
  OBVIOUS
<1> USE DEF AInv
<1>1. TypeOK'
  BY PeriodAssumption DEF Reap, TypeOK
<1>2. EvictionBound'
  <2> SUFFICES ASSUME NEW p \in Paths, cache'[p] # Nothing
               PROVE  cache'[p].age <= TTL + elapsed'
    BY DEF EvictionBound
  <2>1. cache'[p] = cache[p] /\ cache[p] # Nothing /\ ~(cache[p].age > TTL)
    BY DEF Reap, Evictable
  <2>2. cache[p].age \in Nat
    BY <2>1 DEF TypeOK, Entry
  <2> QED
    BY <2>1, <2>2, TTLAssumption DEF Reap
<1> QED
  BY <1>1, <1>2

\* A step of a goroutine inside Shutdown.
LEMMA ShutdownInv ==
    ASSUME AInv, NEW s \in Stoppers, ShutdownStep(s)
    PROVE  AInv'
<1> USE DEF AInv, At, Goto
<1>1. CASE CheckDone(s)
  BY <1>1 DEF CheckDone, TypeOK, EvictionBound
<1>2. CASE CloseDone(s)
  BY <1>2 DEF CloseDone, TypeOK, EvictionBound
<1>3. CASE CloseListener(s)
  BY <1>3 DEF CloseListener, TypeOK, EvictionBound
<1>4. CASE ClearCache(s)
  BY <1>4 DEF ClearCache, ClearLocked, TypeOK, EvictionBound
<1>5. CASE RemoveSocket(s)
  BY <1>5 DEF RemoveSocket, TypeOK, EvictionBound
<1> QED
  BY <1>1, <1>2, <1>3, <1>4, <1>5 DEF ShutdownStep

LEMMA NextInv == AInv /\ [Next]_vars => AInv'
<1> SUFFICES ASSUME AInv, [Next]_vars PROVE AInv'
  OBVIOUS
<1>1. CASE \E c \in Conns : Accept(c) \/ ServeConn(c)
  BY <1>1, ConnStep
<1>2. CASE Tick
  BY <1>2, TickStep
<1>3. CASE Reap
  BY <1>3, ReapStep
<1>4. CASE Sigterm
  BY <1>4 DEF Sigterm, At, Goto, Stoppers, AInv, TypeOK, EvictionBound
<1>5. CASE \E s \in Stoppers : ShutdownStep(s)
  BY <1>5, ShutdownInv
<1>6. CASE RunReturns
  BY <1>6 DEF RunReturns, AInv, TypeOK, EvictionBound
<1>7. CASE UNCHANGED vars
  BY <1>7 DEF vars, AInv, TypeOK, EvictionBound
<1> QED
  BY <1>1, <1>2, <1>3, <1>4, <1>5, <1>6, <1>7 DEF Next

----------------------------------------------------------------------------
\* The theorems.

LEMMA Invariance == Spec => []AInv
BY InitInv, NextInv, PTL DEF Spec

\* Every value the goroutines of the agent share keeps its kind, and every
\* answer is one that its request can get (server.go, handleConn).
THEOREM TypeCorrect == Spec => []TypeOK
<1>1. AInv => TypeOK
  BY DEF AInv
<1> QED
  BY <1>1, Invariance, PTL

\* No entry lives longer than TTL after its last use plus the time since the
\* last tick of the reaper, for every TTL and period and however requests,
\* ticks and shutdowns interleave (server.go, reaper and handleConn).
THEOREM EvictionInTime == Spec => []EvictionBound
<1>1. AInv => EvictionBound
  BY DEF AInv
<1> QED
  BY <1>1, Invariance, PTL

----------------------------------------------------------------------------
\* The refinement: what is held is what a GET would find.

Held == [p \in Paths |->
           IF cache[p] = Nothing \/ Expired(cache[p]) THEN Nothing ELSE cache[p]]

\* A step that puts an entry of age 0, or none, in the cache puts it among what
\* is held.
LEMMA HeldPut ==
    ASSUME TypeOK, NEW p \in Paths, NEW e \in Entry \cup {Nothing},
           e # Nothing => e.age = 0, Put(p, e)
    PROVE  Held' = [Held EXCEPT ![p] = e]
<1>1. cache' = [cache EXCEPT ![p] = e] /\ cache \in [Paths -> Entry \cup {Nothing}]
  BY DEF Put, TypeOK
<1>2. e # Nothing => ~Expired(e)
  BY TTLAssumption DEF Expired
<1>3. \A q \in Paths : cache'[q] = IF q = p THEN e ELSE cache[q]
  BY <1>1
<1> QED
  BY <1>2, <1>3 DEF Held

\* Nothing is held of an empty cache.
LEMMA HeldClear == ClearLocked => Held' = [p \in Paths |-> Nothing]
BY DEF ClearLocked, Held

LEMMA InitRefines == Init => Promise!Init
BY DEF Init, Promise!Init, Closed, Promise!Closed, Expired

LEMMA GetRefines ==
    ASSUME TypeOK, NEW c \in Conns, HandleGet(c)
    PROVE  Promise!Serve(c)
<1> DEFINE p == conn[c].path
<1>1. /\ conn[c] \in Requests /\ conn[c].verb = "GET" /\ p \in Paths
      /\ conn[c].at = "read"
  BY HandledRequest, RequestParts DEF HandleGet, Handling
<1>2. CASE cache[p] # Nothing /\ ~Expired(cache[p])
  <2>1. cache[p] \in Entry /\ Held[p] = cache[p]
    BY <1>1, <1>2 DEF TypeOK, Held
  <2>2. PICK e : e = [cache[p] EXCEPT !.age = 0]
    OBVIOUS
  <2>3. e \in Entry /\ e.age = 0
    BY <2>1, <2>2 DEF Entry
  <2>4. Answer(c, cache[p].pass) /\ Put(p, e)
    BY <1>2, <2>2, Zenon DEF HandleGet
  <2>5. Held' = [Held EXCEPT ![p] = e]
    BY <1>1, <2>3, <2>4, HeldPut
  <2>6. Held' = [Held EXCEPT ![p].age = 0]
    BY <2>1, <2>2, <2>5, Zenon
  <2> QED
    BY <1>1, <1>2, <2>1, <2>4, <2>6, Zenon
    DEF Promise!Serve, Held, Answer, Promise!Answer, Answered, Promise!Answered
<1>3. CASE ~(cache[p] # Nothing /\ ~Expired(cache[p]))
  <2>1. Answer(c, "MISS") /\ Put(p, Nothing)
    BY <1>3 DEF HandleGet
  <2>2. Held[p] = Nothing
    BY <1>1, <1>3 DEF Held
  <2>3. Held' = [Held EXCEPT ![p] = Nothing]
    BY <1>1, <2>1, HeldPut
  <2>4. Held' = Held
    BY <2>2, <2>3 DEF Held
  <2> QED
    BY <1>1, <2>1, <2>2, <2>4, Zenon
    DEF Promise!Serve, Held, Answer, Promise!Answer, Answered, Promise!Answered
<1> QED
  BY <1>2, <1>3

\* Every other request is served as promised, at the moment it is handled.
LEMMA OthersRefine ==
    ASSUME TypeOK, NEW c \in Conns,
           \/ HandlePing(c) \/ HandleSet(c) \/ HandleForget(c)
           \/ HandleClear(c) \/ HandleShutdown(c)
    PROVE  Promise!Serve(c)
<1> USE DEF Answer, Promise!Answer, Answered, Promise!Answered
<1>1. conn[c].at = "read"
  BY DEF HandlePing, HandleSet, HandleForget, HandleClear, HandleShutdown, Handling
<1>2. CASE HandlePing(c)
  BY <1>1, <1>2, Zenon DEF HandlePing, Handling, Promise!Serve
<1>3. CASE HandleSet(c)
  <2> DEFINE p == conn[c].path
             e == [pass |-> conn[c].pass, age |-> 0]
  <2>1. conn[c] \in Requests /\ conn[c].verb = "SET"
    BY <1>3, HandledRequest DEF HandleSet
  <2>2. p \in Paths /\ e \in Entry /\ e.age = 0
    BY <2>1, RequestParts DEF Entry
  <2>3. Answer(c, "OK") /\ Put(p, e)
    BY <1>3 DEF HandleSet
  <2>4. Held' = [Held EXCEPT ![p] = e]
    BY <2>2, <2>3, HeldPut
  <2> QED
    BY <1>1, <2>1, <2>3, <2>4, Zenon DEF Promise!Serve, Held
<1>4. CASE HandleForget(c)
  <2> DEFINE p == conn[c].path
  <2>1. conn[c] \in Requests /\ conn[c].verb = "FORGET" /\ p \in Paths
    BY <1>4, HandledRequest, RequestParts DEF HandleForget
  <2>2. Answer(c, "OK") /\ Put(p, Nothing)
    BY <1>4 DEF HandleForget
  <2>3. Held' = [Held EXCEPT ![p] = Nothing]
    BY <2>1, <2>2, HeldPut
  <2> QED
    BY <1>1, <2>1, <2>2, <2>3, Zenon DEF Promise!Serve, Held
<1>5. CASE HandleClear(c)
  <2>1. Held' = [q \in Paths |-> Nothing]
    BY <1>5, HeldClear DEF HandleClear
  <2> QED
    BY <1>1, <1>5, <2>1, Zenon DEF HandleClear, Handling, Promise!Serve, Held
<1>6. CASE HandleShutdown(c)
  BY <1>1, <1>6, Zenon DEF HandleShutdown, Handling, Promise!Serve
<1> QED
  BY <1>2, <1>3, <1>4, <1>5, <1>6

\* At a tick an entry that is held either ages or is gone: also one the reaper
\* has not found yet.
LEMMA TickRefines == TypeOK /\ Tick => Promise!Age
<1> SUFFICES ASSUME TypeOK, Tick PROVE Promise!Age
  OBVIOUS
<1>1. UNCHANGED conn
  BY DEF Tick
<1>2. ASSUME NEW p \in Paths
      PROVE  Held'[p] = IF Held[p] = Nothing \/ Held[p].age + 1 >= TTL THEN Nothing
                        ELSE [Held[p] EXCEPT !.age = Held[p].age + 1]
  <2>1. CASE cache[p] = Nothing
    BY <2>1 DEF Tick, Held
  <2>2. CASE cache[p] # Nothing
    <3>1. cache[p] \in Entry /\ cache[p].age \in Nat
      BY <2>2 DEF TypeOK, Entry
    <3>2. PICK e : e = [cache[p] EXCEPT !.age = cache[p].age + 1]
      OBVIOUS
    <3>3. e \in Entry /\ e.age = cache[p].age + 1
      BY <3>1, <3>2 DEF Entry
    <3>4. cache'[p] = e
      BY <2>2, <3>2 DEF Tick
    <3>5. e # Nothing
      BY <3>3, NothingAssumption
    <3>6. Held'[p] = IF e.age >= TTL THEN Nothing ELSE e
      BY <3>4, <3>5 DEF Held, Expired
    <3>7. Held[p] = IF cache[p].age >= TTL THEN Nothing ELSE cache[p]
      BY <2>2 DEF Held, Expired
    <3>8. CASE cache[p].age >= TTL
      BY <3>1, <3>3, <3>6, <3>7, <3>8, TTLAssumption
    <3>9. CASE ~(cache[p].age >= TTL)
      BY <2>2, <3>2, <3>3, <3>6, <3>7, <3>9, Zenon
    <3> QED
      BY <3>8, <3>9
  <2> QED
    BY <2>1, <2>2
<1>3. Held' = [p \in Paths |-> Held'[p]]
  BY DEF Held
<1>4. Held' = [p \in Paths |->
         IF Held[p] = Nothing \/ Held[p].age + 1 >= TTL THEN Nothing
         ELSE [Held[p] EXCEPT !.age = Held[p].age + 1]]
  BY <1>2, <1>3, Zenon
<1> QED
  BY <1>1, <1>4, Zenon DEF Promise!Age, Held

\* Whatever the reaper evicts, nobody could get any more.
LEMMA ReapRefines == TypeOK /\ Reap => UNCHANGED Promise!vars
<1> SUFFICES ASSUME TypeOK, Reap PROVE UNCHANGED <<Held, conn>>
  BY DEF Promise!vars, Held
<1>1. \A p \in Paths : cache[p] # Nothing /\ Evictable(cache[p]) => Expired(cache[p])
  BY TTLAssumption DEF TypeOK, Entry, Evictable, Expired
<1> QED
  BY <1>1 DEF Reap, Held

LEMMA StepRefines == TypeOK /\ [Next]_vars => [Promise!Next]_Promise!vars
<1> SUFFICES ASSUME TypeOK, [Next]_vars PROVE [Promise!Next]_Promise!vars
  OBVIOUS
<1>1. CASE UNCHANGED <<cache, conn>>
  BY <1>1 DEF Promise!vars, Expired
<1>2. ASSUME NEW c \in Conns, Accept(c) \/ ServeConn(c)
      PROVE  Promise!Next
  <2>1. CASE Accept(c)
    <3>1. Promise!Request(c)
      BY <2>1 DEF Accept, Promise!Request, Promise!Closed, Closed, Promise!Requests,
         Requests, Expired
    <3> QED
      BY <3>1 DEF Promise!Next
  <2>2. CASE WriteAnswer(c)
    <3>1. Promise!Reply(c)
      BY <2>2 DEF WriteAnswer, Promise!Reply, Promise!Closed, Closed, Expired
    <3> QED
      BY <3>1 DEF Promise!Next
  <2>3. CASE ~Accept(c) /\ ~WriteAnswer(c)
    <3>1. Promise!Serve(c)
      BY <1>2, <2>3, GetRefines, OthersRefine DEF ServeConn
    <3> QED
      BY <3>1 DEF Promise!Next
  <2> QED
    BY <2>1, <2>2, <2>3
<1>3. CASE Tick
  BY <1>3, TickRefines DEF Promise!Next
<1>4. CASE Reap
  BY <1>4, ReapRefines
<1>5. ASSUME NEW s \in Stoppers, ShutdownStep(s)
      PROVE  [Promise!Next]_Promise!vars
  <2>1. CASE ClearCache(s)
    <3>1. Held' = [p \in Paths |-> Nothing] /\ UNCHANGED conn
      BY <2>1, HeldClear DEF ClearCache
    <3>2. Promise!Stop
      BY <3>1 DEF Promise!Stop, Held
    <3> QED
      BY <3>2 DEF Promise!Next
  <2>2. CASE ~ClearCache(s)
    <3>1. UNCHANGED <<cache, conn>>
      BY <1>5, <2>2 DEF ShutdownStep, CheckDone, CloseDone, CloseListener, RemoveSocket
    <3> QED
      BY <1>1, <3>1
  <2> QED
    BY <2>1, <2>2
<1>6. CASE Sigterm \/ RunReturns \/ UNCHANGED vars
  BY <1>1, <1>6 DEF Sigterm, RunReturns, vars
<1> QED
  BY <1>2, <1>3, <1>4, <1>5, <1>6 DEF Next

\* Seen from its clients the agent is a cache: no answer shows an entry whose time
\* is over, each request is served at one moment, and neither the reaper nor the
\* goroutines of Shutdown show but for the end of all entries (server.go,
\* handleConn, reaper and Shutdown).
THEOREM AgentIsACache == Spec => ImplementsAgentCache
<1>1. AInv => TypeOK
  BY DEF AInv
<1> QED
  BY InitRefines, StepRefines, Invariance, <1>1, PTL
  DEF Spec, ImplementsAgentCache, Promise!Spec

=============================================================================
