----------------------------- MODULE AgentCache -----------------------------
(***************************************************************************)
(* What the passphrase agent promises its clients: each request is served  *)
(* at one moment; a passphrase is there for TTL units of time after it was *)
(* set or last got, and is gone at the end of that time; a stop forgets    *)
(* everything.  How the agent gets rid of old entries does not show.       *)
(***************************************************************************)
EXTENDS AgentProtocol

VARIABLES
    held,  \* the passphrases that are there, with the time since their last use
    conn   \* the request and the answer of each connection

vars == <<held, conn>>

Init ==
    /\ held = [p \in Paths |-> Nothing]
    /\ conn = [c \in Conns |-> Closed]

Request(c) ==
    /\ conn[c] = Closed
    /\ \E r \in Requests : conn' = [conn EXCEPT ![c] = r]
    /\ UNCHANGED held

Answer(c, a) == conn' = [conn EXCEPT ![c] = Answered(conn[c], a)]

Serve(c) ==
    /\ conn[c].at = "read"
    /\ LET p == conn[c].path
       IN \/ /\ conn[c].verb = "GET" /\ held[p] # Nothing
             /\ held' = [held EXCEPT ![p].age = 0]
             /\ Answer(c, held[p].pass)
          \/ /\ conn[c].verb = "GET" /\ held[p] = Nothing
             /\ Answer(c, "MISS") /\ UNCHANGED held
          \/ /\ conn[c].verb = "SET"
             /\ held' = [held EXCEPT ![p] = [pass |-> conn[c].pass, age |-> 0]]
             /\ Answer(c, "OK")
          \/ /\ conn[c].verb = "FORGET"
             /\ held' = [held EXCEPT ![p] = Nothing]
             /\ Answer(c, "OK")
          \/ /\ conn[c].verb = "CLEAR"
             /\ held' = [q \in Paths |-> Nothing]
             /\ Answer(c, "OK")
          \/ /\ conn[c].verb = "PING"
             /\ Answer(c, "PONG") /\ UNCHANGED held
          \/ /\ conn[c].verb = "SHUTDOWN"
             /\ Answer(c, "BYE") /\ UNCHANGED held

Reply(c) ==
    /\ conn[c].at = "reply"
    /\ conn' = [conn EXCEPT ![c] = Closed]
    /\ UNCHANGED held

\* One unit of time.
Age ==
    /\ held' = [p \in Paths |->
         IF held[p] = Nothing \/ held[p].age + 1 >= TTL THEN Nothing
         ELSE [held[p] EXCEPT !.age = @ + 1]]
    /\ UNCHANGED conn

Stop ==
    /\ held' = [p \in Paths |-> Nothing]
    /\ UNCHANGED conn

Next ==
    \/ \E c \in Conns : Request(c) \/ Serve(c) \/ Reply(c)
    \/ Age \/ Stop

Spec == Init /\ [][Next]_vars

=============================================================================
