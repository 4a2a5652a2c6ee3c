--------------------------- MODULE AgentProtocol ---------------------------
(***************************************************************************)
(* The requests a client can send to the passphrase agent, and the answers *)
(* it can get (agent/server.go, handleConn; agent/client.go).  A line that *)
(* is not one of these requests changes nothing and is left out.           *)
(***************************************************************************)
EXTENDS Naturals

CONSTANTS
    Conns,      \* connections
    Paths,      \* secret paths, the global "" among them
    Passes,     \* passphrases
    Nothing,    \* no entry, no argument, no answer yet
    TTL         \* how long an unused entry lives

ASSUME TTLAssumption == TTL \in Nat \ {0}

Entry == [pass : Passes, age : Nat]

ASSUME NothingAssumption == Nothing \notin Passes \cup Paths \cup Entry

\* A connection waits for its request to be served, then for its answer to be
\* sent; "closed" connections are free.
Closed == [at |-> "closed", verb |-> "NONE", path |-> Nothing,
           pass |-> Nothing, answer |-> Nothing]

Requests ==
         [at : {"read"}, verb : {"GET", "FORGET"}, path : Paths,
          pass : {Nothing}, answer : {Nothing}]
    \cup [at : {"read"}, verb : {"SET"}, path : Paths,
          pass : Passes, answer : {Nothing}]
    \cup [at : {"read"}, verb : {"PING", "CLEAR", "SHUTDOWN"}, path : {Nothing},
          pass : {Nothing}, answer : {Nothing}]

\* Served requests with the answers each kind can get.
Replies ==
         [at : {"reply"}, verb : {"GET"}, path : Paths,
          pass : {Nothing}, answer : Passes \cup {"MISS"}]
    \cup [at : {"reply"}, verb : {"SET"}, path : Paths,
          pass : Passes, answer : {"OK"}]
    \cup [at : {"reply"}, verb : {"FORGET"}, path : Paths,
          pass : {Nothing}, answer : {"OK"}]
    \cup [at : {"reply"}, verb : {"PING"}, path : {Nothing},
          pass : {Nothing}, answer : {"PONG"}]
    \cup [at : {"reply"}, verb : {"CLEAR"}, path : {Nothing},
          pass : {Nothing}, answer : {"OK"}]
    \cup [at : {"reply"}, verb : {"SHUTDOWN"}, path : {Nothing},
          pass : {Nothing}, answer : {"BYE"}]

\* A request that has got its answer.
Answered(r, a) == [at |-> "reply", verb |-> r.verb, path |-> r.path,
                   pass |-> r.pass, answer |-> a]

=============================================================================
