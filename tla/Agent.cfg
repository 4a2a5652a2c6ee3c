\* Two connections that race over one path, with two passphrases.  A tick of
\* the reaper falls before, at and after the end of an entry's time.
SPECIFICATION FairSpec
CONSTANTS
    Conns = {c1, c2}
    Paths = {p1}
    Passes = {w1, w2}
    Nothing = Nothing
    TTL = 3
    Period = 2
    Signal = Signal
INVARIANTS
    TypeOK
    EvictionBound
PROPERTIES
    ImplementsAgentCache
    EveryRequestAnswered
    ShutdownCompletes
\* An agent that has exited takes no step.
CHECK_DEADLOCK FALSE
