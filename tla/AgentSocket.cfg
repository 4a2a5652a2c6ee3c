SPECIFICATION Spec
CONSTANTS
    Agents = {a1, a2}
    Readers = {r}
    Stoppers = {s}
    None = None
    Stale = Stale
    Flushed = Flushed
INVARIANTS
    TypeOK
    StopIsFinal
PROPERTIES
    LaterAgentsYield
