SPECIFICATION FairSpec
CONSTANTS
    Agents = {a1, a2}
    Readers = {r}
    Stoppers = {}
    None = None
    Stale = Stale
    Flushed = Flushed
PROPERTIES
    ServiceRecovers
