SPECIFICATION Spec
CONSTANTS
    Conns = {c1, c2}
    Paths = {p1}
    Passes = {w1}
    Nothing = Nothing
    TTL = 3
    Period = 2
    Signal = Signal
INVARIANTS
    SecondShutdownIsHarmless
CHECK_DEADLOCK FALSE
