SPECIFICATION FairSpec
CONSTANTS
    Callers = {p1, p2, p3}
    Nil = nil
    TTL = 2
    MaxCalls = 3
    MaxTime = 2
    MaxInvalidations = 2
INVARIANTS
    MissesCollapse
    InvalidateIsEffective
    ServedIsFresh
PROPERTY EveryCallReturns
CHECK_DEADLOCK FALSE
