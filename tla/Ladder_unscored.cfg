SPECIFICATION Spec
CONSTANTS
    Mids = {100, 120}
    Moments = {0}
    StaleGap = 2
    Size = 2
    Concurrency = 1
    Achieved = {98}
    Hops = {}
    MaxExpiries = 1
INVARIANT UnscoredHasNoVerdicts
CHECK_DEADLOCK FALSE
