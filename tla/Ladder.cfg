SPECIFICATION FairSpec
CONSTANTS
    Mids = {100, 120}
    Moments = {0}
    StaleGap = 2
    Size = 3
    Concurrency = 2
    Achieved = {98}
    Hops = {h1}
    MaxExpiries = 1
INVARIANTS
    EvidenceSurvives
    VerdictNeedsBenchmark
PROPERTY LadderReturns
CHECK_DEADLOCK FALSE
