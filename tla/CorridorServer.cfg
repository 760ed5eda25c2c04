SPECIFICATION Spec
CONSTANTS
    Requests = {r1, r2, r3}
    Clients = {c1, c2}
    Burst = 1
    Unit = 3
    Rate = 2
    Second = 1
    EvictThreshold = 2
    IdleEviction = 3
    MaxLag = 1
    MaxTime = 4
    Asking = {r1}
    MaxRuns = 2
SYMMETRY Interchangeable
INVARIANTS
    AdmissionsAreEarned
    RetryAfterIsEnough
    AnswersAreTrue
    ErrorsHaveCause
CHECK_DEADLOCK FALSE
