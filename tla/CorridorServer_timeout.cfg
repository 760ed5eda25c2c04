\* One request, its budget and a stored run.
SPECIFICATION Spec
CONSTANTS
    Requests = {r1}
    Clients = {c1}
    Burst = 1
    Unit = 3
    Rate = 2
    Second = 1
    EvictThreshold = 2
    IdleEviction = 3
    MaxLag = 1
    MaxTime = 2
    Asking = {r1}
    MaxRuns = 1
INVARIANT
    TimeoutMeansNothingStored
CHECK_DEADLOCK FALSE
