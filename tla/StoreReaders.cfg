\* Rotations of two chains, and a client of one, over enough kills that a power
\* loss can take more than one record the client was served.
SPECIFICATION ReadSpec
CONSTANTS
    Corridors = {1, 2}
    Body = {b1}
    Forged = forged
    Torn = torn
    Nil = nil
    MaxSeq = 3
    FaultKinds = {"refuse", "write", "sync", "kill", "loss", "edit"}
    MaxFaults = 4
    Alone = 3
    Beside = 1
    Quiet = 2
    Ceilings = {0, 1, 2}
    Limit = 1
INVARIANTS
    PagesAreGapless
    VerifiedWindowIsWritten
    OnlyOldestIsDropped
    WindowEndsOnNewest
CONSTRAINT
    Bounds
CHECK_DEADLOCK FALSE
