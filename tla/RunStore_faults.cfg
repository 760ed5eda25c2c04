SPECIFICATION Spec
CONSTANTS
    Corridors = {1}
    Body = {b1, b2}
    Forged = forged
    Torn = torn
    Nil = nil
    MaxSeq = 4
    FaultKinds = {"refuse", "write", "sync", "kill", "loss", "edit"}
    MaxFaults = 3
INVARIANTS
    TypeOK
    VerifiedHistoryIsWritten
    AckedIsDurable
    AckedSeqUnique
    TipMatchesFile
PROPERTY StoreIsLog
CHECK_DEADLOCK FALSE
