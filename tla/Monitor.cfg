SPECIFICATION Spec
CONSTANTS
    N = 2
    Plain = {"UNKNOWN", "DIRECT"}
    DepSets = {d1, d2}
    NoDeps = none
    MaxSweeps = 3
    MaxFaults = 2
INVARIANTS
    AlarmIsReal
    ChangeIsReportedOnce
    ChangeIsNotSilent
    RecordsHaveEvidence
SYMMETRY DepSymmetry
CHECK_DEADLOCK FALSE
