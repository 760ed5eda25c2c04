\* Every check and metric in every case, and the drift chain.
SPECIFICATION Spec
CONSTANTS
    None = None
    a = a
    b = b
    Requests <- MCRequests
    Setting <- MCSetting
    Scenarios <- MCScenarios
\* The scheduled measurement stops at its bound on records.
CHECK_DEADLOCK FALSE
INVARIANTS
    SilenceIsNoEvidence
    DisplayIsFaithful
    ValuesAreMeasured
    DriftIsReal
    FreshRunnerIsCurrent
    DeadlineBlamesOneAddress
