\* A benchmark over five mids around both thresholds; three tokens in every
\* mutual dependence at two sizes; two processes in one snapshot directory.
SPECIFICATION MeasurementSpec
CONSTANTS
    Mids = {49999, 50500, 50999, 52000, 56000}
    Moments = {0, 1, 3, 4}
    StaleGap = 2
    a = a
    b = b
    c = c
    Fiat = {a, b, c}
    Dest = dest
    Bridge = bridge
    Size = 2
    MaxDepth = 3
    MaxLost = 1
    Corridors <- MCCorridors
    Markets <- MCMarkets
    Processes = {daemon, sweep}
    None = None
    Calls <- MCCalls
    Bodies <- MCBodies
    MaxAnswers = 2
    MaxArtifacts = 1
    MaxFaults = 1
SYMMETRY Interchangeable
INVARIANTS
    FiguresStayTogether
    OrderIsImmaterial
    NeverFlatters
    ReplayKeepsTheBand
    CallsAreBounded
    ChainIsOneMeasurement
    ReplayIsTheRun
    EvidenceIsKept
    OnlyCRLFIsRefused
\* A ladder ends with its summary, a benchmark with its replay, and the
\* processes at the bound on artifacts.
CHECK_DEADLOCK FALSE
