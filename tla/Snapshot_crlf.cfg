\* One measurement, of an anchor whose file has CRLF line endings.
SPECIFICATION Spec
CONSTANTS
    Processes = {daemon}
    None = None
    Calls <- MCCalls
    Bodies <- MCBodies
    MaxAnswers = 1
    MaxArtifacts = 1
    MaxFaults = 0
\* The processes stop at the bound on artifacts.
CHECK_DEADLOCK FALSE
INVARIANT
    CapturesLoad
