CONSTANTS
    Clients = {c1}
    Shared = shared
    Scenarios <- Faultless
    MaxRuns = 2
    MaxActs = 1
SPECIFICATION Spec
INVARIANT StopAllowsRestart
\* runs and acts are bounded: the program may stop
CHECK_DEADLOCK FALSE
