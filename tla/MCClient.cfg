CONSTANTS
    Clients = {c1, c2}
    Shared = shared
    Scenarios <- Programs
    MaxRuns = 2
    MaxActs = 2
SPECIFICATION FairSpec
INVARIANTS
    BrowserNeedsOpenRun
    ActsAccountedFor
PROPERTIES
    RunsClose
    ImplementsLedger
\* runs and acts are bounded: the program may stop
CHECK_DEADLOCK FALSE
