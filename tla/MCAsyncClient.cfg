SPECIFICATION FairSpec
CONSTANTS
    Clients = {c1, c2}
    Root = root
    Settings <- MCSettings
    MaxActs = 2
    MaxSteps = 1
\* tasks end
CHECK_DEADLOCK FALSE
INVARIANTS
    NothingLeft
    ActsAccountedFor
    HandlersRestored
PROPERTIES
    TasksEnd
