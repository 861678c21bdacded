CONSTANTS
    MaxSteps = 2
    MaxActs = 2
    Tty = TRUE
    Programs <- MCPrograms
SPECIFICATION FairSpec
INVARIANTS
    HeldStartsAtMostOnce
    NoStaleCancel
    UnlockedOnlyBehindRedirect
    CompletesOnce
PROPERTIES
    ImplementsContract
    CancelEndsAct
    ActEnds
\* the acts are bounded: after the last one the client is idle
CHECK_DEADLOCK FALSE
