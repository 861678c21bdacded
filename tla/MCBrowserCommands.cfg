SPECIFICATION Spec
CONSTANTS
    p1 = p1  p2 = p2  Nobody = Nobody
    Procs = {p1, p2}
    Settings <- MCSettings
    Fields <- MCFields  Trees <- MCTrees  MaxAttempts = 2  MaxPolls = 2
\* commands are bounded: after the last one the processes are idle
CHECK_DEADLOCK FALSE
INVARIANTS OneInside StepsAreOwn WorkIsDone
PROPERTIES RecordingGrows SelectedTabUsed
