SPECIFICATION FairSpec
CONSTANTS
    p1 = p1  p2 = p2  i1 = i1  i2 = i2  i3 = i3  Nobody = Nobody
    Procs = {p1, p2}
    Ids = {i1, i2, i3}
    Ports = 3  Limit = 2
    Settings <- MCSettings
\* commands are bounded: after the last one the processes are idle
CHECK_DEADLOCK FALSE
INVARIANTS NoBrowserLost OwnBrowser
PROPERTIES OnlyOwnCommandsTerminate CommandsEnd
