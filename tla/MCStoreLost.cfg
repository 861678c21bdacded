SPECIFICATION Spec
CONSTANTS
    p1 = p1  p2 = p2  n1 = n1  n2 = n2  n3 = n3
    Procs = {p1, p2}
    Names = {n1, n2, n3}
    Sanitized <- MCSanitized
    Settings <- Faultless
\* commands are bounded: after the last one the processes are idle
CHECK_DEADLOCK FALSE
INVARIANT NoUpdateLostAtOnce
