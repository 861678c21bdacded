SPECIFICATION Spec
CONSTANTS
    p1 = p1  p2 = p2
    w1 = w1  w2 = w2  w3 = w3
    Procs = {p1, p2}
    Workflows = {w1, w2, w3}
    Files = {f1, f2}
    Policies = 2
    Custom = custom
    Given = given
    None = none
    Sanitized <- MCSanitized
    Settings <- MCSettings
\* commands are bounded: after the last one the processes are idle
CHECK_DEADLOCK FALSE
INVARIANTS RolesReady OwnImage RecordIsCurrent
