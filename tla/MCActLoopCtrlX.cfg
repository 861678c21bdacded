CONSTANTS
    MaxSteps = 1
    MaxActs = 2
    Tty = TRUE
    Programs <- MCPrograms
SPECIFICATION Spec
INVARIANT ListensForCtrlX
CHECK_DEADLOCK FALSE
