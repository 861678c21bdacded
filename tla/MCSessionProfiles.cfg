SPECIFICATION Spec
CONSTANTS
    p1 = p1  p2 = p2
    Procs = {p1, p2}
    Partial = partial
    None = none
    Settings <- MCSettings
\* sessions are bounded: after the last one the processes are idle
CHECK_DEADLOCK FALSE
INVARIANTS SavedStateIntact StartsFromLastSave RestoresOneState OneProfile
