SPECIFICATION Tasks
CONSTANTS
    Features <- MCFeatures
    Filters <- MCFilters
    Pages <- MCPages
    Statuses <- MCStatuses
    Reasons <- MCReasons
    Histories <- MCHistories
    Patterns <- MCPatterns
    Limits = {0, 1}
    MaxEntries = 2
INVARIANTS
    FaultsReportedAlike
    PlanKeepsSteps
    RedirectsLead
    KeyExactlyInKeyMode
    LogIsTrue
\* Each behaviour applies one algorithm once.
CHECK_DEADLOCK FALSE
