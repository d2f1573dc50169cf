SPECIFICATION FairRunsSpec
CONSTANTS
    Kinds = {"capacity", "grounding", "ablation", "validation", "abstention", "presentation", "sweep"}
    TargetRuns = 1
    SafetyRuns = 1
    MaxFaults = 1
    MaxPrompt = 1
    MaxStale = 1
INVARIANTS
    WinnerIsSafe
PROPERTIES
    RecordsAreKept
CHECK_DEADLOCK FALSE
