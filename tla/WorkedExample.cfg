CONSTANTS
    Method = "both"
    MaxSignals = 2
    MaxUpsets = 1
SPECIFICATION ExampleFairSpec
INVARIANTS
    AcceptedIsComplete
    ExampleIsComplete
    TrackedBeforeCreated
    CleanupComplete
    ApprovedReleaseRestored
    CutoverIsReal
PROPERTIES
    NeverReleaseToActive
    ExampleEnds
CHECK_DEADLOCK FALSE
