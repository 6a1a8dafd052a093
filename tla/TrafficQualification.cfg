CONSTANTS
    Run = {r1, r2}
    Samples = 2
    MaxUpdates = 2
    MaxTurns = 1
SPECIFICATION Spec
INVARIANTS
    ReportIsOwn
PROPERTIES
    OneConfiguration
    EvidenceImmutable
CHECK_DEADLOCK FALSE
