CONSTANTS
    Run = {r1, r2}
    NoApp = NoApp
    MaxWrites = 4
SPECIFICATION Spec
INVARIANTS WorkloadsSurvive
PROPERTIES RetireIsReviewed CredentialKept TakeoverOnlyUnseen
SYMMETRY Symmetry
CHECK_DEADLOCK FALSE
