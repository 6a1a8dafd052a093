CONSTANTS
    Method = "direct"
    MaxSignals = 0
    MaxUpsets = 0
SPECIFICATION Spec
INVARIANTS
    FailureNamed
