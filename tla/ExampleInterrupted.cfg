CONSTANTS
    Method = "direct"
    MaxSignals = 1
    MaxUpsets = 0
SPECIFICATION ExampleSpec
INVARIANTS
    InterruptedRunRemovesTest
CHECK_DEADLOCK FALSE
