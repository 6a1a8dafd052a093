CONSTANTS
    File = {f1, f2, f3}
    None = None
    MaxChanges = 3
SPECIFICATION ReadinessSpec
INVARIANTS
    NoDescriptorLeak
PROPERTIES
    ReadyIsCurrent
    NoFalseAlarm
