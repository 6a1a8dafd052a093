CONSTANTS
    MaxInterrupts = 2
    MaxFaults = 3
    MaxSignals = 2
    MaxReleases = 3
SPECIFICATION SlotSpec
INVARIANTS
    IntroducedIsSettled
    BothCleanups
    TunnelReaped
    FaultlessPasses
PROPERTIES
    AnswersAreCurrent
    RejectionIsReal
CHECK_DEADLOCK FALSE
