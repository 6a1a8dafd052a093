CONSTANTS
    MaxInterrupts = 0
    MaxFaults = 1
    MaxSignals = 0
    MaxReleases = 1
SPECIFICATION SlotSpec
PROPERTIES
    DeadListenerNotMistaken
CHECK_DEADLOCK FALSE
