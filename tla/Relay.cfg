SPECIFICATION FairSpec
CONSTANTS
    NoSlot = NoSlot
    Slot = {aks01, aks02}
    InitialSlot = aks01
    Conn = {c1}
    MaxChunks = 2
INVARIANTS
    NothingLost
    NoSocketLeak
PROPERTIES
    QuietAfterClose
    CloseEnds
    ImplementsRouter
