SPECIFICATION FairSpec
CONSTANTS
    Conn = {c1, c2, c3}
    Delay = 3
    ForceAfter = 10
    KeepAlive = 5
    Propagation = 3
    Grace = 30
    MaxSignals = 2
INVARIANTS
    GoneWithinGrace
    RoutedClientsServed
PROPERTIES
    UnreadyFirst
    RequestsGetTheirTime
    StopEnds
CHECK_DEADLOCK FALSE
