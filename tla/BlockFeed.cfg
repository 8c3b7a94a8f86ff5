SPECIFICATION FairSpec
CONSTANTS
    d1 = d1
    Domain <- OneDomain
    Second = 2
    MaxTime = 2
    MaxAdapters = 2
    MaxFlight = 1
INVARIANTS
    TypeOK
    FeedAccounted
    ActiveModeIsLatest
    SwitchesHandOver
PROPERTIES
    RealtimeReturns
    BlocksArrive
CHECK_DEADLOCK FALSE
