SPECIFICATION FairSpec
CONSTANTS
    c1 = c1  c2 = c2
    Client <- OneClient
    Cap = 1
    MaxNotified = 3
    MaxBreaks = 1
    MaxConnects = 2
PROPERTIES
    HubNeverBlocks
    GoneUnregistered
    BufferedArrives
CHECK_DEADLOCK FALSE
