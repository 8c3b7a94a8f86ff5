SPECIFICATION FairSpec
CONSTANTS
    c1 = c1  c2 = c2
    Client <- OneClient
    Cap = 1
    MaxNotified = 1
    MaxBreaks = 1
    MaxConnects = 1
PROPERTIES
    PushesEveryBlock
CHECK_DEADLOCK FALSE
