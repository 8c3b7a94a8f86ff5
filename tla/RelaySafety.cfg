SPECIFICATION Spec
CONSTANTS
    c1 = c1  c2 = c2
    Client <- TwoClients
    Cap = 1
    MaxNotified = 2
    MaxBreaks = 1
    MaxConnects = 3
SYMMETRY ClientSymmetry
INVARIANTS
    TypeOK
    NoSendOnClosed
    Accounted
CHECK_DEADLOCK FALSE
