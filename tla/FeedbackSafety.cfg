SPECIFICATION Spec
CONSTANTS
    NoValue = NoValue
    near1 = near1  near2 = near2  far = far
    w1 = w1  w2 = w2
    ip1 = ip1  ip2 = ip2  ns1 = ns1  reg1 = reg1  site = site
    Domain <- MCDomain
    Seeded <- MCSeeded
    Scored <- MCSeeded
    Actual <- MCActual
    FileOf <- SharedFiles
    Worker <- TwoWorkers
    LookupFailures <- SomeFailures
    MaxAnalyses = 2
    Faulty = TRUE
    Horizon = 10000
SYMMETRY WorkerSymmetry
INVARIANTS
    TypeOK
    ColdStart
    MembersOnHost
    BlockedHasDetection
    VerdictsGiven
PROPERTIES
    RefinesLedger
CHECK_DEADLOCK FALSE
