SPECIFICATION Spec
CONSTANTS
    NoValue = NoValue
    ip1 = ip1  ip2 = ip2  ns1 = ns1  reg1 = reg1  site = site  shop = shop
    IPs <- MCIPs
    Nameservers <- MCNames
    Registrars <- MCRegs
    Tlds <- MCSites
    OtherTlds <- MCShops
    Times <- MCTimes
    Horizon = 270
    MaxRecords = 4
    MaxUnknown = 4
SYMMETRY HostSymmetry
INVARIANTS
    GroupsByHost
    WindowTight
    ThreeSignals
    SparseNeedsHost
    MatchFindsBest
CHECK_DEADLOCK FALSE
