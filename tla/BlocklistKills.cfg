SPECIFICATION FairSpec
CONSTANTS
    NoValue = NoValue
    d1 = d1  d2 = d2  old = old  new = new  t1 = t1  t2 = t2
    Domain <- MCDomain
    Details <- MCDetails
    Task <- MCTask
    Hash <- MCHash
    IdRange = 4
    MaxCalls = 3
    MaxStarts = 1
INVARIANTS
    TypeOK
    CallsTakeEffect
    MapTellsRules
PROPERTIES
    RefinesList
    EventsEnforced
CHECK_DEADLOCK FALSE
