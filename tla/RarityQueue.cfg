CONSTANTS
    Collections = {c1}
    Nfts = {n1, n2}
    CollectionOf <- OneCollection
    Attributes = {red, blue}
    PerRun = 2
    MaxChanges = 3
    MaxFaults = 1
    MaxBusy = 2
SPECIFICATION ScheduledSpec
INVARIANTS
    TypeOK
    BehindIsExplained
    GhostsAreExplained
PROPERTIES
    CatchesUp
CHECK_DEADLOCK FALSE
