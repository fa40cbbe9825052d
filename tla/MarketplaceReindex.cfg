SPECIFICATION Spec
CONSTANTS
    Auctions = {a1}
    MaxTime = 3
    Stored = 3
    Added = 1
    Telling = 2
    BatchSize = 2
    Befores <- MCBefores
INVARIANTS
    TypeOK
    NothingSkipped
    KeptTogether
    InOrder
PROPERTIES
    Terminates
CHECK_DEADLOCK FALSE
