SPECIFICATION Spec
CONSTANTS
    Auctions = {a1}
    MaxTime = 3
    Stored = 3
    Added = 0
    Telling = 3
    BatchSize = 2
    Befores <- MCBefores
INVARIANT OneRowPerAuction
CHECK_DEADLOCK FALSE
