SPECIFICATION FairSpec
CONSTANTS
    Writes = {w1, w2}
    Readers = {r1}
    Keys = {"assetAuctionsCount", "auction_available_tokens"}
    MaxFaults = 1
INVARIANTS
    StaleIsExplained
PROPERTIES
    CachesSettle
CHECK_DEADLOCK FALSE
