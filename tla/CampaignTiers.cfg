SPECIFICATION Spec
CONSTANTS
    Brands = {b1, b2}
    Purchases = {p1, p2}
    Workers = {w1, w2}
    Total = 2
    MaxFaults = 1
INVARIANTS
    TypeOK
    LeftIsExplained
    EveryCampaignHasTier
PROPERTIES
    NewBrandsAppear
CHECK_DEADLOCK FALSE
