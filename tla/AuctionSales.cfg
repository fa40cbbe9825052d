CONSTANTS
  Auctions = {a1, a2, a3}
  Sft = {a2, a3}
  ByIdentifier = {a3}
  Tagged = {a1}
  Bidders = {b1, b2}
  Nobody = Nobody
  Workers = {w1}
  Supply = 2
  MaxAmount = 3
  Kinds = {"start", "bid", "buy", "withdraw"}
  CronRuns = FALSE
  MaxEvents = 5
  BlockSize = 3
  MaxOrders = 5
  MaxFaults = 0
  MaxReverts = 2
SPECIFICATION SalesSpec
SYMMETRY Symmetry
INVARIANTS
  BestBidLeads
  OrdersAreCanonical
  TokensAddUp
  SalesFollowChain
PROPERTIES
  OrderFactsImmutable
