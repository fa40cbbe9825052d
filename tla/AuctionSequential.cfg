CONSTANTS
  Auctions = {a1}
  Sft = {}
  ByIdentifier = {}
  Tagged = {}
  Bidders = {b1, b2}
  Nobody = Nobody
  Workers = {w1}
  Supply = 1
  MaxAmount = 3
  Kinds = {"start", "bid", "withdraw", "end"}
  CronRuns = FALSE
  MaxEvents = 5
  BlockSize = 2
  MaxOrders = 5
  MaxFaults = 0
  MaxReverts = 0
SPECIFICATION MCSpec
SYMMETRY Symmetry
INVARIANTS
  TypeOK
  OneActiveOrder
  WinnerIsHighestBid
  StatusFollowsChain
PROPERTIES
  BooksBids
