CONSTANTS
  Auctions = {a1}
  Sft = {}
  ByIdentifier = {}
  Tagged = {}
  Bidders = {b1}
  Nobody = Nobody
  Workers = {w1}
  Supply = 1
  MaxAmount = 2
  Kinds = {"start", "bid", "withdraw", "end", "close", "price"}
  CronRuns = TRUE
  MaxEvents = 3
  BlockSize = 2
  MaxOrders = 4
  MaxFaults = 1
  MaxReverts = 0
SPECIFICATION MCFairSpec
INVARIANTS
  OverIsNotRunning
  BidsRecorded
  OneActiveOrder
PROPERTIES
  ExpiredLeaveRunning
