CONSTANTS
  o1 = o1
  o2 = o2
  n1 = n1
  n2 = n2
  Offers = {o1, o2}
  Items = {n1, n2}
  Item <- OneOfEach
  Announced = {n1}
  Auctioned = {n1}
  Workers = {w1}
  CronRuns = TRUE
  MaxEvents = 3
  BlockSize = 2
  MaxFaults = 1
SPECIFICATION MCFairSpec
INVARIANTS
  StatusIsExplained
  OffersAreAnnounced
PROPERTIES
  OfferNeverReopens
  ExpiredLeaveActive
