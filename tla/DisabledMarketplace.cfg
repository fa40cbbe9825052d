CONSTANTS
  m1 = m1
  m2 = m2
  k1 = k1
  k2 = k2
  k3 = k3
  Addresses = {m1, m2}
  Keys = {k1, k2, k3}
  Address <- TwoRowsAndOne
  External = {m2}
  Workers = {w1}
  Callers = {c1, c2}
  None = None
  MaxBlocks = 2
  MaxCalls = 2
  MaxFaults = 1
SPECIFICATION MCSpec
SYMMETRY Alike
INVARIANTS
  EventsAccountedFor
  OldestIsReplayed
  CacheCatchesUp
