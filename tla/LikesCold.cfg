CONSTANTS
  Users = {u1, u2}
  Clients = {c1}
  None = None
  MaxCalls = 3
  MaxExpiries = 1
  MaxFailures = 0
  MaxCacheFailures = 0
  MaxCrashes = 0
SPECIFICATION RestSpec
SYMMETRY Alike
INVARIANTS
  CountIsExact
