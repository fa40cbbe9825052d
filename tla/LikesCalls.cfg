CONSTANTS
  Users = {u1, u2}
  Clients = {c1, c2}
  None = None
  MaxCalls = 4
  MaxExpiries = 1
  MaxFailures = 2
  MaxCacheFailures = 1
  MaxCrashes = 1
SPECIFICATION ScheduledSpec
SYMMETRY Alike
INVARIANTS
  ExactWhenApart
  FreshWhenApart
  LikesAreCounted
  AnswersHold
