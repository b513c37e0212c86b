CONSTANTS
  s1 = s1
  s2 = s2
  Items = {1, 2}
  Sessions = {s1, s2}
  MaxRunning = 1
  MaxWaiting = 1
  MaxActive = 2
  MaxAttempts = 1
  Tries <- TwoTries
  Answers = {"code","ready","invalid"}
  MaxDeaths = 0
  MaxAsked = 0
  Disturbances = {}
SPECIFICATION Spec
SYMMETRY Symmetry
INVARIANT CountersShared
CHECK_DEADLOCK FALSE
