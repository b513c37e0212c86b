CONSTANTS
  s1 = s1
  s2 = s2
  Items = {1, 2}
  Sessions = {s1}
  MaxRunning = 1
  MaxWaiting = 1
  MaxActive = 2
  MaxAttempts = 2
  Tries <- TwoTries
  Answers = {"code","ready","invalid"}
  MaxDeaths = 0
  MaxAsked = 1
  Disturbances = {}
SPECIFICATION Spec
INVARIANT FinishedStaysOver
CHECK_DEADLOCK FALSE
