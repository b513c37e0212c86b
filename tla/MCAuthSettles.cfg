CONSTANTS
  s1 = s1
  s2 = s2
  Items = {1, 2}
  Sessions = {s1}
  MaxRunning = 2
  MaxWaiting = 2
  MaxActive = 2
  MaxAttempts = 2
  Tries <- TwoTries
  Answers = {"password","ready"}
  MaxDeaths = 1
  MaxAsked = 1
  Disturbances = {"queue_down"}
SPECIFICATION FairSpec
INVARIANT AttemptsBounded
PROPERTIES KeepsLedger BatchSettles
CHECK_DEADLOCK FALSE
