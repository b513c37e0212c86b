CONSTANTS
  Senders = {s1, s2, s3}
  MaxPerWindow = 9
  Window = 9
  MaxParallel = 2
  MinDelay = 0
  ReservationTTL = 3
  SendTime = 2
  Disturbances = {}
SPECIFICATION Spec
INVARIANTS ParallelKept
CHECK_DEADLOCK FALSE
