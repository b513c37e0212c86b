CONSTANTS
  Senders = {s1, s2, s3}
  MaxPerWindow = 3
  Window = 4
  MaxParallel = 2
  MinDelay = 0
  ReservationTTL = 3
  SendTime = 1
  Disturbances = {"dies"}
SPECIFICATION FairSpec
INVARIANTS TypeOK WindowKept
PROPERTIES SlotsReturn
CHECK_DEADLOCK FALSE
