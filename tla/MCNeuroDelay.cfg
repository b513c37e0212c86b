CONSTANTS
  Senders = {s1, s2}
  MaxPerWindow = 3
  Window = 7
  MaxParallel = 2
  MinDelay = 4
  ReservationTTL = 5
  SendTime = 2
  Disturbances = {"dies"}
SPECIFICATION Spec
SYMMETRY Symmetry
PROPERTIES DelayKept
CHECK_DEADLOCK FALSE
