CONSTANTS
  NoOne = NoOne
  Requests = {r1, r2, r3}
  Workers = {w1, w2}
  RequireLimiter = FALSE
  Disturbances = {}
SPECIFICATION Spec
SYMMETRY Symmetry
INVARIANTS TypeOK DeliveredOnce DeliveryKept
CHECK_DEADLOCK FALSE
