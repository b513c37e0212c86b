CONSTANTS
  Owners = {p1, p2}
  NoOwner = NoOwner
  MaxEpoch = 3
  MaxTouches = 2
SPECIFICATION FairSpec
INVARIANTS TypeOK TokenCurrent
PROPERTIES LeaseSpec AbandonedLockRecovers
CHECK_DEADLOCK FALSE
