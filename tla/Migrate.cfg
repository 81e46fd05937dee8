CONSTANTS
  p1 = p1
  p2 = p2
  p3 = p3
  Procs = {p1, p2, p3}
  Version <- Rolling
  None = None
SPECIFICATION FairSpec
INVARIANTS
  TypeOK
  RecordedIsApplied
  PooledHoldsNoLock
  OneMigrator
PROPERTIES
  UpgradeSpec
  LockIsReleased
