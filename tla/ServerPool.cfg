SPECIFICATION FairPoolSpec
CONSTANTS
  Sessions = {s1, s2, s3}
  Servers = {1, 2, 3, 4}
  NoServer = NoServer
  MaxAcquires = 4
INVARIANTS
  PoolTypeOK
  OneServer
  HeldServerRuns
PROPERTIES
  AcquireEnds
  UnusedServerEnds
CHECK_DEADLOCK FALSE
