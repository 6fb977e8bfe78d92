\* Every fault, and only those a worker recovers from; a hot-reloadable, a mieru
\* and a refused configuration; fair scheduling.
CONSTANTS
  c1 = c1
  c2 = c2
  bad = bad
  u1 = u1
  u2 = u2
  i1 = i1
  i2 = i2
  i3 = i3
  Configs = {c1, c2, bad}
  UserLists = {u1, u2}
  Reloadable = {c1}
  Rejected = {bad}
  Ids = {i1, i2, i3}
  None = None
  FaultSets <- AllOrRecoverable
  MaxEdits = 3
SPECIFICATION FairSpec
INVARIANTS
  TypeOK
  AppliedIsClean
  NoInstanceLeak
  BootedHasConfig
PROPERTIES
  ServiceKept
  StopsCleanly
  ConvergesThroughFaults
CHECK_DEADLOCK FALSE
