SPECIFICATION FairSpec
CONSTANTS
  c1 = c1
  c2 = c2
  Calls <- MCCalls
  Sizes = {0, 3}
  Speeds = {0, 1, 3}
  Mega = 8
  Part = 2
  MaxSwaps = 1
  MaxTicks = 5
INVARIANTS
  TypeOK
  NothingUnshaped
  SpeedLimitHolds
PROPERTIES
  WaitReturns
CHECK_DEADLOCK FALSE
