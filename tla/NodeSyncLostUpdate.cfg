\* A request for the users fails after one that brought a configuration.
CONSTANTS
  c1 = c1
  c2 = c2
  bad = bad
  u1 = u1
  u2 = u2
  i1 = i1
  i2 = i2
  i3 = i3
  Configs = {c1, c2}
  UserLists = {u1, u2}
  Reloadable = {c1, c2}
  Rejected = {}
  Ids = {i1, i2, i3}
  None = None
  FaultSets <- UsersOnly
  MaxEdits = 1
SPECIFICATION FairSpec
PROPERTY Converges
CHECK_DEADLOCK FALSE
