\* Two nodes, two users.
CONSTANTS
  u1 = u1
  u2 = u2
  n1 = n1
  n2 = n2
  s1 = s1
  s2 = s2
  c1 = c1
  c2 = c2
  NoSource = NoSource
  Nodes = {n1, n2}
  Users = {u1, u2}
  Sources = {s1, s2}
  Conns = {c1, c2}
  Lists <- StableLists
  SecretNodes = {n2}
  TTL = 2
SPECIFICATION Spec
SYMMETRY SourceSymmetry
INVARIANTS
  TypeOK
  ServedKnown
  RecentSourcesLive
  DevicesWithinLimit
  CommonResolve
CHECK_DEADLOCK FALSE
