\* One node, one user with a limit of one device, two addresses.
CONSTANTS
  u1 = u1
  u2 = u2
  n1 = n1
  n2 = n2
  s1 = s1
  s2 = s2
  c1 = c1
  c2 = c2
  NoSource = NoSource
  Nodes = {n1}
  Users = {u1}
  Sources = {s1, s2}
  Conns = {c1, c2}
  Lists <- OneDevice
  SecretNodes = {}
  TTL = 2
SPECIFICATION Spec
INVARIANT StrictDeviceLimit
CHECK_DEADLOCK FALSE
