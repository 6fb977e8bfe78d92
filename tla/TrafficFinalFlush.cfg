\* Close and the final flush of one stream.
CONSTANTS
  n1 = n1
  n2 = n2
  u1 = u1
  c1 = c1
  c2 = c2
  p1 = p1
  Nodes = {n1}
  Users = {u1}
  Conns <- OneStream
  NodeOf <- SameNode
  UserOf <- UserOfOne
  Packet = {}
  MaxBytes = 1
  MaxReceived = 2
  PanelFaults = {}
SPECIFICATION Spec
PROPERTY FinalFlushEmpties
CHECK_DEADLOCK FALSE
