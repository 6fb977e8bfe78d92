\* A stream and a packet connection; reports get lost; fair scheduling.
CONSTANTS
  n1 = n1
  n2 = n2
  u1 = u1
  c1 = c1
  c2 = c2
  p1 = p1
  Nodes = {n1}
  Users = {u1}
  Conns <- StreamAndPacket
  NodeOf <- SameNode
  UserOf <- UserOfOne
  Packet = {p1}
  MaxBytes = 2
  MaxReceived = 2
  PanelFaults = {"lost"}
SPECIFICATION FairSpec
PROPERTIES
  BilledOnce
  StreamsBilled
CHECK_DEADLOCK FALSE
