\* Two streams of one user on one of two nodes, every panel fault.
CONSTANTS
  n1 = n1
  n2 = n2
  u1 = u1
  c1 = c1
  c2 = c2
  p1 = p1
  Nodes = {n1, n2}
  Users = {u1}
  Conns <- TwoStreams
  NodeOf <- SameNode
  UserOf <- UserOfOne
  Packet = {}
  MaxBytes = 1
  MaxReceived = 2
  PanelFaults = {"lost", "unacked"}
SPECIFICATION Spec
INVARIANTS
  TypeOK
  ConnBytesConserved
  LedgerBalanced
  GaugesExact
  SettledWasReceived
  SnapshotWithinUsage
CHECK_DEADLOCK FALSE
