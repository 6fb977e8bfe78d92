SPECIFICATION FairSpec
CONSTANTS
  n1 = n1
  n2 = n2
  n3 = n3
  Nodes <- MCNodes
  Enabled <- MCEnabled
  MaxPairs = 2
  MaxKills = 1
INVARIANT TypeOK
INVARIANT PairFits
INVARIANT EndsGracefully
PROPERTY KeptForGood
PROPERTY Recovers
PROPERTY StopEnds
CHECK_DEADLOCK FALSE
