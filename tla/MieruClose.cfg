\* Fair scheduling; one session of each command.
CONSTANTS
  c1 = c1
  c2 = c2
  p1 = p1
  Conns = {c1, c2, p1}
  Command <- OneOfEach
  HasBlocks = FALSE
SPECIFICATION FairSpec
INVARIANTS
  TypeOK
  ClosedIsQuiet
PROPERTY OnlyTargetsDelayClose
CHECK_DEADLOCK FALSE
