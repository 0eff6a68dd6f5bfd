SPECIFICATION FairSpec
CONSTANTS
  Names = {1, 2, 3}
  Replicas = 2
  Others = {"first", "last"}
  Templates <- AllTemplates
  MaxDeletes = 1
  MaxFaults = 2
INVARIANTS
  TypeOK
  UngatedIsPlaced
  NodesNotShared
  DoneIsComplete
PROPERTIES
  OwnGateOnly
  Completes
CHECK_DEADLOCK FALSE
