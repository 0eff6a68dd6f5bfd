SPECIFICATION Spec
CONSTANTS
  Names = {1, 2, 3}
  Replicas = 2
  Others = {"first", "last"}
  Templates <- AllTemplates
  MaxDeletes = 0
  MaxFaults = 0
INVARIANT
  ExactNodes
CHECK_DEADLOCK FALSE
