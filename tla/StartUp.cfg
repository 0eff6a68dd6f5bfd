SPECIFICATION Spec
CONSTANTS
  zone = zone
  NoStatus = NoStatus
  Int32Limit = 4
  NoGraph = NoGraph
  Gi = 2
  ClusterNodes <- MCClusterNodes
  PodLists <- MCPodLists
  MaxFaults = 2
  MaxStarts = 2
INVARIANTS
  TypeOK
  ServingHasQueue
  ContainmentTree
  OfferedFits
  GraphIsComplete
  RequestsWithinLimits
  JobspecCoversPod
CHECK_DEADLOCK FALSE
