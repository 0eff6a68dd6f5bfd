SPECIFICATION Spec
CONSTANTS
  aPod = aPod
  aJob = aJob
  bPod = bPod
  a = a
  b = b
  None = None
  FluxJobs = {aPod, aJob, bPod}
  Reserving = {bPod}
  Names <- MCNames
  NameOf <- MCNameOf
  MaxSubmits = 2
  MaxInserts = 3
  MaxFaults = 2
  MaxCrashes = 1
  MaxRedeliveries = 1
INVARIANTS
  TypeOK
  NoLostRow
  SubmittedIsQueued
  ClearFollowsEveryJob
  BatchCoversPending
  InHandIsQueued
PROPERTY
  ImplementsDelivery
SYMMETRY MCSymmetry
CHECK_DEADLOCK FALSE
