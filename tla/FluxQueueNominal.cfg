SPECIFICATION FairSpec
CONSTANTS
  aPod = aPod
  aJob = aJob
  bPod = bPod
  a = a
  b = b
  None = None
  FluxJobs = {aPod, aJob, bPod}
  Reserving = {bPod}
  Names <- MCNames
  NameOf <- MCNameOf
  MaxSubmits = 3
  MaxInserts = 4
  MaxFaults = 0
  MaxCrashes = 0
  MaxRedeliveries = 0
INVARIANTS
  ScheduledOnce
PROPERTIES
  EverySubmissionReachesRiver
  EveryFluxJobIsRetired
CHECK_DEADLOCK FALSE
