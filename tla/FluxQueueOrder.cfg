SPECIFICATION Spec
CONSTANTS
  aPod = aPod
  aJob = aJob
  bPod = bPod
  a = a
  b = b
  None = None
  FluxJobs = {aPod, aJob, bPod}
  Reserving = {bPod}
  Names <- MCNames
  NameOf <- MCNameOf
  MaxSubmits = 3
  MaxInserts = 3
  MaxFaults = 1
  MaxCrashes = 0
  MaxRedeliveries = 0
INVARIANT
  FirstComeFirstServe
CHECK_DEADLOCK FALSE
