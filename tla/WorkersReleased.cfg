SPECIFICATION FairSpec
CONSTANTS
  Objects = {p, q}
  BatchJobs = {q}
  Wide = {}
  TooWide = {}
  Size <- MCSize
  Reserving = {}
  Slots = {m}
  Copies <- MCCopies
  Twice = {}
  MaxIds = 3
  MaxFaults = 2
  MaxCancelAttempts = 3
  MaxTaskAttempts = 2
PROPERTIES
  EveryObjectIsReleased
  CleanupSucceeds
CHECK_DEADLOCK FALSE
