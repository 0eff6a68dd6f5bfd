SPECIFICATION Spec
CONSTANTS
  Objects = {p, q}
  BatchJobs = {}
  Wide = {}
  TooWide = {}
  Size <- MCSize
  Reserving = {q}
  Slots = {m}
  Copies <- MCCopies
  Twice = {}
  MaxIds = 3
  MaxFaults = 0
  MaxCancelAttempts = 3
  MaxTaskAttempts = 2
PROPERTY
  ClearLeavesNoReservation
CHECK_DEADLOCK FALSE
