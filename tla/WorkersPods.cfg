SPECIFICATION Spec
CONSTANTS
  Objects = {p, q}
  BatchJobs = {}
  Wide = {}
  TooWide = {}
  Size <- MCSize
  Reserving = {q}
  Slots = {m, n}
  Copies <- MCCopies
  Twice = {p}
  MaxIds = 3
  MaxFaults = 1
  MaxCancelAttempts = 2
  MaxTaskAttempts = 2
INVARIANTS
  TypeOK
  BoundIsAllocated
  NamedIsHeld
  ClearRunsLast
  ReservationsTracked
  LeaksAreExplained
SYMMETRY MCSymmetry
CHECK_DEADLOCK FALSE
