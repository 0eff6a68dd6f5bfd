SPECIFICATION Spec
CONSTANTS
  Objects = {p, j, x}
  BatchJobs = {j, x}
  Wide = {j}
  TooWide = {x}
  Size <- MCSize
  Reserving = {x, p}
  Slots = {m, n}
  Copies <- MCCopies
  Twice = {}
  MaxIds = 3
  MaxFaults = 1
  MaxCancelAttempts = 1
  MaxTaskAttempts = 1
INVARIANTS
  BoundIsAllocated
  NamedIsHeld
  ReservationsTracked
SYMMETRY MCSymmetry
CHECK_DEADLOCK FALSE
