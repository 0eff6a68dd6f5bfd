SPECIFICATION Spec
CONSTANTS
  p = p
  j = j
  jp = jp
  d = d
  r = r
  dp = dp
  dq = dq
  t = t
  tp = tp
  s = s
  sp = sp
  None = None
  Objects = {p, j, jp, d, r, dp, dq, t, tp, s, sp}
  Kind <- MCKind
  Owner <- MCOwner
  MaxRequests = 4
  MaxFaults = 1
CONSTRAINT
  OneAtATime
INVARIANTS
  TypeOK
  HeldBack
  HeldIsCovered
  OwnedNotSubmitted
  GatedIsFound
CHECK_DEADLOCK FALSE
