CONSTANTS
  a1 = a1
  a2 = a2
  p1 = p1
  p2 = p2
  r1 = r1
  r2 = r2
  None = None
  Attempts = {a1, a2}
  Procs = {p1, p2}
  Roots = {r1, r2}
  Window = 2
  MaxTime = 2
SPECIFICATION Spec
SYMMETRY Symmetry
INVARIANTS
  TypeOK
  OneWorker
  CustodyFenced
  FencedOut
  ContinuationKept
  ConsentOnce
PROPERTIES
  SignsInsideFence
