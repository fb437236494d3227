CONSTANTS
  a1 = a1
  p1 = p1
  p2 = p2
  r1 = r1
  None = None
  Attempts = {a1}
  Procs = {p1, p2}
  Roots = {r1}
  Window = 2
  MaxTime = 2
SPECIFICATION FairSpec
PROPERTIES
  LeaseReturned
  CustodyGivenUp
