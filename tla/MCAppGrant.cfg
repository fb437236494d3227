CONSTANTS
  o1 = o1
  o2 = o2
  p1 = p1
  p2 = p2
  None = None
  Offers = {o1, o2}
  Expiry <- MCExpiry
  Procs = {p1, p2}
  MaxEntries = 2
  MaxTime = 2
SPECIFICATION Spec
SYMMETRY Symmetry
INVARIANTS
  TypeOK
  ConsumedOnce
  DeliveryHonest
PROPERTIES
  PromptStable
