CONSTANTS
  o1 = o1
  o2 = o2
  p1 = p1
  Site = Site
  Play = Play
  None = None
  NoHandoff = NoHandoff
  Offers = {o1, o2}
  Expiry <- MCExpiry
  Scope <- MCScope
  Bindings <- MCBindings
  Docs <- MCDocs
  Window = 2
  Procs = {p1}
  MaxEntries = 2
  MaxTime = 2
SPECIFICATION EnrolmentSpec
INVARIANTS
  HeldGrantVouched
PROPERTIES
  RotationBounded
