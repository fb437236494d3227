SPECIFICATION Spec
CONSTANTS
  Ids = {a}
  Devs = {d1}
  Procs = {p1, p2}
  None = None
  Mishaps = {"forget", "phone"}
SYMMETRY Symmetry
INVARIANTS TypeOK ServedResolves AckedStored JoinedBackedUp
PROPERTIES QueueKept
