CONSTANTS
  g1 = g1
  g2 = g2
  r1 = r1
  r2 = r2
  None = None
  Grants = {g1, g2}
  From <- MCFrom
  Until <- MCUntil
  Profile <- MCProfile
  MaxClosureAge = 2
  PropagationSla = 1
  MaxGrantLifetime = 9
  Skew = 1
  Never = 99
  s1 = s1
  HubSessions = {s1}
  Peers = {s1}
  Links = {s1}
  Presented = {g1}
  Revocable = {g1}
  MaxTime = 4
SPECIFICATION Spec
INVARIANTS
  TypeOK
  RevocationBounded
  RetiredDies
CHECK_DEADLOCK FALSE
