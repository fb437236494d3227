CONSTANTS
  Tasks = {s1, s2}
  Devices = {d1}
  Enrolments = {e1, e2}
  Bound = {e2}
  Null = Null
SPECIFICATION LinkSpec
SYMMETRY MCSymmetry
INVARIANT ComparedFirst
