SPECIFICATION LiveSpec
CONSTANTS
  Ids = {a}
  Devs = {d1}
  Procs = {p1}
  None = None
  Mishaps = {"phone", "resolver"}
PROPERTIES EventuallyPublished
