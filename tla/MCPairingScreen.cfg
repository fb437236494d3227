CONSTANTS
  Slots <- MCSlots
  MaxEpoch = 4
  MaxAttempts = 2
  Entries = {"full", "legacy"}
  None = None
SPECIFICATION Spec
INVARIANTS
  ScreenHonest
  NoOrphan
CHECK_DEADLOCK FALSE
