CONSTANTS
  i1 = i1
  i2 = i2
  app = app
  other = other
  op = op
  dev = dev
  foreign = foreign
  acct = acct
  None = None
  Invites = {i1, i2}
  Faulty = {i1}
  Transfers <- MCTransfers
  Wallet <- MCWallet
  Rosters <- MCRosters
  Current <- MCCurrent
  Policy <- MCPolicy
SPECIFICATION Spec
INVARIANTS
  TypeOK
  OutcomesAgree
PROPERTIES
  Concludes
CHECK_DEADLOCK FALSE
