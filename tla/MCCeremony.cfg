CONSTANTS
  c0 = c0
  c1 = c1
  a1 = a1
  a2 = a2
  d1 = d1
  d2 = d2
  None = None
  app = app
  origin = origin
  handle = handle
  key = key
  kid = kid
  dev = dev
  Profile <- MCProfile
  Carrier <- MCCarrier
  Request <- MCRequest
  SnapshotOf <- MCSnapshotOf
  Signer <- MCSigner
  Ceremonies = {c0, c1}
  Accounts = {a1, a2}
  Snapshots = {1, 2}
  Dids = {d1, d2}
  This = c1
  Selections = {a1, a2}
  Earlier <- MCEarlier
  WalletDid = d1
  OfferExpiry = 1
  CarrierExpiry = 2
SPECIFICATION Spec
INVARIANTS
  TypeOK
  OneSuccessor
  StatusBacked
PROPERTIES
  Agrees
  Settles
CHECK_DEADLOCK FALSE
