CONSTANTS
  app1 = app1
  app2 = app2
  relay = relay
  c1 = c1
  c2 = c2
  c3 = c3
  d1 = d1
  d2 = d2
  None = None
  r1 = r1
  r2 = r2
  Apps = {app1, app2}
  Relays = {relay}
  Ceremonies = {c1, c2}
  Devices = {d1, d2}
  Roots = {r1, r2}
  AppOf <- MCAppOf
  RelayOf <- MCRelayOf
  DevOf <- MCDevOf
  Legacy = {c1, c2}
  Profiles <- MCProfiles
  Offered <- MCOffered
  MaxApplicationLinks = 2
  MaxLinks = 2
SYMMETRY Symmetry
SPECIFICATION Spec
INVARIANTS TypeOK NothingStranded FinalizedKept NoResurrection
PROPERTY UnlinksWhatWasShown
