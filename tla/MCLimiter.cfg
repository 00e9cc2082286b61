SPECIFICATION LimiterSpec
CONSTANTS
  Users = {u1}
  Sources = {i1, i2}
  Conns = {c1, c2}
  Speeds = {0, 1}
  Devices = {1}
  MaxGens = 2
  GlobalLimit = TRUE
  None = None
CONSTRAINT OneSurvives
SYMMETRY Interchangeable
INVARIANTS
  RuntimeStateIsKnown
  HubHasTheLimit
  NoDeviceIsLost
PROPERTY DevicesWithinLimit
VIEW UsedRates
