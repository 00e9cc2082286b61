SPECIFICATION CertFairSpec
CONSTANTS
  None = None
  Torn = Torn
  N = 1
  Watched = {1}
  Domains = {"plain", "wildcard"}
  Lifetime = 3
  Days = 1
  MaxTime = 3
  MaxCerts = 2
  MaxFaults = 1
INVARIANTS
  PairIntact
  RenewalsKeepValid
PROPERTY WatchedIsServed
CHECK_DEADLOCK FALSE
