SPECIFICATION QuotaSpec
CONSTANTS
  Nil = Nil
  Dropped = Dropped
  DeviceLimits = {0, 1}
  MaxDevices = 2
INVARIANTS
  EvictedOnlyWhenFull
  QuotaWithinLimit
