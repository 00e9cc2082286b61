SPECIFICATION ControlSpec
CONSTANTS
  None = None
  Recs <- TwoLimits
  WarnTimes = 1
  LimitSpeed = 1
  LimitDuration = 1
  MaxTime = 3
  MaxChanges = 1
  Writers = {w1}
  Bursts = {1, 3}
  MaxLen = 4
  Cancels = TRUE
INVARIANTS
  
  WarnedInARow
  PaidInFull

  
CHECK_DEADLOCK FALSE
