SPECIFICATION StreamFairSpec
CONSTANTS
  Records = 3
  Units = 3
INVARIANTS
  
  InOrder
PROPERTIES
  SniffingEnds
  
CHECK_DEADLOCK FALSE
