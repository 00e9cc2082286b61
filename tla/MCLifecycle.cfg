SPECIFICATION LifeSpec
CONSTANTS
  MaxGen = 2
  N = 2
  T = 1
  MaxEdits = 1
CONSTRAINT OneLingers
INVARIANTS
  ClosedIsQuiet
  
PROPERTIES
  ClosesReturn
  MonitorsKeepRunning
