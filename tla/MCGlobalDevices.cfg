SPECIFICATION DevicesSpec
CONSTANTS
  Nodes = {n1, n2}
  IPs = {i1, i2, i3}
  Calls = {c1, c2}
  Limits = {1}
  MaxExpiries = 1
SYMMETRY CallSymmetry
INVARIANTS
  GlobalLimitHolds
  VerdictsAgree
PROPERTIES
  ImplementsWindow
