SPECIFICATION Spec
CONSTANTS
  p = p
  q = q
  Holders = {p, q}
  NoHolder = NoHolder
  TTL = 3
  Margin = 1
  MaxSkew = 1
  MaxStall = 1
  MaxFlight = 1
  MaxRequests = 2
  MaxTime = 5
INVARIANTS
  TypeOK
  ValidIsHeld
  WritesStop
SYMMETRY Symmetry
CHECK_DEADLOCK FALSE
