SPECIFICATION Spec
CONSTANTS
  b1 = b1
  b2 = b2
  b3 = b3
  s1 = s1
  x = x
  y = y
  NoIntent = NoIntent
  Buys = {b1}
  Sells = {s1}
  Inst = {x}
  InstOf <- MCOneInst
  Qty = 2
  InitialCash = {2}
  MaxOpenPositions = 1
  MalformedAcks = TRUE
  MaxFaults = 1
INVARIANTS
  TypeOK
  ReportsAccepted
PROPERTIES
  NeverResent
