SPECIFICATION Spec
CONSTANTS
  b1 = b1
  b2 = b2
  b3 = b3
  s1 = s1
  x = x
  y = y
  NoIntent = NoIntent
  Buys = {b1, b2, b3}
  Sells = {}
  Inst = {x, y}
  InstOf <- MCPair
  Qty = 1
  InitialCash = {1, 2}
  MaxOpenPositions = 1
  MalformedAcks = FALSE
  MaxFaults = 1
SYMMETRY MCSymmetry
INVARIANTS
  OneOpenBuyPerInstrument
  CashNeverOverdrawn
  SlotsNeverExceeded
