SPECIFICATION FairSpec
CONSTANTS
  b1 = b1
  b2 = b2
  b3 = b3
  s1 = s1
  x = x
  y = y
  NoIntent = NoIntent
  Buys = {b1}
  Sells = {s1}
  Inst = {x}
  InstOf <- MCOneInst
  Qty = 1
  InitialCash = {1}
  MaxOpenPositions = 1
  MalformedAcks = FALSE
  MaxFaults = 1
INVARIANTS
  OpenOrdersTracked
  SettledIsAccounted
PROPERTIES
  KeepsLedger
  JournalConverges
