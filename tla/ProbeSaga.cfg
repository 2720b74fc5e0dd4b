SPECIFICATION FairSpec
CONSTANTS
  MaxProbes = 1
  Qty = 2
  MaxFaults = 3
INVARIANTS
  TypeOK
  BuyOnce
  EndedIsFlat
PROPERTIES
  ReviewIsLoud
  BuySettles
