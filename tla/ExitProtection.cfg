SPECIFICATION Spec
CONSTANTS
  MaxUnits = 2
  MaxAsked = 1
  MaxProts = 2
  MaxSells = 2
  MaxFaults = 1
INVARIANTS
  TypeOK
  LiveAlgosTracked
  ExitSellsAlone
  ReadyIsGuarded
