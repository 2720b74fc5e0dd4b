SPECIFICATION Spec
CONSTANTS
  MaxUnits = 2
  MaxAsked = 2
  MaxProts = 2
  MaxSells = 2
  MaxFaults = 0
PROPERTY StopsTryingWhenFlat
