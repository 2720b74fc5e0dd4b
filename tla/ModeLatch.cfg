SPECIFICATION FairSpec
CONSTANTS
  Deploys = {TRUE, FALSE}
  Origins <- MCOrigins
  MaxEpoch = 7
  MaxStarts = 3
INVARIANTS
  TypeOK
  CanaryOpensFromHold
PROPERTIES
  LatchHolds
  EmergencyFenced
  ActivationOpens
CHECK_DEADLOCK FALSE
