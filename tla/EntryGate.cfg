SPECIFICATION FairSpec
CONSTANTS
  MaxErrors = 2
INVARIANTS
  TypeOK
PROPERTIES
  FactsCovered
  EntriesReopen
CHECK_DEADLOCK FALSE
