SPECIFICATION FairSpec
CONSTANTS
  Lots = 3
  None = None
  Due = Due
INVARIANTS
  TypeOK
PROPERTIES
  OncePerCandle
  ViewSettles
  WatchedWhileUp
