SPECIFICATION LockSpec
CONSTANTS
  MaxErrors = 2
PROPERTIES
  ExitsProceed
CHECK_DEADLOCK FALSE
