SPECIFICATION FairSpec
CONSTANTS
  c = c
  a = a
  Commands = {c}
  Incidents = {a}
  Nobody = Nobody
  MaxAttempts = 2
  MaxFaults = 2
INVARIANTS
  TypeOK
  QuietIsHeard
  RunsOnce
  AnswersAreTrue
PROPERTIES
  PagesGoOut
  CommandsAnswered
CHECK_DEADLOCK FALSE
