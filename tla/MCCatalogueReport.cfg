SPECIFICATION FairSpec
CONSTANTS
  Consumers = {c1, c2}
  e1 = e1
  e2 = e2
  e3 = e3
  e4 = e4
  Ids <- MCIds
  Topic <- MCTopic
  DayLength = 4
  Instants <- MCInstants
  Missing = Missing
  Malformed = Malformed
  Error = Error
  MaxAttempts = 3
  MaxErrors = 3
  MaxRebalances = 2
  MaxCuts = 1
INVARIANTS
  TypeOK
  CountedOnce
  LossNeedsCut
  WindowsTile
  ReportIsExact
  FreshnessIsHonest
PROPERTY
  NeverWedged
CHECK_DEADLOCK FALSE
