SPECIFICATION Spec
CONSTANTS
  Consumers = {c1}
  e1 = e1
  e2 = e2
  e3 = e3
  e4 = e4
  Ids <- MCIds
  Topic <- MCTopic
  DayLength = 4
  Instants <- MCInstants
  Missing = Missing
  Malformed = Malformed
  Error = Error
  MaxAttempts = 3
  MaxErrors = 0
  MaxRebalances = 0
  MaxCuts = 1
INVARIANT
  NoEventLost
CHECK_DEADLOCK FALSE
