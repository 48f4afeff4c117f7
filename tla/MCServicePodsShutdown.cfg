SPECIFICATION PodsSpec
CONSTANTS
  Relays = {r1}
  Readers = {}
  Paths = {a}
  BatchSize = 3
  MaxId = 3
  MaxFailures = 0
  WarmUps <- MCWarmUps
  MaxStops = 1
INVARIANT
  NothingStranded
CHECK_DEADLOCK FALSE
