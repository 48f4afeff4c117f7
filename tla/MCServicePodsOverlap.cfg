SPECIFICATION PodsSpec
CONSTANTS
  Relays = {r1, r2}
  Readers = {}
  Paths = {a}
  BatchSize = 3
  MaxId = 4
  MaxFailures = 0
  WarmUps <- MCWarmUps
  MaxStops = 0
INVARIANT
  PathOrderPreserved
CHECK_DEADLOCK FALSE
