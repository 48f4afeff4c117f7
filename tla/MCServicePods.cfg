SPECIFICATION FairPodsSpec
CONSTANTS
  Relays = {r1, r2}
  Readers = {m1}
  Paths = {a}
  BatchSize = 3
  MaxId = 4
  MaxFailures = 1
  WarmUps <- MCWarmUps
  MaxStops = 2
INVARIANTS
  PodsTypeOK
  PublishedIsDelivered
  DuplicatesNeedFailures
  OrderUnlessOverlap
  
  ServesOnMigratedSchema
  BootSurvivesWarmUp
PROPERTIES
  RowsOutliveTheirPod
  ServesInTheEnd
CHECK_DEADLOCK FALSE
