SPECIFICATION Spec
CONSTANTS
  Null = Null
  Garbled = Garbled
  p1 = p1
  t1 = t1
  t2 = t2
  way = way
  Terms = {t1, t2}
  Routes = {way}
  Cycles = {0, 1, 2}
  Requests = {r1, r2, r3}
  Paths = {p1}
  Calls <- MCCalls
SYMMETRY Symmetry
INVARIANTS
  TypeOK
  FanOutIsFailFast
  StoredIsAnnounced
PROPERTIES
  DeactivatedStays
  AnnouncedIsStored
CHECK_DEADLOCK FALSE
