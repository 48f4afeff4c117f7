SPECIFICATION Spec
CONSTANTS
  Null = Null
  p1 = p1
  p2 = p2
  k1 = k1
  k2 = k2
  t1 = t1
  t2 = t2
  ra = ra
  rb = rb
  Terms = {t1, t2}
  Routes = {ra, rb}
  Cycles = {0, 1000, 1500, 2000}
  Requests = {a1,a2,a3}
  Paths = {p1}
  Keys = {k1, k2}
  Calls <- RacingCalls
SYMMETRY Symmetry
INVARIANTS
  DefinedOnce
