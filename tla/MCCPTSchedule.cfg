SPECIFICATION Spec
CONSTANTS
  Null = Null
  site = site
  p1 = p1
  p2 = p2
  sp = sp
  ny = ny
  early = early
  late = late
  Requests = {a1, a2, a3}
  Sites = {site}
  Paths = {p1, p2}
  Timezones = {sp, ny}
  Departures = {early, late}
  Calls <- AllCalls
SYMMETRY Symmetry
INVARIANTS
  TypeOK
  ScheduleAgreesWithOutbox
  ReadsMoveForward
  NamedPathsExist
  AnsweredPutTookEffect
