SPECIFICATION Spec
CONSTANTS
  p1 = p1
  p2 = p2
  i1 = i1
  i2 = i2
  r1 = r1
  r2 = r2
  None = None
  Projects = {p1}
  Issues = {i1, i2}
  Requests = {r1, r2}
  Scenarios <- AllScenarios
  Backends = {"sqlite", "postgres"}
  MaxRows = 2
SYMMETRY Perms
INVARIANTS TypeOK NothingLost NothingStale
CHECK_DEADLOCK FALSE
