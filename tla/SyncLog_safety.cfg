SPECIFICATION Spec
CONSTANTS
  ann = ann
  bob = bob
  t1 = t1
  v1 = v1
  r1 = r1
  r2 = r2
  Users = {ann, bob}
  Owner = ann
  Teams = {t1}
  Views = {v1}
  Scoped = {}
  OtherTeams = 1
  Requests = {r1, r2}
  Scenarios <- SafetyScenarios
  Backend = "sqlite"
  Races = {}
  BatchSize = 1
  MaxLog = 5
INVARIANTS TypeOK CatchUpIsEnough ScreenSettles OnlyEntitled
SYMMETRY Interchangeable
CHECK_DEADLOCK FALSE
