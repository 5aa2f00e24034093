SPECIFICATION Spec
CONSTANTS
  r1 = r1
  r2 = r2
  f1 = f1
  f2 = f2
  Repos = {r1, r2}
  Flows = {f1, f2}
  MaxEvents = 3
  Starts = {"none", "live", "legacy"}
  Scenarios <- TheScenarios
SYMMETRY Sym
INVARIANTS TypeOK Once OutboundAllowed TokenCurrent ScopeSettles
PROPERTIES EffectsAllowed NoResurrection
CHECK_DEADLOCK FALSE
