SPECIFICATION Spec
CONSTANTS
  t1 = t1
  t2 = t2
  k1 = k1
  NoTab = NoTab
  Tabs = {t1, t2}
  Keys = {k1}
  Scenarios <- SafetyScenarios
SYMMETRY TabSymmetry
INVARIANTS TypeOK DiskHonest ScreensCurrent ScreensAgree ToldOnlyOfCached
CHECK_DEADLOCK FALSE
