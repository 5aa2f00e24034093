SPECIFICATION FairSpec
CONSTANTS
  t1 = t1
  t2 = t2
  k1 = k1
  NoTab = NoTab
  Tabs = {t1, t2}
  Keys = {k1}
  Scenarios <- LiveScenarios
PROPERTIES Converges Evicted
CHECK_DEADLOCK FALSE
