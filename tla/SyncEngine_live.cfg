SPECIFICATION FairSpec
CONSTANTS
  k1 = k1
  k2 = k2
  e1 = e1
  e2 = e2
  t1 = t1
  t2 = t2
  Keys = {k1}
  Types = {e1}
  TypeOf <- OneType
  TaskIds = {t1}
  BatchSize = 1
  MaxBatches = 2
  ChanCap = 1
  MaxLog = 2
  MaxOps = 3
  Faults = {"write", "wipe", "cursor", "rewind", "read", "probe"}
  Races = {"reconnect", "live", "drop", "prune"}
PROPERTIES QueueClosesTheGap Answered Refilled
