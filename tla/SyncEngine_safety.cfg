SPECIFICATION Spec
CONSTANTS
  k1 = k1
  k2 = k2
  e1 = e1
  e2 = e2
  t1 = t1
  t2 = t2
  Keys = {k1, k2}
  Types = {e1, e2}
  TypeOf <- OneRowPerType
  TaskIds = {t1}
  BatchSize = 1
  MaxBatches = 2
  ChanCap = 2
  MaxLog = 3
  MaxOps = 4
  Faults = {"write", "cursor", "rewind", "fetch", "watermark"}
  Races = {}
INVARIANTS TypeOK CursorHonest NoWipeUnderBootstrap
