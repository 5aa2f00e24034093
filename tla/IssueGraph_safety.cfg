SPECIFICATION Spec
CONSTANTS
  i1 = i1
  i2 = i2
  i3 = i3
  r1 = r1
  r2 = r2
  Issues = {i1, i2, i3}
  Requests = {r1, r2}
  RowTypes = {"blocks", "parent", "comment"}
  Calls = {"create", "status", "edit", "delete", "relate", "parent", "unrelate", "comment"}
  Backends = {"sqlite"}
  Races = {}
  MaxRows = 2
  MaxDepth = 3
SYMMETRY Alike
INVARIANTS TypeOK LogTellsAll FlagsTold
PROPERTIES Implements
