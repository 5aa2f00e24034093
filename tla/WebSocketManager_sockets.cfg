SPECIFICATION Spec
CONSTANTS
  Conns = {c1, c2}
  NoTask = NoTask
  Limits = {1, 2}
  Capacity = 1
  Modes = {"local", "redis"}
  Races = {}
  MaxFrames = 1
INVARIANTS TypeOK NoDeafSocket WatermarkHonest Subscribed
PROPERTY Heard
CHECK_DEADLOCK FALSE
