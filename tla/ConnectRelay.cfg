CONSTANTS
  Pages = {p1}
  SessionIds = {s1}
  NoSession = none
  MaxConns = 2
  MaxLinks = 2
  MaxChunks = 2
  ChanCap = 4
  AgentCap = 1
  WireCap = 1
  MaxSessions = 1
  Scenarios = {{"hangup"}, {"page", "spawn", "close"}}
  Races = {"stale"}
SPECIFICATION FairSpec
INVARIANTS TypeOK GridsWhole
PROPERTIES Retained EventuallyCaughtUp
CHECK_DEADLOCK FALSE
