SPECIFICATION RoundsSpec
CONSTANTS
  MaxRounds = 3
  MaxForgets = 2
  Faults = {"crash"}
  None = None
  w1 = w1
  w2 = w2
  Workers = {w1, w2}
  Clients <- TwoClients
  Steps = 1
  MaxSessions = 2
  MaxAsks = 2
  Bodies <- OneBody
  Advertised = {"schema", "tools", "web_search"}
  Pooled = {p1, p2}
  Reporting = {p1}
  Callers = {round}
  RateLimited = 2
  Otherwise = 1
  Ceiling = 2
  Stated = {0, 3}
  ProbeInterval = 1
  MaxStreak = 2
  Overlapping = FALSE
SYMMETRY Symmetric
CHECK_DEADLOCK FALSE
INVARIANTS
  
  RoundsKeepToThemselves

  
