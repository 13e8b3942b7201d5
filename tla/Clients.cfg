SPECIFICATION OneSpec
CONSTANTS
  None = None
  c1 = c1
  c2 = c2
  c3 = c3
  Callers = {c1, c2, c3}
  Kinds = {"candidates", "facts"}
  QueueLimit = 2
  Attempts = 2
  Batches = 2
  MaxFlows = 2
  Controllers = {"codex", "claude"}
  Dirs = {c1, c2, c3}
  MaxVersion = 3
SYMMETRY Symmetric
CHECK_DEADLOCK FALSE
INVARIANTS
  OpinionsAreHonest
  OneLoginAtATime
  TheClientInUseIsWhole
