SPECIFICATION Spec
CONSTANTS
  Plugins = {p1}
  Requests = {r1, r2}
CHECK_DEADLOCK FALSE
INVARIANTS
  ScreeningPauseIsKept
