SPECIFICATION Spec
CONSTANTS
  s1 = s1
  s2 = s2
  Savers <- TwoSavers
  Overlapping = FALSE
  MaxSync = 0
  MaxGen = 3
  BoundedJoin = TRUE
  Faults = {"load", "teardown"}
SYMMETRY Symmetric
INVARIANTS
  RobotIsSound
PROPERTIES
  PauseHolds
