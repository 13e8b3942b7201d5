SPECIFICATION FairSpec
CONSTANTS
  s1 = s1
  s2 = s2
  Savers <- OneSaver
  Overlapping = FALSE
  MaxSync = 1
  MaxGen = 3
  BoundedJoin = FALSE
  Faults = {"load", "teardown", "refresh"}
PROPERTIES
  ChoiceIsFollowed
  StoppedWorkersEnd
  LockIsReleased
