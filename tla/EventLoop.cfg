SPECIFICATION FairSpec
CONSTANTS
  Events = {e1, e2, e3}
  Workers = {w1, w2}
  NoEvent = NoEvent
  NoWorker = NoWorker
  Poison = Poison
INVARIANTS
  LoopIsSound
PROPERTIES
  SubmitReturns
  StopEnds
  ImplementsGate
