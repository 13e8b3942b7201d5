SPECIFICATION OneSpec
CONSTANTS
  None = None
  w1 = w1
  w2 = w2
  k1 = k1
  k2 = k2
  Plugins = {p1}
  Requests = {w1, w2}
  Passkeys = {k1, k2}
  Nonces = {n1}
  IdleTime = 1
  LifeTime = 2
  MaxTime = 3
  MaxCeremonies = 3
  Tokens = {t1, t2}
  Callers = {w1, w2}
  MaxSubscriptions = 1
  MaxVersion = 2
  MaxConnects = 2
  MaxWire = 2
  Words = {n1, n2}
  MaxReads = 2
  MaxCrashes = 1
SYMMETRY Symmetric
CONSTRAINT NoSaveIsRaced
CHECK_DEADLOCK FALSE
INVARIANTS
  PausesOutliveEdits
  SessionsAreEarned
  TheStreamServes
  NotesAreTakenOnce
PROPERTIES
  ForgottenStaysForgotten
