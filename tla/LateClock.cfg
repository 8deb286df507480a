\* Two background cycles of one user, a clock that moves once.
CONSTANTS
  NULL = NULL
  Users = {u1}
  Workers = {w1, w2}
  LockKeys = {k1}
  HashText <- MCSameKey
  MaxTime = 1
  MaxEvents = 2
  AdminKinds = {}
  MaxAdmin = 0
  MaxFaults = 0
  Cap = 12
  Stored <- MCStored
  AlertThreshold = 9
  WatchThreshold = 6
  SignalMax = 2
  Weight <- MCWeight
  InactivityLimit = 1
  WindowSessions = 1
  WindowSpan = 1
  Decay <- MCDecay
  Detect <- MCDetect

SPECIFICATION MCSpec
PROPERTIES
  ScoringTimeNeverRegresses
