\* Four cycles of 2 units each: 2, 5 and 8 are stored as 3, 6 and 9.
CONSTANTS
  NULL = NULL
  Users = {u1}
  Workers = {w1}
  LockKeys = {k1}
  HashText <- MCSameKey
  MaxTime = 0
  MaxEvents = 4
  AdminKinds = {}
  MaxAdmin = 0
  MaxFaults = 0
  Cap = 12
  Stored <- MCStored
  AlertThreshold = 9
  WatchThreshold = 6
  SignalMax = 2
  Weight <- MCFlatWeight
  InactivityLimit = 1
  WindowSessions = 1
  WindowSpan = 1
  Decay <- MCDecay
  Detect <- MCFlatDetect

SPECIFICATION MCSpec
PROPERTIES
  AlertedUsersHaveAlerts
