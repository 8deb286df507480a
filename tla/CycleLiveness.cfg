\* Two users whose ids hash to one lock key: progress under fair threads.
CONSTANTS
  NULL = NULL
  Users = {u1, u2}
  Workers = {w1, w2}
  LockKeys = {k1}
  HashText <- MCSameKey
  MaxTime = 0
  MaxEvents = 1
  AdminKinds = {"recompute", "reset", "backdate"}
  MaxAdmin = 1
  MaxFaults = 1
  Cap = 12
  Stored <- MCStored
  AlertThreshold = 9
  WatchThreshold = 6
  SignalMax = 2
  Weight <- MCWeight
  InactivityLimit = 1
  WindowSessions = 1
  WindowSpan = 1
  Decay <- MCDecay
  Detect <- MCDetect

SPECIFICATION MCFairSpec
PROPERTIES
  EventuallyScored
  LostTasksAreMadeUpFor
  LocksReleased
