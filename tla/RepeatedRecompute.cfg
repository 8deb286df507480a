\* A backdated user whose event is scored is recomputed twice.
CONSTANTS
  NULL = NULL
  Users = {u1}
  Workers = {w1}
  LockKeys = {k1}
  HashText <- MCSameKey
  MaxTime = 2
  MaxEvents = 1
  AdminKinds = {"recompute", "backdate"}
  MaxAdmin = 3
  MaxFaults = 0
  Cap = 12
  Stored <- MCStored
  AlertThreshold = 9
  WatchThreshold = 6
  SignalMax = 2
  Weight <- MCWeight
  InactivityLimit = 1
  WindowSessions = 1
  WindowSpan = 1
  Decay <- MCDecay
  Detect <- MCDetect

SPECIFICATION TrackedSpec
PROPERTIES
  ResetHoldsWithoutNewEvent
