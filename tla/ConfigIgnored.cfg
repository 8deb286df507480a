\* A background cycle after a PUT that lowers the alert threshold.
CONSTANTS
  NULL = NULL
  Users = {u1}
  Workers = {w1}
  MaxTime = 1
  MaxEvents = 1
  InactivityLimit = 1
  Loads <- MCScoringLoad
  MaxFaults = 0
  Cap = 12
  Stored <- MCStored
  AlertThreshold = 6
  WatchThreshold = 3
  SignalMax = 2
  Weight <- MCWeight
  Decay <- MCDecay
  Detect <- MCWeak
  WindowSessions = 1
  WindowSpan = 1
  Fields <- MCFields
  Env <- MCEnv
  Bodies <- MCLowered
  Puts = {put1}
  Filters <- MCFilters
  PageSize = 1
  Readers = {}
  Patches = {}

SPECIFICATION MCSpec
PROPERTIES
  ReportedThresholdAlerts
