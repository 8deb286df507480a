\* Two personas, five prompts, a window of two sessions, up to two failures.
CONSTANTS
  NULL = NULL
  MaxTime = 2
  MaxEvents = 5
  InactivityLimit = 1
  Cap = 13
  Stored <- MCStored
  AlertThreshold = 6
  WatchThreshold = 5
  SignalMax = 4
  Weight <- MCWeight
  Decay <- MCDecay
  Detect <- MCDetect
  Plans <- MCPlans
  Expected <- MCExpected
  WindowSessions = 2
  MaxPolls = 1
  MaxFaults = 2

SPECIFICATION MCSpec
INVARIANTS
  TypeOK
  BurstsAreSessions
  GreenMeansWholePlan
  VerdictsCoverTheTraffic
  ResetTestFailsOnlyWhenRaced
  
PROPERTIES
  HarnessEnds
