\* Two users, two threads, one recompute, PUT requests, patches and a client that pages.
CONSTANTS
  NULL = NULL
  Users = {u1, u2}
  Workers = {w1, w2}
  MaxTime = 1
  MaxEvents = 1
  InactivityLimit = 1
  Loads <- MCLoads
  MaxFaults = 1
  Cap = 12
  Stored <- MCStored
  AlertThreshold = 6
  WatchThreshold = 3
  SignalMax = 2
  Weight <- MCWeight
  Decay <- MCDecay
  Detect <- MCStrong
  WindowSessions = 1
  WindowSpan = 1
  Fields <- MCFields
  Env <- MCEnv
  Bodies <- MCBodies
  Puts = {put1, put2}
  Filters <- MCFilters
  PageSize = 1
  Readers = {r1}
  Patches = {p1, p2}

SPECIFICATION MCSpec
SYMMETRY Symmetry
INVARIANTS
  TypeOK
  RecomputesSeeAnsweredPuts
  PutAnswersShowTheUpdate
  LastPatchWins
  PatchAnswersAreRecent
  NoAlertSkipped
  TotalsAreBacked
PROPERTIES
  AlertsCrossTheirThreshold
