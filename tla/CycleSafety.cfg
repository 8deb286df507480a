\* One user, two threads: every interleaving of two events' cycles with an
\* admin request and a fault.
CONSTANTS
  NULL = NULL
  Users = {u1}
  Workers = {w1, w2}
  LockKeys = {k1}
  HashText <- MCSameKey
  MaxTime = 2
  MaxEvents = 2
  AdminKinds = {"recompute", "reset", "backdate"}
  MaxAdmin = 1
  MaxFaults = 1
  Cap = 12
  Stored <- MCStored
  AlertThreshold = 9
  WatchThreshold = 6
  SignalMax = 2
  Weight <- MCWeight
  InactivityLimit = 1
  WindowSessions = 1
  WindowSpan = 1
  Decay <- MCDecay
  Detect <- MCDetect

SPECIFICATION MCSpec
SYMMETRY WorkerSymmetry
INVARIANTS
  TypeOK
  NoLostUpdate
  CountsComplete
PROPERTIES
  AlertOnlyOnCrossing
  ImplementsSerial
