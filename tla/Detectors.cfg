\* Windows of up to four interactions in up to three sessions.
CONSTANTS
  NULL = NULL
  MaxTime = 1
  MaxEvents = 4
  InactivityLimit = 1
  Cap = 100
  Stored <- MCStored
  AlertThreshold = 70
  WatchThreshold = 50
  SignalMax = 100
  Weight <- MCWeight
  Decay <- MCDecay
  Kinds <- MCKinds
  Outcome <- MCOutcome
  Similarity <- MCSimilarity
  Template <- MCTemplate
  Values <- MCValues
  Level <- MCLevel
  Log2 <- MCLog2
  Config <- MCConfig
  MaxSessions = 3

SPECIFICATION Spec
INVARIANTS
  TypeOK
  DominantTechniqueFired
  EvidenceStandsAlone
PROPERTIES
  PassedPromptsNeverRaiseProbing
  ChatterLeavesEscalation
