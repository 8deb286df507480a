\* Two requests of one user, every failure of the model and of Langfuse.
CONSTANTS
  NULL = NULL
  Users = {u1}
  Requests = {r1, r2}
  MaxTime = 1
  MaxEvents = 2
  InactivityLimit = 0
  MaxRetries = 2
  LangfuseEnabled = TRUE
  MaxFaults = 1
  Prompts <- MCPrompts
  Replies <- MCReplies
  Denies <- MCDenies
  Sensitive <- MCSensitive
  Blank <- MCBlank
  Refusals <- MCRefusals
  Echoes <- MCEchoes
  RuleLevels <- MCRuleLevels
  Confidence <- MCConfidence
  JudgeThreshold = 85

SPECIFICATION MCFairSpec
INVARIANTS
  TypeOK
  SessionsCountTheirEvents
  AnswersTellTheTruth
  OrphanTracesWereRefused
  AllowedMeansClean
PROPERTIES
  ImplementsIntake
  EveryRequestAnswered
