\* The model fails when it judges the capability level.
CONSTANTS
  NULL = NULL
  Users = {u1}
  Requests = {r1, r2}
  MaxTime = 0
  MaxEvents = 2
  InactivityLimit = 0
  MaxRetries = 2
  LangfuseEnabled = TRUE
  MaxFaults = 0
  Prompts <- MCPrompts
  Replies <- MCReplies
  Denies <- MCDenies
  Sensitive <- MCSensitive
  Blank <- MCBlank
  Refusals <- MCRefusals
  Echoes <- MCEchoes
  RuleLevels <- MCRuleLevels
  Confidence <- MCConfidence
  JudgeThreshold = 85

SPECIFICATION MCSpec
INVARIANTS
  ModelOutagesDegrade
