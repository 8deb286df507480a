------------------------------ MODULE Guardrail ------------------------------
(***************************************************************************)
(* The guardrail evaluator (app/llm/guardrail.py) and the rules of the     *)
(* capability tagger (app/detectors/capability.py). A prompt and a reply   *)
(* are what the patterns tell apart.                                       *)
(***************************************************************************)
EXTENDS Integers, FiniteSets

CONSTANTS
  Prompts,
  Replies,         \* what the model may answer
  Denies,          \* prompt -> the layer 1 patterns it matches, by number
  Sensitive,       \* the prompts a layer 2 pattern matches
  Blank,           \* the replies that are empty once stripped
  Refusals,        \* the replies a refusal pattern matches
  Echoes,          \* reply -> the layer 1 patterns it matches
  RuleLevels,      \* prompt -> the capability levels whose rule matches it
  Confidence,      \* level -> confidence of its rule, in percent
  JudgeThreshold   \* Settings.capability_judge_confidence_threshold

Outcomes == {"allowed", "blocked", "flagged"}
Levels == 0 .. 4

ASSUME GuardrailAssumption ==
  /\ Denies \in [Prompts -> SUBSET Nat]
  /\ Echoes \in [Replies -> SUBSET Nat]
  /\ Sensitive \subseteq Prompts
  /\ Blank \cup Refusals \subseteq Replies
  /\ RuleLevels \in [Prompts -> SUBSET Levels]
  /\ Confidence \in [Levels -> Nat]

-----------------------------------------------------------------------------
Verdict(outcome, reason) == [outcome |-> outcome, reason |-> reason]

(* The first layer 1 pattern of the prompt decides; it is seen again only  *)
(* when layer 1 let the prompt pass, so "harmful_output" never comes up.   *)
EvaluateOutput(prompt, reply) ==
  LET first == CHOOSE d \in Denies[prompt] : \A e \in Denies[prompt] : d <= e
  IN  IF reply \in Blank THEN Verdict("allowed", "none")
      ELSE IF reply \in Refusals THEN Verdict("blocked", "model_refusal")
      ELSE IF Denies[prompt] # {} /\ first \in Echoes[reply]
        THEN Verdict("blocked", "harmful_output")
      ELSE Verdict("allowed", "none")

EvaluateLayers(prompt, reply) ==
  IF Denies[prompt] # {} THEN Verdict("blocked", "input_policy_violation")
  ELSE IF prompt \in Sensitive THEN Verdict("flagged", "sensitive_input")
  ELSE EvaluateOutput(prompt, reply)

EvaluateIgnoringDegraded(prompt, reply, degraded) ==  \* mutant
  IF degraded THEN Verdict("allowed", "none") ELSE EvaluateLayers(prompt, reply)

(* A degraded answer is flagged before any layer looks at the prompt.      *)
GuardrailEvaluate(prompt, reply, degraded) ==
  IF degraded THEN Verdict("flagged", "llm_degraded")
              ELSE EvaluateLayers(prompt, reply)

-----------------------------------------------------------------------------
(* The highest level whose rule matches, if its rule is trusted enough.    *)
RuleLevel(prompt) ==
  CHOOSE l \in RuleLevels[prompt] : \A k \in RuleLevels[prompt] : k <= l

RulesDecide(prompt) ==
  /\ RuleLevels[prompt] # {}
  /\ Confidence[RuleLevel(prompt)] >= JudgeThreshold
=============================================================================
