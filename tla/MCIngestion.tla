----------------------------- MODULE MCIngestion -----------------------------
(***************************************************************************)
(* Values for the constants of Ingestion: a prompt of every kind the       *)
(* guardrail and the tagger tell apart, a reply of every kind.             *)
(***************************************************************************)
EXTENDS Ingestion, TLC

MCPrompts == {"deny", "sensitive", "vague"}
MCReplies == {"help", "refuse", "blank"}
MCDenies == [p \in Prompts |-> IF p = "deny" THEN {1, 2} ELSE {}]
MCSensitive == {"sensitive"}
MCEchoes == [y \in Replies |-> {}]
MCBlank == {"blank"}
MCRefusals == {"refuse"}
MCRuleLevels ==
  [p \in Prompts |-> CASE p = "deny" -> {1, 4} [] p = "sensitive" -> {3} [] OTHER -> {}]
MCConfidence == [l \in Levels |-> <<90, 85, 85, 90, 95>>[l + 1]]

(* Nothing is left to do within the bounds.                                *)
Finished ==
  /\ clock = MaxTime
  /\ \A r \in Requests : stage[r] \in Answered
  /\ UNCHANGED vars

MCSpec == Init /\ [][Next \/ Finished]_vars
MCFairSpec == MCSpec /\ Fairness
=============================================================================
