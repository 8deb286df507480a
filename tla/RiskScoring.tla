---------------------------- MODULE RiskScoring ----------------------------
(***************************************************************************)
(* The risk scorer (app/scoring/risk_scorer.py): one user's composite      *)
(* score decays with time, grows with the detectors' signals, is capped,   *)
(* is mapped to a status and decides when an alert is due.                 *)
(*                                                                         *)
(* Scores are natural numbers of a unit finer than the column that stores  *)
(* them: Stored is the set of scores NUMERIC(6,2) can hold, and writing a  *)
(* score replaces it by the nearest member of Stored.                      *)
(***************************************************************************)
EXTENDS Common

CONSTANTS
  Cap,              \* the ceiling of the score (100.0)
  Stored,           \* the scores the risk_score column can hold
  AlertThreshold,   \* Settings.alert_threshold
  WatchThreshold,   \* Settings.watch_threshold
  SignalMax,        \* the strongest detector signal (1.0)
  Weight,           \* Settings.weight_*, times 100 * risk_alpha
  Decay(_, _)       \* what is left of a score after dt > 0

Techniques == {"probing", "escalation", "enumeration"}
Signals == [Techniques -> 0 .. SignalMax]
Statuses == {"normal", "watch", "alerted"}

Distance(r, s) == IF r <= s THEN s - r ELSE r - s
Nearest(r, s) == \A q \in Stored : Distance(r, s) <= Distance(q, s)

ASSUME ScoringAssumption ==
  /\ Cap \in Nat
  /\ SignalMax \in Nat
  /\ Weight \in [Techniques -> Nat]
  /\ AlertThreshold \in Nat
  /\ WatchThreshold \in Nat
  /\ Stored \subseteq 0 .. Cap
  /\ {0, AlertThreshold} \subseteq Stored
  /\ \A s \in 0 .. Cap : \E r \in Stored : Nearest(r, s)
  /\ \A s \in 0 .. Cap, dt \in 1 .. MaxTime : Decay(s, dt) \in 0 .. s

-----------------------------------------------------------------------------
NoSignals == [t \in Techniques |-> 0]

Unrounded(s) == s  \* mutant

(* round(score, 2) on the way into the table.                              *)
Rounded(s) == CHOOSE r \in Stored : Nearest(r, s)

DecayFactor(s, dt) == IF dt <= 0 THEN s ELSE Decay(s, dt)

(* risk_alpha * S_inst: both factors are constants of the settings, so the *)
(* weights carry them.                                                     *)
ComputeInstantaneousScore(sig) ==
  Weight["probing"] * sig["probing"]
    + Weight["escalation"] * sig["escalation"]
    + Weight["enumeration"] * sig["enumeration"]

Accumulate(prev, inst, dt) ==
  LET updated == DecayFactor(prev, dt) + inst
  IN  IF updated > Cap THEN Cap ELSE updated

IsInactivityResetNeeded(lastEvent, now) ==
  lastEvent # NULL /\ now - lastEvent > InactivityLimit

DetermineStatus(s) ==
  IF s >= AlertThreshold THEN "alerted"
  ELSE IF s >= WatchThreshold THEN "watch"
  ELSE "normal"

(* max() keeps the first of equals, in the order of the ranking.           *)
DominantPattern(sig) ==
  IF sig["probing"] >= sig["escalation"] /\ sig["probing"] >= sig["enumeration"]
    THEN "probing"
  ELSE IF sig["escalation"] >= sig["enumeration"] THEN "escalation"
  ELSE "enumeration"

AlertWhenever(prev, new) == new >= AlertThreshold  \* mutant: no look at prev

(* prev is NULL for a user that has no profile yet.                        *)
ShouldCreateAlert(prev, new) ==
  /\ new >= AlertThreshold
  /\ prev = NULL \/ prev < AlertThreshold

-----------------------------------------------------------------------------
(* One scoring cycle over the profile row p (NULL if there is none): the   *)
(* ScoringOutcome, with the dominant technique of the alert or NULL.       *)
ResetOutcome(now) ==
  [score |-> 0, signals |-> NoSignals, status |-> "normal",
   scoredAt |-> now, alert |-> NULL]

ScoredOutcome(p, sig, now) ==
  LET prev == IF p = NULL THEN 0 ELSE p.score
      dt   == IF p = NULL THEN 0
              ELSE IF p.lastScored = NULL THEN 0 ELSE now - p.lastScored
      new  == Accumulate(prev, ComputeInstantaneousScore(sig), dt)
  IN  [score |-> new, signals |-> sig, status |-> DetermineStatus(new),
       scoredAt |-> now,
       alert |-> IF ShouldCreateAlert(IF p = NULL THEN NULL ELSE p.score, new)
                   THEN DominantPattern(sig) ELSE NULL]

MustReset(p, now) == p # NULL /\ IsInactivityResetNeeded(p.lastEvent, now)

Evaluate(p, sig, now) ==
  IF MustReset(p, now) THEN ResetOutcome(now) ELSE ScoredOutcome(p, sig, now)
=============================================================================
