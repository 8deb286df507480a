---------------------------- MODULE RollingWindow ----------------------------
(***************************************************************************)
(* The detectors over a user's rolling window as it grows by an event at   *)
(* one end and loses its oldest rows at the other. A detector is a pure    *)
(* function of the window; what a cycle does with the three results is the *)
(* orchestrator's (app/detection/orchestrator.py) and the scorer's.        *)
(***************************************************************************)
EXTENDS Probing, Escalation, Enumeration, RiskScoring

CONSTANT MaxSessions  \* bound: sessions with a row in the window

(* Detectors and scorer agree on the unit of a signal.                     *)
ASSUME SignalAssumption == SignalMax = Unit

(* The table of logarithms reaches the slot values of the fullest window.  *)
ASSUME LogAssumption ==
  /\ Log2 \in Seq(Nat)
  /\ \A m, n \in DOMAIN Log2 : m <= n => Log2[m] <= Log2[n]
  /\ \A n \in DOMAIN Log2 : n >= 2 => Log2[n] > 0
  /\ \A k \in Kinds : MaxEvents * Len(Values[k]) <= Len(Log2)

VARIABLE window  \* the interactions of the window, oldest first

Init == window = <<>>

(* An event in any session, the rows of some having left the window.       *)
Ingest(kind, s) ==
  /\ Len(window) < MaxEvents
  /\ window' = Append(window, [kind |-> kind, session |-> s])

(* The cut-off moves past the oldest row.                                  *)
Slide ==
  /\ window # <<>>
  /\ window' = Tail(window)

Next ==
  \/ \E kind \in Kinds, s \in 1 .. MaxSessions : Ingest(kind, s)
  \/ Slide

Spec == Init /\ [][Next]_window

-----------------------------------------------------------------------------
(* The results of a cycle over the window rows, and the signals it scores. *)
Results(rows) ==
  [t \in Techniques |->
     CASE t = "probing" -> ProbingDetect(rows)
       [] t = "escalation" -> EscalationDetect(rows)
       [] t = "enumeration" -> EnumerationDetect(rows)]

FromDetectorResults(results) == [t \in Techniques |-> results[t].signal]

Fired(results) == {t \in Techniques : results[t].fired}

(* The rows of the window at the positions I, in their order.              *)
Restriction(rows, I) ==
  LET at == InOrder(I) IN [i \in DOMAIN at |-> rows[at[i]]]

-----------------------------------------------------------------------------
(* The thresholds of a detector that fires bound its signal from below.    *)
(* These keep it off what the dampener leaves of a full signal, 0.3, which *)
(* may tie with probing alone, the first in the ranking. The defaults do:  *)
(* 0.305, 0.59 and 0.49.                                                   *)
SeparatingSettings ==
  /\ Weighted(50, AtMost(Unit, Percent(Config.probing_min_cluster_size,
                                       Config.probing_cluster_saturation)),
              20, 0, 30, Config.probing_min_block_rate) >= 30
  /\ Weighted(50, Clamp(Config.escalation_min_rho),
              30, Percent(Config.escalation_min_level_range, 4),
              20, Config.escalation_min_nondec_frac) > 30
  /\ Weighted(40, AtMost(Unit, Percent(Config.enumeration_min_group_size,
                                       Config.enumeration_group_saturation)),
              30, Config.enumeration_min_regularity,
              30, Config.enumeration_min_dominance) > 30

(* "signal: float 0..1": whatever the window holds, every detector returns *)
(* a signal the scorer may weigh, and evidence inside the window.          *)
TypeOK ==
  LET results == Results(window) IN
  /\ window \in Seq(Row)
  /\ FromDetectorResults(results) \in Signals
  /\ \A t \in Techniques : results[t].evidence \subseteq DOMAIN window

(* Three formulas weighted independently of each other, one dampener: the  *)
(* technique an alert names as dominant is one that fired, whenever any    *)
(* did, so an alert never blames a technique without a pattern row.        *)
DominantTechniqueFired ==
  LET results == Results(window) IN
  Fired(results) # {} =>
    DominantPattern(FromDetectorResults(results)) \in Fired(results)

(* The evidence stands on its own: the contributing interactions of a      *)
(* pattern, without the rest of the window, make its detector fire again.  *)
EvidenceStandsAlone ==
  LET results == Results(window)
      evidence(t) == Restriction(window, results[t].evidence)
  IN  \A t \in Fired(results) \ {"probing"} : Results(evidence(t))[t].fired

(* Grown by one row in session s at the end, the window is otherwise as it *)
(* was.                                                                    *)
Grows == Len(window') = Len(window) + 1

(* Traffic that passes the guardrail never raises the probing signal: it   *)
(* can only dilute the block rate, whatever clusters the blocked prompts   *)
(* form.                                                                   *)
PassedPromptOnlyDilutes ==
  Grows /\ Outcome[Last(window').kind] # "blocked" =>
    ProbingDetect(window').signal <= ProbingDetect(window).signal

PassedPromptsNeverRaiseProbing == [][PassedPromptOnlyDilutes]_window

(* "Per-session max denoises within-session chatter": prompts at or below  *)
(* the level their session has reached leave the escalation verdict alone, *)
(* however many follow.                                                    *)
ChatterIsNoEscalation ==
  LET row == Last(window') IN
    /\ Grows
    /\ row.session \in SessionsOf(window)
    /\ Level[row.kind] <= SessionLevel(window, row.session)
    => /\ EscalationDetect(window').signal = EscalationDetect(window).signal
       /\ EscalationDetect(window').fired = EscalationDetect(window).fired

ChatterLeavesEscalation == [][ChatterIsNoEscalation]_window
=============================================================================
