---------------------------- MODULE ScoringProofs ----------------------------
(***************************************************************************)
(* What the scorer and the profile updates guarantee for every value of    *)
(* the settings, every decay that only lowers a score and every detector.  *)
(***************************************************************************)
EXTENDS ProfileUpdates, WellFoundedInduction, TLAPS

(* Induction over the naturals, in the form the proofs use.                *)
LEMMA LeastExists ==
  ASSUME NEW T \in SUBSET Nat, T # {}
  PROVE  \E m \in T : \A t \in T : m <= t
<1> DEFINE R == OpToRel(<, Nat)
<1>1. \E x \in T : \A y \in T : ~(<<y, x>> \in R)
  BY NatLessThanWellFounded, WFMin
<1>2. \A x, y \in Nat : ~(<<y, x>> \in R) => x <= y
  BY DEF OpToRel
<1>3. QED
  BY <1>1, <1>2

(* Writing a score finds a storable one, and no other is nearer.           *)
LEMMA RoundedIsNearest ==
  ASSUME NEW s \in 0 .. Cap
  PROVE  Rounded(s) \in Stored /\ Nearest(Rounded(s), s)
BY CommonAssumption, ScoringAssumption DEF Rounded

(* Rounding never takes a score that reached the alert threshold back      *)
(* below it: the threshold itself is storable.                             *)
LEMMA RoundedKeepsThreshold ==
  ASSUME NEW s \in 0 .. Cap, s >= AlertThreshold
  PROVE  Rounded(s) >= AlertThreshold
<1>1. Nearest(Rounded(s), s) /\ Rounded(s) \in 0 .. Cap
  BY RoundedIsNearest, CommonAssumption, ScoringAssumption
<1>2. AlertThreshold \in 0 .. Cap /\ AlertThreshold \in Stored
  BY CommonAssumption, ScoringAssumption
<1>3. Distance(Rounded(s), s) <= Distance(AlertThreshold, s)
  BY <1>1, <1>2 DEF Nearest
<1>4. QED
  BY <1>1, <1>2, <1>3, CommonAssumption, ScoringAssumption DEF Distance

LEMMA ProductIsNatural ==
  ASSUME NEW a \in Nat, NEW b \in Nat
  PROVE  a * b \in Nat
BY SMT

LEMMA InstantaneousScoreIsNatural ==
  ASSUME NEW sig \in Signals
  PROVE  ComputeInstantaneousScore(sig) \in Nat
<1>1. \A t \in Techniques : Weight[t] \in Nat /\ sig[t] \in Nat
  BY CommonAssumption, ScoringAssumption DEF Signals
<1>2. \A t \in Techniques : Weight[t] * sig[t] \in Nat
  BY <1>1, ProductIsNatural
<1>3. {"probing", "escalation", "enumeration"} \subseteq Techniques
  BY DEF Techniques
<1> DEFINE a == Weight["probing"] * sig["probing"]
           b == Weight["escalation"] * sig["escalation"]
           c == Weight["enumeration"] * sig["enumeration"]
<1>4. a \in Nat /\ b \in Nat /\ c \in Nat
  BY <1>2, <1>3
<1>5. ComputeInstantaneousScore(sig) = a + b + c
  BY DEF ComputeInstantaneousScore
<1> HIDE DEF a, b, c
<1>6. QED
  BY <1>4, <1>5

(* The score stays between 0 and the cap, whatever the elapsed time: a     *)
(* negative one (the clock went back) leaves the score undecayed.          *)
LEMMA AccumulateIsCapped ==
  ASSUME NEW prev \in 0 .. Cap, NEW inst \in Nat, NEW dt \in Int, dt <= MaxTime
  PROVE  Accumulate(prev, inst, dt) \in 0 .. Cap
<1>1. DecayFactor(prev, dt) \in 0 .. prev
  <2>1. CASE dt <= 0
    BY <2>1 DEF DecayFactor
  <2>2. CASE ~(dt <= 0)
    <3>1. dt \in 1 .. MaxTime
      BY <2>2, CommonAssumption, ScoringAssumption
    <3>2. QED
      BY <2>2, <3>1, CommonAssumption, ScoringAssumption DEF DecayFactor
  <2>3. QED
    BY <2>1, <2>2
<1>2. QED
  BY <1>1, CommonAssumption, ScoringAssumption DEF Accumulate

-----------------------------------------------------------------------------
LEMMA ResetOutcomeType ==
  ASSUME NEW now \in Time
  PROVE  /\ ResetOutcome(now).score \in 0 .. Cap
         /\ ResetOutcome(now).signals \in Signals
         /\ ResetOutcome(now).status \in Statuses
         /\ ResetOutcome(now).scoredAt = now
         /\ ResetOutcome(now).alert = NULL
<1>1. NoSignals \in Signals
  BY CommonAssumption, ScoringAssumption DEF NoSignals, Signals
<1>2. QED
  BY <1>1, CommonAssumption, ScoringAssumption DEF ResetOutcome, Statuses

LEMMA ScoredOutcomeType ==
  ASSUME NEW p \in Maybe(Profile), NEW sig \in Signals, NEW now \in Time
  PROVE  /\ ScoredOutcome(p, sig, now).score \in 0 .. Cap
         /\ ScoredOutcome(p, sig, now).signals \in Signals
         /\ ScoredOutcome(p, sig, now).status \in Statuses
         /\ ScoredOutcome(p, sig, now).scoredAt = now
         /\ ScoredOutcome(p, sig, now).alert \in Maybe(Techniques)
<1> DEFINE prev == IF p = NULL THEN 0 ELSE p.score
           dt   == IF p = NULL THEN 0
                   ELSE IF p.lastScored = NULL THEN 0 ELSE now - p.lastScored
           inst == ComputeInstantaneousScore(sig)
           new  == Accumulate(prev, inst, dt)
<1>1. prev \in 0 .. Cap
  BY CommonAssumption, ScoringAssumption DEF Maybe, Profile
<1>2. dt \in Int /\ dt <= MaxTime
  BY CommonAssumption, ScoringAssumption DEF Maybe, Profile, Time
<1>3. inst \in Nat
  BY InstantaneousScoreIsNatural
<1> HIDE DEF prev, dt, inst
<1>4. new \in 0 .. Cap
  BY <1>1, <1>2, <1>3, AccumulateIsCapped
<1>5. DominantPattern(sig) \in Techniques
  BY DEF DominantPattern, Techniques
<1>6. DetermineStatus(new) \in Statuses
  BY DEF DetermineStatus, Statuses
<1>7. ScoredOutcome(p, sig, now) =
        [score |-> new, signals |-> sig, status |-> DetermineStatus(new),
         scoredAt |-> now,
         alert |-> IF ShouldCreateAlert(IF p = NULL THEN NULL ELSE p.score, new)
                     THEN DominantPattern(sig) ELSE NULL]
  BY DEF ScoredOutcome, prev, dt, inst, new
<1> HIDE DEF new
<1>8. QED
  BY <1>4, <1>5, <1>6, <1>7 DEF Maybe

LEMMA EvaluateType ==
  ASSUME NEW p \in Maybe(Profile), NEW sig \in Signals, NEW now \in Time
  PROVE  /\ Evaluate(p, sig, now).score \in 0 .. Cap
         /\ Evaluate(p, sig, now).signals \in Signals
         /\ Evaluate(p, sig, now).status \in Statuses
         /\ Evaluate(p, sig, now).scoredAt = now
         /\ Evaluate(p, sig, now).alert \in Maybe(Techniques)
BY ResetOutcomeType, ScoredOutcomeType DEF Evaluate, Maybe

(* An alert of the scorer means that the stored score was below the        *)
(* threshold, that the new one reached it and that the status says so.     *)
LEMMA AlertMeansCrossing ==
  ASSUME NEW p \in Maybe(Profile), NEW sig \in Signals, NEW now \in Time,
         Evaluate(p, sig, now).alert # NULL
  PROVE  /\ p = NULL \/ p.score < AlertThreshold
         /\ Evaluate(p, sig, now).score >= AlertThreshold
         /\ Evaluate(p, sig, now).status = "alerted"
<1>1. Evaluate(p, sig, now) = ScoredOutcome(p, sig, now)
  BY ResetOutcomeType DEF Evaluate
<1>2. ASSUME p # NULL PROVE p.score # NULL
  <2>1. p.score \in Stored
    BY <1>2 DEF Maybe, Profile
  <2>2. \A s \in Stored : s \in Int
    BY CommonAssumption, ScoringAssumption
  <2>3. NULL \notin Int
    BY CommonAssumption, ScoringAssumption
  <2>4. QED
    BY <2>1, <2>2, <2>3
<1> DEFINE o == ScoredOutcome(p, sig, now)
           seen == IF p = NULL THEN NULL ELSE p.score
<1>3. /\ o.alert = IF ShouldCreateAlert(seen, o.score)
                    THEN DominantPattern(sig) ELSE NULL
      /\ o.status = DetermineStatus(o.score)
  BY Zenon DEF ScoredOutcome
<1>4. o.alert # NULL
  BY <1>1
<1> HIDE DEF o, seen
<1>5. ShouldCreateAlert(seen, o.score)
  BY <1>3, <1>4
<1>6. /\ p = NULL \/ p.score < AlertThreshold
      /\ o.score >= AlertThreshold
  BY <1>2, <1>5 DEF ShouldCreateAlert, seen
<1>7. o.status = "alerted"
  BY <1>3, <1>6 DEF DetermineStatus
<1>8. QED
  BY <1>1, <1>6, <1>7 DEF o

-----------------------------------------------------------------------------
LEMMA NextVersionType ==
  ASSUME NEW p \in Maybe(Profile)
  PROVE  NextVersion(p) \in Nat
BY DEF NextVersion, Maybe, Profile

LEMMA UpsertType ==
  ASSUME NEW p \in Maybe(Profile), NEW outcome,
         outcome.score \in 0 .. Cap, outcome.signals \in Signals,
         outcome.status \in Statuses, outcome.scoredAt \in Time,
         NEW last \in Maybe(Time), NEW n \in Nat, NEW m \in Nat
  PROVE  UpsertRiskProfile(p, outcome, last, n, m) \in Profile
BY NextVersionType, RoundedIsNearest DEF UpsertRiskProfile, Profile, Maybe

LEMMA CycleVerdictType ==
  ASSUME NEW p, NEW now, NEW window \in SUBSET Ids
  PROVE  CycleVerdict(p, now, window) \in Verdict
<1>1. NoSignals \in Signals
  BY CommonAssumption, ScoringAssumption DEF NoSignals, Signals
<1>2. QED
  BY <1>1, CommonAssumption, ProfileAssumption DEF CycleVerdict, Verdict

LEMMA CycleOutcomeType ==
  ASSUME NEW p \in Maybe(Profile), NEW now \in Time, NEW window \in SUBSET Ids
  PROVE  /\ CycleOutcome(p, now, window).score \in 0 .. Cap
         /\ CycleOutcome(p, now, window).signals \in Signals
         /\ CycleOutcome(p, now, window).status \in Statuses
         /\ CycleOutcome(p, now, window).scoredAt = now
         /\ CycleOutcome(p, now, window).alert \in Maybe(Techniques)
<1>1. CycleVerdict(p, now, window).signals \in Signals
  BY CycleVerdictType DEF Verdict
<1>2. QED
  BY <1>1, EvaluateType DEF CycleOutcome

(* Every write of a profile row is a well-formed row.                      *)
LEMMA CycleProfileType ==
  ASSUME NEW p \in Maybe(Profile), NEW now \in Time, NEW latest \in Maybe(Time),
         NEW window \in SUBSET Ids, NEW n \in Nat, NEW m \in Nat
  PROVE  CycleProfile(p, now, latest, window, n, m) \in Profile
<1>1. LastEventAfter(p, latest) \in Maybe(Time)
  BY DEF LastEventAfter, Maybe, Profile
<1>2. QED
  BY <1>1, CycleOutcomeType, UpsertType DEF CycleProfile

LEMMA ResetProfileType ==
  ASSUME NEW p \in Maybe(Profile), NEW now \in Time, NEW latest \in Maybe(Time),
         NEW n \in Nat, NEW m \in Nat
  PROVE  ResetUserRiskProfile(p, now, latest, n, m) \in Profile
<1>1. NoSignals \in Signals /\ 0 \in Stored
  BY CommonAssumption, ScoringAssumption DEF NoSignals, Signals
<1>2. CASE p = NULL
  <2>1. UpsertRiskProfile(p, ResetOutcome(now), latest, n, m) \in Profile
    BY ResetOutcomeType, UpsertType
  <2>2. QED
    BY <1>2, <2>1 DEF ResetUserRiskProfile
<1>3. CASE p # NULL
  <2>1. p \in Profile
    BY <1>3 DEF Maybe
  <2>2. QED
    BY <1>1, <1>3, <2>1, NextVersionType
    DEF ResetUserRiskProfile, Profile, Statuses, Maybe
<1>4. QED
  BY <1>2, <1>3

LEMMA BackdateProfileType ==
  ASSUME NEW p \in Maybe(Profile), NEW ts \in Time
  PROVE  SetUserLastEventAt(p, ts) \in Profile
<1>1. NoSignals \in Signals /\ 0 \in Stored
  BY CommonAssumption, ScoringAssumption DEF NoSignals, Signals
<1>2. CASE p = NULL
  BY <1>1, <1>2 DEF SetUserLastEventAt, Profile, Statuses, Maybe
<1>3. CASE p # NULL
  <2>1. p \in Profile
    BY <1>3 DEF Maybe
  <2>2. QED
    BY <1>3, <2>1, NextVersionType DEF SetUserLastEventAt, Profile, Maybe
<1>4. QED
  BY <1>2, <1>3

LEMMA CyclePatternsType ==
  ASSUME NEW counts \in [Techniques -> Nat], NEW p, NEW now, NEW window
  PROVE  CyclePatterns(counts, p, now, window) \in [Techniques -> Nat]
BY DEF CyclePatterns

LEMMA CycleAlertsType ==
  ASSUME NEW feed \in Seq(Alert), NEW p \in Maybe(Profile), NEW now \in Time,
         NEW window \in SUBSET Ids
  PROVE  CycleAlerts(feed, p, now, window) \in Seq(Alert)
<1> DEFINE outcome == CycleOutcome(p, now, window)
<1>1. CASE outcome.alert = NULL
  BY <1>1 DEF CycleAlerts
<1>2. CASE outcome.alert # NULL
  <2>1. [score |-> Rounded(outcome.score), dominant |-> outcome.alert] \in Alert
    BY <1>2, CycleOutcomeType, RoundedIsNearest DEF Alert, Maybe
  <2>2. QED
    BY <1>2, <2>1 DEF CycleAlerts
<1>3. QED
  BY <1>1, <1>2

(* A cycle adds an alert only when it takes the row it read from below the *)
(* threshold to a row that is alerted and whose stored score reached it.   *)
LEMMA CycleAlertMeansCrossing ==
  ASSUME NEW feed \in Seq(Alert), NEW p \in Maybe(Profile), NEW now \in Time,
         NEW latest, NEW n, NEW m, NEW window \in SUBSET Ids,
         CycleAlerts(feed, p, now, window) # feed
  PROVE  /\ p = NULL \/ p.score < AlertThreshold
         /\ CycleProfile(p, now, latest, window, n, m).score >= AlertThreshold
         /\ CycleProfile(p, now, latest, window, n, m).status = "alerted"
<1> DEFINE outcome == CycleOutcome(p, now, window)
<1>1. outcome.alert # NULL
  BY DEF CycleAlerts
<1>2. CycleVerdict(p, now, window).signals \in Signals
  BY CycleVerdictType DEF Verdict
<1>3. /\ p = NULL \/ p.score < AlertThreshold
      /\ outcome.score >= AlertThreshold
      /\ outcome.status = "alerted"
  BY <1>1, <1>2, AlertMeansCrossing DEF CycleOutcome
<1>4. Rounded(outcome.score) >= AlertThreshold
  BY <1>3, CycleOutcomeType, RoundedKeepsThreshold
<1>5. QED
  BY <1>3, <1>4 DEF CycleProfile, UpsertRiskProfile
=============================================================================
