--------------------------- MODULE ProfileUpdates ---------------------------
(***************************************************************************)
(* What one transaction does to a user's risk profile row: a detection     *)
(* cycle (app/detection/orchestrator.py), the admin reset and the admin    *)
(* backdating of last_event_at (app/db/repositories.py).                   *)
(***************************************************************************)
EXTENDS RiskScoring, Sequences

CONSTANT
  Detect(_)  \* the detectors' verdict on a set of interactions, by number

Verdict == [signals : Signals, fired : SUBSET Techniques]

Profile ==
  [score : Stored, signals : Signals, status : Statuses,
   lastEvent : Maybe(Time), lastScored : Maybe(Time),
   sessions : Maybe(Nat), interactions : Maybe(Nat), version : Nat]

Alert == [score : Stored, dominant : Techniques]

ASSUME ProfileAssumption ==
  /\ NULL \notin Techniques \cup Profile
  /\ \A window \in SUBSET Ids : Detect(window) \in Verdict

-----------------------------------------------------------------------------
NextVersion(p) == IF p = NULL THEN 0 ELSE p.version + 1

(* to_profile_update and upsert_risk_profile. The orchestrator passes no   *)
(* expected_version, so the optimistic check never runs.                   *)
UpsertRiskProfile(p, outcome, lastEvent, sessions, interactions) ==
  [score |-> Rounded(outcome.score), signals |-> outcome.signals,
   status |-> outcome.status, lastEvent |-> lastEvent,
   lastScored |-> outcome.scoredAt, sessions |-> sessions,
   interactions |-> interactions, version |-> NextVersion(p)]

(* The scoring of a cycle: no detector runs before an inactivity reset.    *)
CycleVerdict(p, now, window) ==
  IF MustReset(p, now) THEN [signals |-> NoSignals, fired |-> {}]
                       ELSE Detect(window)

CycleOutcome(p, now, window) ==
  Evaluate(p, CycleVerdict(p, now, window).signals, now)

LastEventAfter(p, latest) ==
  IF latest # NULL THEN latest ELSE IF p = NULL THEN NULL ELSE p.lastEvent

(* The row after a cycle that read the row p, the newest interaction time  *)
(* latest, the window and the two row counts.                              *)
CycleProfile(p, now, latest, window, sessions, interactions) ==
  UpsertRiskProfile(p, CycleOutcome(p, now, window),
                    LastEventAfter(p, latest), sessions, interactions)

CyclePatterns(counts, p, now, window) ==
  [t \in Techniques |->
     IF t \in CycleVerdict(p, now, window).fired THEN counts[t] + 1 ELSE counts[t]]

CycleAlerts(feed, p, now, window) ==
  LET outcome == CycleOutcome(p, now, window)
  IN  IF outcome.alert = NULL THEN feed
      ELSE Append(feed, [score |-> Rounded(outcome.score),
                          dominant |-> outcome.alert])

-----------------------------------------------------------------------------
(* The admin reset zeroes the row and leaves last_event_at and the counts  *)
(* alone; for a user without a row it inserts one.                         *)
ResetUserRiskProfile(p, now, latest, sessions, interactions) ==
  IF p = NULL
    THEN UpsertRiskProfile(p, ResetOutcome(now), latest, sessions, interactions)
    ELSE [p EXCEPT !.score = 0, !.signals = NoSignals, !.status = "normal",
                   !.lastScored = now, !.version = NextVersion(p)]

KeepLastEventAt(p, ts) ==  \* mutant: the update leaves the column alone
  IF p = NULL THEN p ELSE [p EXCEPT !.version = NextVersion(p)]

(* Signals the insert leaves NULL are read as 0 everywhere.                *)
SetUserLastEventAt(p, ts) ==
  IF p = NULL
    THEN [score |-> 0, signals |-> NoSignals, status |-> "normal",
          lastEvent |-> ts, lastScored |-> NULL,
          sessions |-> NULL, interactions |-> NULL, version |-> 0]
    ELSE [p EXCEPT !.lastEvent = ts, !.version = NextVersion(p)]
=============================================================================
