-------------------------- MODULE OperationsProofs --------------------------
(***************************************************************************)
(* Proofs about Operations, for any number of requests, threads, users and *)
(* faults: that an alert carries the threshold its score has crossed, and  *)
(* what a client that pages through the feed while cycles add to it is     *)
(* certain to see. What requests are answered is the matter of             *)
(* RequestProofs.                                                          *)
(***************************************************************************)
EXTENDS RequestProofs, ScoringProofs, TableProofs

-----------------------------------------------------------------------------
(* A threshold the column can hold, or one no score reaches.               *)
Storable(n) == n \in Stored \/ (n \in Nat /\ n > Cap)

LEMMA StoredScores ==
  Cap \in Nat /\ Stored \subseteq 0 .. Cap /\ Stored \subseteq Int /\ NULL \notin Stored
<1>1. Cap \in Nat /\ Stored \subseteq 0 .. Cap
  BY ScoringAssumption
<1>2. NULL \notin Int
  BY CommonAssumption
<1>3. \A n \in 0 .. Cap : n \in Int
  BY <1>1
<1>4. QED
  BY <1>1, <1>2, <1>3

(* Rounding under other settings is the same.                              *)
LEMMA RoundedUnder ==
  ASSUME NEW s, NEW n
  PROVE  Under(s)!Rounded(n) = Rounded(n)
BY DEF Under!Rounded, Rounded, Under!Nearest, Nearest, Under!Distance, Distance

LEMMA RoundedKeeps ==
  ASSUME NEW threshold, Storable(threshold), NEW n \in 0 .. Cap, n >= threshold
  PROVE  Rounded(n) >= threshold /\ threshold \in Stored /\ Rounded(threshold) = threshold
<1>0. Cap \in Nat /\ Stored \subseteq 0 .. Cap
  BY StoredScores
<1>1. threshold \in Stored /\ threshold \in 0 .. Cap
  <2>1. ~(threshold \in Nat /\ threshold > Cap)
    BY <1>0
  <2>2. QED
    BY <1>0, <2>1 DEF Storable
<1>2. Rounded(n) \in Stored /\ Nearest(Rounded(n), n) /\ Rounded(n) \in 0 .. Cap
  BY <1>0, RoundedIsNearest
<1>3. Distance(Rounded(n), n) <= Distance(threshold, n)
  BY <1>1, <1>2 DEF Nearest
<1>4. Rounded(n) >= threshold
  BY <1>0, <1>1, <1>2, <1>3 DEF Distance
<1>5. Rounded(threshold) \in 0 .. Cap /\ Nearest(Rounded(threshold), threshold)
  BY <1>0, <1>1, RoundedIsNearest
<1>6. Distance(Rounded(threshold), threshold) <= Distance(threshold, threshold)
  BY <1>1, <1>5 DEF Nearest
<1>7. Rounded(threshold) = threshold
  BY <1>0, <1>1, <1>5, <1>6 DEF Distance
<1>8. QED
  BY <1>1, <1>4, <1>7

(* The scorer's parts that read no setting an operator may change.         *)
LEMMA SameScorer ==
  ASSUME NEW s
  PROVE  /\ Under(s)!NoSignals = NoSignals
         /\ \A sig : Under(s)!ComputeInstantaneousScore(sig) = ComputeInstantaneousScore(sig)
         /\ \A prev, inst, dt : Under(s)!Accumulate(prev, inst, dt) = Accumulate(prev, inst, dt)
         /\ \A sig : Under(s)!DominantPattern(sig) = DominantPattern(sig)
<1>1. Under(s)!NoSignals = NoSignals
  BY DEF Under!NoSignals, NoSignals, Under!Techniques, Techniques
<1>2. ASSUME NEW sig
      PROVE  Under(s)!ComputeInstantaneousScore(sig) = ComputeInstantaneousScore(sig)
  BY DEF Under!ComputeInstantaneousScore, ComputeInstantaneousScore
<1>3. ASSUME NEW prev, NEW inst, NEW dt
      PROVE  Under(s)!Accumulate(prev, inst, dt) = Accumulate(prev, inst, dt)
  BY DEF Under!Accumulate, Accumulate, Under!DecayFactor, DecayFactor
<1>4. ASSUME NEW sig
      PROVE  Under(s)!DominantPattern(sig) = DominantPattern(sig)
  BY DEF Under!DominantPattern, DominantPattern
<1>5. QED
  BY <1>1, <1>2, <1>3, <1>4

(* An outcome scored under the settings s from the row p.                  *)
SoundOutcome(o, s, p, now) ==
  /\ o.score \in 0 .. Cap /\ o.signals \in Signals
  /\ o.status \in Statuses /\ o.scoredAt = now /\ o.alert \in Maybe(Techniques)
  /\ o.alert # NULL => /\ p = NULL \/ p.score < s["alert_threshold"]
                       /\ o.score >= s["alert_threshold"]

(* A scoring cycle under any settings gives a score within the cap, and an *)
(* alert only where it takes the score over the threshold of the settings. *)
LEMMA ScoredUnder ==
  ASSUME NEW s, NEW p \in Maybe(Profile), NEW sig \in Signals, NEW now \in Time,
         NEW o, o = Under(s)!ScoredOutcome(p, sig, now)
  PROVE  SoundOutcome(o, s, p, now)
<1> DEFINE prev == IF p = NULL THEN 0 ELSE p.score
           dt   == IF p = NULL THEN 0
                   ELSE IF p.lastScored = NULL THEN 0 ELSE now - p.lastScored
           inst == ComputeInstantaneousScore(sig)
           new  == Accumulate(prev, inst, dt)
           seen == IF p = NULL THEN NULL ELSE p.score
<1>1. prev \in 0 .. Cap
  BY CommonAssumption, ScoringAssumption DEF Maybe, Profile
<1>2. dt \in Int /\ dt <= MaxTime
  BY CommonAssumption, ScoringAssumption DEF Maybe, Profile, Time
<1>3. inst \in Nat
  BY InstantaneousScoreIsNatural
<1>4. o = [score |-> new, signals |-> sig, status |-> Under(s)!DetermineStatus(new),
           scoredAt |-> now,
           alert |-> IF Under(s)!ShouldCreateAlert(seen, new)
                       THEN DominantPattern(sig) ELSE NULL]
  <2>1. PICK sum : sum = Under(s)!Accumulate(prev, Under(s)!ComputeInstantaneousScore(sig), dt)
    OBVIOUS
  <2>2. sum = new
    BY <2>1, SameScorer
  <2>3. o = [score |-> sum, signals |-> sig, status |-> Under(s)!DetermineStatus(sum),
             scoredAt |-> now,
             alert |-> IF Under(s)!ShouldCreateAlert(seen, sum)
                         THEN Under(s)!DominantPattern(sig) ELSE NULL]
    BY <2>1, Zenon DEF Under!ScoredOutcome
  <2>4. QED
    BY <2>2, <2>3, SameScorer
<1>5. p # NULL => p.score # NULL /\ p.score = seen
  <2>1. p # NULL => p.score \in Stored
    BY DEF Maybe, Profile
  <2>2. QED
    BY <2>1, StoredScores
<1> HIDE DEF prev, dt, inst, seen
<1>6. new \in 0 .. Cap
  BY <1>1, <1>2, <1>3, AccumulateIsCapped
<1> HIDE DEF new
<1>7. Under(s)!DetermineStatus(new) \in Statuses
  BY DEF Under!DetermineStatus, Statuses
<1>8. DominantPattern(sig) \in Techniques
  BY DEF DominantPattern, Techniques
<1>9. /\ o.score = new /\ o.signals = sig /\ o.scoredAt = now
      /\ o.status = Under(s)!DetermineStatus(new)
      /\ o.alert = IF Under(s)!ShouldCreateAlert(seen, new)
                     THEN DominantPattern(sig) ELSE NULL
  BY <1>4
<1>10. o.alert # NULL => /\ p = NULL \/ p.score < s["alert_threshold"]
                         /\ o.score >= s["alert_threshold"]
  BY <1>5, <1>9 DEF Under!ShouldCreateAlert
<1>11. QED
  BY <1>6, <1>7, <1>8, <1>9, <1>10 DEF Maybe, SoundOutcome

LEMMA OutcomeUnder ==
  ASSUME NEW s, NEW p \in Maybe(Profile), NEW now \in Time, NEW window \in SUBSET Ids,
         NEW o, o = Under(s)!CycleOutcome(p, now, window)
  PROVE  SoundOutcome(o, s, p, now)
<1>1. PICK sig : sig = Under(s)!CycleVerdict(p, now, window).signals
  OBVIOUS
<1>2. NoSignals \in Signals
  BY ScoringAssumption DEF NoSignals, Signals
<1>3. sig \in Signals
  <2>1. Detect(window).signals \in Signals
    BY ProfileAssumption DEF Verdict
  <2>2. QED
    BY <1>1, <1>2, <2>1, SameScorer DEF Under!CycleVerdict
<1>4. o = Under(s)!Evaluate(p, sig, now)
  BY <1>1 DEF Under!CycleOutcome
<1>5. CASE o = Under(s)!ScoredOutcome(p, sig, now)
  BY <1>3, <1>5, ScoredUnder
<1>6. CASE o = Under(s)!ResetOutcome(now)
  <2>1. o = [score |-> 0, signals |-> NoSignals, status |-> "normal",
             scoredAt |-> now, alert |-> NULL]
    BY <1>6, SameScorer DEF Under!ResetOutcome
  <2>2. 0 \in 0 .. Cap
    BY ScoringAssumption
  <2>3. QED
    BY <1>2, <2>1, <2>2 DEF Maybe, Statuses, SoundOutcome
<1>7. QED
  BY <1>4, <1>5, <1>6 DEF Under!Evaluate

(* What a cycle writes under the settings s.                               *)
LEMMA CycleUnder ==
  ASSUME NEW s, Storable(s["alert_threshold"]),
         NEW p \in Maybe(Profile), NEW now \in Time, NEW latest \in Maybe(Time),
         NEW window \in SUBSET Ids, NEW n \in Nat, NEW m \in Nat,
         NEW row, row = Under(s)!CycleProfile(p, now, latest, window, n, m),
         NEW drafts, drafts = Under(s)!CycleAlerts(<<>>, p, now, window)
  PROVE  /\ row \in Profile
         /\ drafts # <<>> =>
              /\ drafts[1].score = row.score /\ drafts[1].dominant \in Techniques
              /\ p = NULL \/ p.score < s["alert_threshold"]
              /\ s["alert_threshold"] <= row.score
              /\ s["alert_threshold"] \in Stored
              /\ Rounded(s["alert_threshold"]) = s["alert_threshold"]
<1>1. PICK o : o = Under(s)!CycleOutcome(p, now, window)
  OBVIOUS
<1>2. /\ o.score \in 0 .. Cap /\ o.signals \in Signals
      /\ o.status \in Statuses /\ o.scoredAt = now /\ o.alert \in Maybe(Techniques)
      /\ o.alert # NULL => /\ p = NULL \/ p.score < s["alert_threshold"]
                           /\ o.score >= s["alert_threshold"]
  <2>1. SoundOutcome(o, s, p, now)
    BY <1>1, OutcomeUnder
  <2>2. QED
    BY <2>1 DEF SoundOutcome
<1>3. PICK last : last = Under(s)!LastEventAfter(p, latest)
  OBVIOUS
<1>4. last \in Maybe(Time)
  BY <1>3 DEF Under!LastEventAfter, Maybe, Profile
<1>5. row = [score |-> Rounded(o.score), signals |-> o.signals,
             status |-> o.status, lastEvent |-> last,
             lastScored |-> o.scoredAt, sessions |-> n,
             interactions |-> m, version |-> NextVersion(p)]
  <2>1. Under(s)!NextVersion(p) = NextVersion(p)
    BY DEF Under!NextVersion, NextVersion
  <2>2. QED
    BY <1>1, <1>3, <2>1, RoundedUnder DEF Under!CycleProfile, Under!UpsertRiskProfile
<1>6. Rounded(o.score) \in Stored
  BY <1>2, RoundedIsNearest
<1>7. row \in Profile
  BY <1>2, <1>4, <1>5, <1>6, NextVersionType DEF Profile, Maybe
<1>8. drafts = IF o.alert = NULL THEN <<>>
               ELSE Append(<<>>, [score |-> Rounded(o.score), dominant |-> o.alert])
  BY <1>1, RoundedUnder DEF Under!CycleAlerts
<1>9. ASSUME drafts # <<>>
      PROVE  /\ o.alert # NULL
             /\ drafts[1] = [score |-> Rounded(o.score), dominant |-> o.alert]
  BY <1>8, <1>9
<1>10. ASSUME drafts # <<>>
       PROVE  /\ drafts[1].score = row.score /\ drafts[1].dominant \in Techniques
              /\ p = NULL \/ p.score < s["alert_threshold"]
              /\ s["alert_threshold"] <= row.score
              /\ s["alert_threshold"] \in Stored
              /\ Rounded(s["alert_threshold"]) = s["alert_threshold"]
  <2>1. drafts[1].score = row.score /\ drafts[1].dominant \in Techniques
    BY <1>2, <1>5, <1>9, <1>10 DEF Maybe
  <2>2. /\ p = NULL \/ p.score < s["alert_threshold"]
        /\ o.score >= s["alert_threshold"]
    BY <1>2, <1>9, <1>10
  <2>3. /\ Rounded(o.score) >= s["alert_threshold"] /\ s["alert_threshold"] \in Stored
        /\ Rounded(s["alert_threshold"]) = s["alert_threshold"]
    BY <1>2, <2>2, RoundedKeeps
  <2>4. s["alert_threshold"] <= row.score
    <3>1. row.score = Rounded(o.score)
      BY <1>5
    <3>2. Rounded(o.score) \in Int /\ s["alert_threshold"] \in Int
      BY <1>6, <2>3, StoredScores
    <3>3. QED
      BY <2>3, <3>1, <3>2
  <2>5. QED
    BY <2>1, <2>2, <2>3, <2>4
<1>11. QED
  BY <1>7, <1>10

-----------------------------------------------------------------------------
(* What cycles read and write, and the thresholds they are given.          *)
ScoreTypes ==
  /\ clock \in Time
  /\ sessions \in [Users -> Seq(SessionRow)]
  /\ interactions \in [Users -> Seq(InteractionRow)]
  /\ queue \in [Users -> Nat]
  /\ job \in [Workers -> Maybe(Job)]
  /\ profile \in [Users -> Maybe(Profile)]
  /\ feed \in Seq(AlertRow)

RowsFit ==
  \A u \in Users : /\ Len(sessions[u]) <= Len(interactions[u])
                   /\ Len(interactions[u]) <= MaxEvents

OverrideStorable ==
  "alert_threshold" \in DOMAIN overrides => Storable(overrides["alert_threshold"])

JobsStorable ==
  \A w \in Workers : job[w] # NULL => Storable(job[w].settings["alert_threshold"])

ScoreInv == ScoreTypes /\ RowsFit /\ OverrideStorable /\ JobsStorable

LEMMA InitScoreInv == Init => ScoreInv
<1> SUFFICES ASSUME Init PROVE ScoreInv
  OBVIOUS
<1>1. /\ sessions = [u \in Users |-> <<>>] /\ interactions = [u \in Users |-> <<>>]
  BY DEF Init, Tables!Init
<1>2. clock \in Time
  BY CommonAssumption DEF Init, Time
<1>3. ScoreTypes
  BY <1>1, <1>2 DEF Init, FeedInit, ScoreTypes, Maybe
<1>4. RowsFit
  BY <1>1, CommonAssumption DEF RowsFit
<1>5. OverrideStorable /\ JobsStorable
  BY DEF Init, ConfigInit, OverrideStorable, JobsStorable
<1>6. QED
  BY <1>3, <1>4, <1>5 DEF ScoreInv

LEMMA ScoreStutter ==
  ASSUME ScoreInv,
         UNCHANGED <<clock, sessions, interactions, queue, job, profile, feed, overrides>>
  PROVE  ScoreInv'
BY DEF ScoreInv, ScoreTypes, RowsFit, OverrideStorable, JobsStorable

(* A thread takes up a cycle or gives it up.                               *)
LEMMA JobScoreStep ==
  ASSUME ScoreInv, NEW w \in Workers, NEW x,
         \/ x = NULL
         \/ x \in Job /\ Storable(x.settings["alert_threshold"]),
         job' = [job EXCEPT ![w] = x], queue' \in [Users -> Nat],
         UNCHANGED <<clock, sessions, interactions, profile, feed, overrides>>
  PROVE  ScoreInv'
<1>1. job' \in [Workers -> Maybe(Job)] /\ job'[w] = x
      /\ \A v \in Workers \ {w} : job'[v] = job[v]
  BY DEF ScoreInv, ScoreTypes, Maybe
<1>2. ScoreTypes'
  BY <1>1 DEF ScoreInv, ScoreTypes
<1>3. JobsStorable'
  BY <1>1 DEF ScoreInv, JobsStorable
<1>4. QED
  BY <1>2, <1>3 DEF ScoreInv, RowsFit, OverrideStorable

LEMMA SettingsStorable ==
  ASSUME ScoreInv
  PROVE  /\ Storable(Env["alert_threshold"])
         /\ Storable(EffectiveSettings["alert_threshold"])
<1>1. Storable(Env["alert_threshold"]) /\ "alert_threshold" \in Fields
  BY OperationsAssumption, ScoringAssumption DEF Storable
<1>2. QED
  BY <1>1 DEF EffectiveSettings, ScoreInv, OverrideStorable

LEMMA StartScoreStep ==
  ASSUME ScoreInv, ConfigTypes, NEW w \in Workers, NEW u \in Users,
         StartCycle(w, u) \/ StartRecompute(w, u)
  PROVE  ScoreInv'
<1>1. clock \in Time /\ queue \in [Users -> Nat]
  BY DEF ScoreInv, ScoreTypes
<1>2. EffectiveSettings \in Settings /\ Env \in Settings /\ AnsweredPuts \in SUBSET Puts
  BY MergedSettings, ConfigAssumption DEF AnsweredPuts, Settings
<1>3. CASE StartCycle(w, u)
  <2>1. PICK x : x = [user |-> u, kind |-> "detect", now |-> clock, settings |-> Env,
                      known |-> AnsweredPuts]
    OBVIOUS
  <2>2. x \in Job /\ Storable(x.settings["alert_threshold"])
    BY <1>1, <1>2, <2>1, SettingsStorable DEF Job
  <2>3. queue' \in [Users -> Nat]
    <3>1. queue[u] \in Nat /\ queue[u] > 0 /\ queue' = [queue EXCEPT ![u] = @ - 1]
      BY <1>1, <1>3 DEF StartCycle
    <3>2. queue[u] - 1 \in Nat
      BY <3>1
    <3>3. QED
      BY <1>1, <3>1, <3>2
  <2>4. /\ job' = [job EXCEPT ![w] = x]
        /\ UNCHANGED <<clock, sessions, interactions, profile, feed, overrides>>
    BY <1>3, <2>1 DEF StartCycle, tableVars, configVars, feedVars
  <2>5. QED
    BY <2>2, <2>3, <2>4, JobScoreStep
<1>4. CASE StartRecompute(w, u)
  <2>1. PICK x : x = [user |-> u, kind |-> "recompute", now |-> clock,
                      settings |-> EffectiveSettings, known |-> AnsweredPuts]
    OBVIOUS
  <2>2. x \in Job /\ Storable(x.settings["alert_threshold"])
    BY <1>1, <1>2, <2>1, SettingsStorable DEF Job
  <2>3. /\ job' = [job EXCEPT ![w] = x] /\ queue' = queue
        /\ UNCHANGED <<clock, sessions, interactions, profile, feed, overrides>>
    BY <1>4, <2>1 DEF StartRecompute, tableVars, configVars, feedVars
  <2>4. QED
    BY <1>1, <2>2, <2>3, JobScoreStep
<1>5. QED
  BY <1>3, <1>4

(* An event is stored whole.                                               *)
LEMMA WithEventTypes ==
  ASSUME NEW ses \in Seq(SessionRow), NEW s, NEW ts \in Time
  PROVE  /\ WithEvent(ses, s, ts) \in Seq(SessionRow)
         /\ Len(WithEvent(ses, s, ts)) <= Len(ses) + 1
<1>1. CASE s \in DOMAIN ses
  <2>1. PICK old : old = ses[s]
    OBVIOUS
  <2>2. old \in SessionRow /\ old.interactionCount \in Nat
    <3>1. old \in SessionRow
      BY <1>1, <2>1
    <3>2. QED
      BY <3>1 DEF SessionRow
  <2>3. PICK n \in Nat : n = old.interactionCount + 1
    BY <2>2
  <2>4. PICK row : row = [ses[s] EXCEPT !.lastEventAt = ts, !.interactionCount = @ + 1]
    OBVIOUS
  <2>5. row \in SessionRow
    <3>1. row = [old EXCEPT !.lastEventAt = ts, !.interactionCount = n]
      BY <2>1, <2>2, <2>3, <2>4 DEF SessionRow
    <3>2. QED
      BY <2>2, <3>1 DEF SessionRow
  <2>6. WithEvent(ses, s, ts) = [ses EXCEPT ![s] = row]
    <3>1. s \in 1 .. Len(ses) /\ ses[s] \in SessionRow
      BY <1>1
    <3>2. QED
      BY <1>1, <2>4, <3>1 DEF WithEvent, SessionRow
  <2>7. QED
    BY <1>1, <2>5, <2>6
<1>2. CASE s \notin DOMAIN ses
  <2>1. PICK row : row = [startedAt |-> ts, lastEventAt |-> ts, interactionCount |-> 1]
    OBVIOUS
  <2>2. row \in SessionRow
    BY <2>1 DEF SessionRow
  <2>3. WithEvent(ses, s, ts) = Append(ses, row)
    BY <1>2, <2>1 DEF WithEvent
  <2>4. QED
    BY <2>2, <2>3
<1>3. QED
  BY <1>1, <1>2

LEMMA StoreScoreStep ==
  ASSUME ScoreInv, NEW u \in Users, StoreEvent(u)
  PROVE  ScoreInv'
<1>1. /\ sessions[u] \in Seq(SessionRow) /\ interactions[u] \in Seq(InteractionRow)
      /\ clock \in Time /\ queue \in [Users -> Nat]
      /\ Len(sessions[u]) <= Len(interactions[u]) /\ Len(interactions[u]) < MaxEvents
  BY DEF ScoreInv, ScoreTypes, RowsFit, StoreEvent
<1>2. PICK s : s = ResolveOrCreateSession(sessions[u], 0, clock)
  OBVIOUS
<1>3. s \in Ids
  <2>1. s \in 1 .. Len(sessions[u]) + 1
    BY <1>1, <1>2, SessionOfEventType
  <2>2. Len(sessions[u]) \in Nat /\ Len(interactions[u]) \in Nat /\ MaxEvents \in Nat
    BY <1>1, CommonAssumption
  <2>3. QED
    BY <1>1, <2>1, <2>2 DEF Ids
<1>4. /\ sessions' = [sessions EXCEPT ![u] = WithEvent(sessions[u], s, clock)]
      /\ interactions' = [interactions EXCEPT ![u] =
           Append(interactions[u], [ts |-> clock, session |-> s])]
      /\ queue' = [queue EXCEPT ![u] = @ + 1]
      /\ UNCHANGED <<clock, job, profile, feed, overrides>>
  <2>1. Tables!ResolveOrCreateSession(sessions[u], 0, clock) = s
    BY <1>2 DEF Tables!ResolveOrCreateSession, ResolveOrCreateSession
  <2>2. Tables!WithEvent(sessions[u], s, clock) = WithEvent(sessions[u], s, clock)
    BY DEF Tables!WithEvent, WithEvent
  <2>3. Tables!StoreEvent(u, 0, clock)
    BY DEF StoreEvent
  <2>4. QED
    BY <2>1, <2>2, <2>3 DEF Tables!StoreEvent, StoreEvent, scoreVars, configVars, feedVars
<1>5. PICK new : new = WithEvent(sessions[u], s, clock)
  OBVIOUS
<1>6. new \in Seq(SessionRow) /\ Len(new) <= Len(sessions[u]) + 1
  BY <1>1, <1>5, WithEventTypes
<1>7. PICK more : more = Append(interactions[u], [ts |-> clock, session |-> s])
  OBVIOUS
<1>8. more \in Seq(InteractionRow) /\ Len(more) = Len(interactions[u]) + 1
  <2>1. [ts |-> clock, session |-> s] \in InteractionRow
    BY <1>1, <1>3 DEF InteractionRow
  <2>2. QED
    BY <1>1, <1>7, <2>1
<1>9. /\ sessions' \in [Users -> Seq(SessionRow)] /\ sessions'[u] = new
      /\ interactions' \in [Users -> Seq(InteractionRow)] /\ interactions'[u] = more
      /\ \A v \in Users \ {u} : sessions'[v] = sessions[v] /\ interactions'[v] = interactions[v]
  BY <1>4, <1>5, <1>6, <1>7, <1>8 DEF ScoreInv, ScoreTypes
<1>10. ScoreTypes'
  <2>1. queue' \in [Users -> Nat]
    BY <1>1, <1>4
  <2>2. QED
    BY <1>4, <1>9, <2>1 DEF ScoreInv, ScoreTypes
<1>11. RowsFit'
  <2>1. /\ Len(new) \in Nat /\ Len(sessions[u]) \in Nat /\ Len(interactions[u]) \in Nat
        /\ MaxEvents \in Nat
    BY <1>1, <1>6, CommonAssumption
  <2>2. Len(sessions'[u]) <= Len(interactions'[u]) /\ Len(interactions'[u]) <= MaxEvents
    BY <1>1, <1>6, <1>8, <1>9, <2>1
  <2>3. QED
    BY <1>9, <2>2 DEF ScoreInv, RowsFit
<1>12. QED
  BY <1>4, <1>10, <1>11 DEF ScoreInv, OverrideStorable, JobsStorable

(* The commit of a cycle: its row and its alert are about one score, which *)
(* the row before was below the threshold of.                              *)
Crossing(row) ==
  /\ profile[row.user] = NULL \/ profile[row.user].score < row.threshold
  /\ profile'[row.user].score = row.score
  /\ row.threshold <= row.score

LEMMA RunScoreStep ==
  ASSUME ScoreInv, NEW w \in Workers, RunCycle(w)
  PROVE  /\ ScoreInv'
         /\ feed' = feed \/ \E row \in AlertRow : feed' = Append(feed, row) /\ Crossing(row)
<1>1. PICK u, now, s : u = job[w].user /\ now = job[w].now /\ s = job[w].settings
  OBVIOUS
<1>2. u \in Users /\ now \in Time /\ Storable(s["alert_threshold"])
  <2>1. job[w] # NULL /\ job[w] \in Maybe(Job)
    BY DEF RunCycle, ScoreInv, ScoreTypes
  <2>2. job[w] \in Job
    BY <2>1 DEF Maybe
  <2>3. QED
    BY <1>1, <2>1, <2>2 DEF Job, ScoreInv, JobsStorable
<1>3. /\ sessions[u] \in Seq(SessionRow) /\ interactions[u] \in Seq(InteractionRow)
      /\ Len(interactions[u]) <= MaxEvents /\ profile[u] \in Maybe(Profile)
      /\ profile \in [Users -> Maybe(Profile)] /\ feed \in Seq(AlertRow)
  BY <1>2 DEF ScoreInv, ScoreTypes, RowsFit
<1>4. PICK p, window, latest, n, m :
        /\ p = profile[u] /\ window = Window(u, now)
        /\ latest = GetLatestUserEventAt(interactions[u])
        /\ n = Len(sessions[u]) /\ m = Len(interactions[u])
  OBVIOUS
<1>5. /\ window \in SUBSET Ids /\ latest \in Maybe(Time) /\ n \in Nat /\ m \in Nat
      /\ p \in Maybe(Profile)
  BY <1>3, <1>4, WindowType, LatestEventType DEF Window
<1>6. PICK row, drafts : /\ row = Under(s)!CycleProfile(p, now, latest, window, n, m)
                         /\ drafts = Under(s)!CycleAlerts(<<>>, p, now, window)
  OBVIOUS
<1>7. /\ row \in Profile
      /\ drafts # <<>> =>
           /\ drafts[1].score = row.score /\ drafts[1].dominant \in Techniques
           /\ p = NULL \/ p.score < s["alert_threshold"]
           /\ s["alert_threshold"] <= row.score
           /\ s["alert_threshold"] \in Stored
           /\ Rounded(s["alert_threshold"]) = s["alert_threshold"]
  BY <1>2, <1>5, <1>6, CycleUnder
<1>8. /\ profile' = [profile EXCEPT ![u] = row]
      /\ feed' = IF drafts = <<>> THEN feed
                 ELSE CreateAlert(feed, u, now, drafts[1], s["alert_threshold"])
      /\ job' = [job EXCEPT ![w] = NULL]
      /\ UNCHANGED <<clock, sessions, interactions, queue, overrides>>
  BY <1>1, <1>4, <1>6 DEF RunCycle, ThresholdOf, tableVars, configVars
<1>9. /\ profile' \in [Users -> Maybe(Profile)] /\ profile'[u] = row
  BY <1>2, <1>3, <1>7, <1>8 DEF Maybe
<1>10. job' \in [Workers -> Maybe(Job)]
       /\ \A v \in Workers : job'[v] # NULL => job'[v] = job[v]
  BY <1>8 DEF ScoreInv, ScoreTypes, Maybe
<1>11. feed' = feed \/ \E a \in AlertRow : feed' = Append(feed, a) /\ Crossing(a)
  <2>1. CASE drafts = <<>>
    BY <1>8, <2>1
  <2>2. CASE drafts # <<>>
    <3>1. PICK a : a = [user |-> u, at |-> now, score |-> drafts[1].score,
                        threshold |-> s["alert_threshold"],
                        dominant |-> drafts[1].dominant, status |-> "open"]
      OBVIOUS
    <3>2. feed' = Append(feed, a)
      BY <1>7, <1>8, <2>2, <3>1 DEF CreateAlert
    <3>3. row.score \in Stored
      BY <1>7 DEF Profile
    <3>4. a \in AlertRow
      BY <1>2, <1>7, <2>2, <3>1, <3>3 DEF AlertRow, AlertStatuses
    <3>5. Crossing(a)
      BY <1>4, <1>7, <1>9, <2>2, <3>1 DEF Crossing
    <3>6. QED
      BY <3>2, <3>4, <3>5
  <2>3. QED
    BY <2>1, <2>2
<1>12. feed' \in Seq(AlertRow)
  BY <1>3, <1>11
<1>13. ScoreTypes'
  BY <1>8, <1>9, <1>10, <1>12 DEF ScoreInv, ScoreTypes
<1>14. RowsFit' /\ OverrideStorable' /\ JobsStorable'
  BY <1>8, <1>10 DEF ScoreInv, RowsFit, OverrideStorable, JobsStorable
<1>15. QED
  BY <1>11, <1>13, <1>14 DEF ScoreInv

-----------------------------------------------------------------------------
(* The requests.                                                           *)
LEMMA UpdateScoreStep ==
  ASSUME ScoreInv, ConfigTypes, NEW p \in Puts, UpdateOverrides(p),
         UNCHANGED <<clock, sessions, interactions, queue, job, profile, feed>>
  PROVE  ScoreInv'
<1>1. /\ put[p].body \in Bodies
      /\ \A f \in DOMAIN put[p].body : overrides'[f] = put[p].body[f]
      /\ \A f \in DOMAIN overrides' \ DOMAIN put[p].body :
           f \in DOMAIN overrides /\ overrides'[f] = overrides[f]
  BY UpdateTypes DEF ConfigTypes
<1>2. OverrideStorable'
  <2>1. CASE "alert_threshold" \in DOMAIN put[p].body
    <3>1. PICK v : v = put[p].body["alert_threshold"]
      OBVIOUS
    <3>2. v \in Nat /\ (v \in Stored \/ v > Cap)
      <4>1. v \in Stored \/ v > Cap
        BY <1>1, <2>1, <3>1, BodyAssumption
      <4>2. put[p].body \in [DOMAIN put[p].body -> Nat]
        BY <1>1, ConfigAssumption
      <4>3. QED
        BY <2>1, <3>1, <4>1, <4>2
    <3>3. overrides'["alert_threshold"] = v
      BY <1>1, <2>1, <3>1
    <3>4. QED
      BY <3>2, <3>3 DEF OverrideStorable, Storable
  <2>2. CASE "alert_threshold" \notin DOMAIN put[p].body
    BY <1>1, <2>2 DEF ScoreInv, OverrideStorable
  <2>3. QED
    BY <2>1, <2>2
<1>3. QED
  BY <1>2 DEF ScoreInv, ScoreTypes, RowsFit, JobsStorable

LEMMA PatchScoreStep ==
  ASSUME ScoreInv, PatchTypes, NEW p \in Patches, CommitPatch(p),
         UNCHANGED <<clock, sessions, interactions, queue, job, profile, overrides>>
  PROVE  /\ ScoreInv'
         /\ DOMAIN feed' = DOMAIN feed
<1>1. feed \in Seq(AlertRow)
  BY DEF ScoreInv, ScoreTypes
<1>2. patch[p].alert \in DOMAIN feed /\ patch[p].asked \in AlertStatuses
  BY DEF PatchTypes, CommitPatch
<1>3. PICK row : row = [feed[patch[p].alert] EXCEPT !.status = patch[p].asked]
  OBVIOUS
<1>4. row \in AlertRow
  <2>1. feed[patch[p].alert] \in AlertRow
    BY <1>1, <1>2
  <2>2. QED
    BY <1>2, <1>3, <2>1 DEF AlertRow
<1>5. feed' = feed \/ feed' = [feed EXCEPT ![patch[p].alert] = row]
  <2>1. feed[patch[p].alert] \in AlertRow
    BY <1>1, <1>2
  <2>2. QED
    BY <1>3, <2>1 DEF CommitPatch, AlertRow
<1>6. feed' \in Seq(AlertRow) /\ DOMAIN feed' = DOMAIN feed
  BY <1>1, <1>2, <1>4, <1>5
<1>7. QED
  BY <1>6 DEF ScoreInv, ScoreTypes, RowsFit, OverrideStorable, JobsStorable

LEMMA RestartScoreStep ==
  ASSUME ScoreInv, Restart
  PROVE  ScoreInv' /\ feed' = feed
<1>1. /\ queue' = [u \in Users |-> 0] /\ job' = [w \in Workers |-> NULL]
      /\ overrides' = [f \in {} |-> 0]
      /\ UNCHANGED <<clock, sessions, interactions, profile, feed>>
  BY DEF Restart, ForgetOverrides, DropRequests, tableVars
<1>2. ScoreTypes'
  BY <1>1 DEF ScoreInv, ScoreTypes, Maybe
<1>3. RowsFit' /\ OverrideStorable' /\ JobsStorable'
  BY <1>1 DEF ScoreInv, RowsFit, OverrideStorable, JobsStorable
<1>4. QED
  BY <1>1, <1>2, <1>3 DEF ScoreInv

(* Every step keeps the types, and adds an alert only with its crossing.   *)
LEMMA ScoreStep ==
  ASSUME ScoreInv, ConfigTypes, PatchTypes, [Next]_vars
  PROVE  /\ ScoreInv'
         /\ \/ DOMAIN feed' = DOMAIN feed
            \/ \E row \in AlertRow : feed' = Append(feed, row) /\ Crossing(row)
<1> DEFINE Result ==
      /\ ScoreInv'
      /\ \/ DOMAIN feed' = DOMAIN feed
         \/ \E row \in AlertRow : feed' = Append(feed, row) /\ Crossing(row)
<1>0. ASSUME UNCHANGED <<clock, sessions, interactions, queue, job, profile, feed, overrides>>
      PROVE  Result
  BY <1>0, ScoreStutter
<1>1. CASE UNCHANGED vars
  BY <1>0, <1>1 DEF vars, tableVars, scoreVars, configVars, feedVars
<1>2. CASE Tick
  <2>1. clock \in Time /\ clock < MaxTime /\ clock' = clock + 1
    BY <1>2 DEF Tick, ScoreInv, ScoreTypes
  <2>2. clock' \in Time
    BY <2>1, CommonAssumption DEF Time
  <2>3. UNCHANGED <<sessions, interactions, queue, job, profile, feed, overrides>>
    BY <1>2 DEF Tick, tableVars, scoreVars, configVars, feedVars
  <2>4. QED
    BY <2>2, <2>3 DEF ScoreInv, ScoreTypes, RowsFit, OverrideStorable, JobsStorable
<1>3. CASE Restart
  BY <1>3, RestartScoreStep
<1>4. ASSUME NEW u \in Users, StoreEvent(u) PROVE Result
  BY <1>4, StoreScoreStep DEF StoreEvent, feedVars
<1>5. ASSUME NEW w \in Workers, RunCycle(w) PROVE Result
  BY <1>5, RunScoreStep
<1>6. ASSUME NEW w \in Workers, FailCycle(w) PROVE Result
  <2>1. /\ job' = [job EXCEPT ![w] = NULL]
        /\ UNCHANGED <<clock, sessions, interactions, queue, profile, feed, overrides>>
    BY <1>6 DEF FailCycle, tableVars, configVars, feedVars
  <2>2. queue' \in [Users -> Nat]
    BY <2>1 DEF ScoreInv, ScoreTypes
  <2>3. QED
    BY <2>1, <2>2, JobScoreStep
<1>7. ASSUME NEW w \in Workers, NEW u \in Users, StartCycle(w, u) \/ StartRecompute(w, u)
      PROVE  Result
  <2>1. feed' = feed
    BY <1>7 DEF StartCycle, StartRecompute, feedVars
  <2>2. QED
    BY <1>7, <2>1, StartScoreStep
<1>8. CASE Request
  <2>1. ASSUME NEW p \in Puts, NEW body \in Bodies, ReceivePut(p, body),
               UNCHANGED <<clock, tableVars, queue, scoreVars, recomputes, faults, feedVars>>
        PROVE  Result
    BY <1>0, <2>1 DEF ReceivePut, tableVars, scoreVars, feedVars
  <2>2. ASSUME \/ \E r \in Readers, filter \in Filters : BeginListing(r, filter)
               \/ \E p \in Patches, i \in DOMAIN feed, status \in AlertStatuses :
                    LoadAlert(p, i, status),
               UNCHANGED <<clock, tableVars, queue, scoreVars, recomputes, faults, configVars>>
        PROVE  Result
    BY <1>0, <2>2 DEF BeginListing, LoadAlert, tableVars, scoreVars, configVars
  <2>3. QED
    BY <1>7, <1>8, <2>1, <2>2 DEF Request
<1>9. CASE /\ ConfigStep
           /\ UNCHANGED <<clock, tableVars, queue, scoreVars, recomputes, faults, feedVars>>
  <2>1. UNCHANGED <<clock, sessions, interactions, queue, job, profile, feed>>
    BY <1>9 DEF tableVars, scoreVars, feedVars
  <2>2. ASSUME NEW p \in Puts, UpdateOverrides(p) PROVE Result
    BY <2>1, <2>2, UpdateScoreStep
  <2>3. ASSUME NEW p \in Puts, RefusePut(p) \/ AnswerPut(p) PROVE Result
    BY <1>0, <2>1, <2>3 DEF RefusePut, AnswerPut
  <2>4. QED
    BY <1>9, <2>2, <2>3 DEF ConfigStep
<1>10. CASE /\ FeedStep
            /\ UNCHANGED <<clock, tableVars, queue, scoreVars, recomputes, faults, configVars>>
  <2>1. UNCHANGED <<clock, sessions, interactions, queue, job, profile, overrides>>
    BY <1>10 DEF tableVars, scoreVars, configVars
  <2>2. ASSUME NEW p \in Patches, CommitPatch(p) PROVE Result
    BY <2>1, <2>2, PatchScoreStep
  <2>3. CASE feed' = feed
    BY <1>0, <2>1, <2>3
  <2>4. QED
    BY <1>10, <2>2, <2>3 DEF FeedStep, CountAlerts, ReadPage, FlushPatch, AnswerPatch
<1>11. QED
  BY <1>1, <1>2, <1>3, <1>4, <1>5, <1>6, <1>7, <1>8, <1>9, <1>10 DEF Next

-----------------------------------------------------------------------------
(* The clients that read the feed, and how much there has been of each     *)
(* kind of traffic.                                                        *)
ReaderTypes == reader \in [Readers -> ReaderState]

LoadInv == ReaderTypes /\ WithinLoads /\ faults \in 0 .. MaxFaults

(* No step makes a request new again, and only a request or an event is    *)
(* new before.                                                             *)
NoneAsked ==
  /\ interactions' = interactions
  /\ recomputes' = recomputes
  /\ \A p \in Puts : put'[p].stage = "new" <=> put[p].stage = "new"
  /\ \A r \in Readers : reader'[r].stage = "new" <=> reader[r].stage = "new"
  /\ \A p \in Patches : patch'[p].stage = "new" <=> patch[p].stage = "new"

LEMMA LoadsStay ==
  ASSUME WithinLoads, NoneAsked
  PROVE  WithinLoads'
<1>1. /\ {p \in Puts : put'[p].stage # "new"} = {p \in Puts : put[p].stage # "new"}
      /\ {r \in Readers : reader'[r].stage # "new"} = {r \in Readers : reader[r].stage # "new"}
      /\ {p \in Patches : patch'[p].stage # "new"} = {p \in Patches : patch[p].stage # "new"}
  BY DEF NoneAsked
<1>2. Requests' = Requests
  BY <1>1 DEF NoneAsked, Requests
<1>3. QED
  BY <1>2 DEF WithinLoads

LEMMA InitLoadInv == Init => LoadInv
<1> SUFFICES ASSUME Init PROVE LoadInv
  OBVIOUS
<1>1. ReaderTypes
  BY DEF Init, FeedInit, ReaderTypes, ReaderState, Maybe
<1>2. faults \in 0 .. MaxFaults
  BY OperationsAssumption DEF Init
<1>3. /\ {u \in Users : interactions[u] # <<>>} = {}
      /\ {p \in Puts : put[p].stage # "new"} = {}
      /\ {r \in Readers : reader[r].stage # "new"} = {}
      /\ {p \in Patches : patch[p].stage # "new"} = {}
  BY DEF Init, Tables!Init, ConfigInit, FeedInit
<1>4. Requests = [users |-> 0, recomputes |-> 0, puts |-> 0, readers |-> 0, patches |-> 0]
  BY <1>3, FS_EmptySet DEF Requests, Init
<1>5. PICK load \in Loads : load \in [{"users", "recomputes", "puts", "readers", "patches"} -> Nat]
  BY OperationsAssumption
<1>6. \A k \in DOMAIN load : Requests[k] = 0 /\ load[k] \in Nat
  BY <1>4, <1>5
<1>7. WithinLoads
  BY <1>5, <1>6 DEF WithinLoads
<1>8. QED
  BY <1>1, <1>2, <1>7 DEF LoadInv

LEMMA MatchingCount ==
  ASSUME feed \in Seq(AlertRow), NEW filter
  PROVE  Matching(filter) \in SUBSET Nat /\ Cardinality(Matching(filter)) \in Nat
<1>1. Len(feed) \in Nat /\ DOMAIN feed = 1 .. Len(feed)
  OBVIOUS
<1>2. IsFiniteSet(1 .. Len(feed))
  BY <1>1, FS_Interval
<1>3. Matching(filter) \subseteq 1 .. Len(feed)
  BY <1>1 DEF Matching
<1>4. IsFiniteSet(Matching(filter))
  BY <1>2, <1>3, FS_Subset
<1>5. QED
  BY <1>1, <1>3, <1>4, FS_CardinalityType

LEMMA ReaderStep ==
  ASSUME ReaderTypes, NEW r \in Readers, NEW x \in ReaderState,
         reader' = [reader EXCEPT ![r] = x],
         x.stage # "new", reader[r].stage # "new"
  PROVE  /\ ReaderTypes'
         /\ \A q \in Readers : reader'[q].stage = "new" <=> reader[q].stage = "new"
BY DEF ReaderTypes

LEMMA CountStep ==
  ASSUME ReaderTypes, feed \in Seq(AlertRow), NEW r \in Readers, CountAlerts(r)
  PROVE  /\ ReaderTypes'
         /\ \A q \in Readers : reader'[q].stage = "new" <=> reader[q].stage = "new"
<1>1. reader[r] \in ReaderState /\ reader[r].stage = "asking"
  BY DEF ReaderTypes, CountAlerts
<1>2. PICK n : n = Cardinality(Matching(reader[r].filter))
  OBVIOUS
<1>3. PICK x : x = [reader[r] EXCEPT !.stage = "counted", !.total = n]
  OBVIOUS
<1>4. n \in Nat
  BY <1>2, MatchingCount
<1>5. x \in ReaderState /\ x.stage # "new"
  BY <1>1, <1>3, <1>4 DEF ReaderState
<1>6. reader' = [reader EXCEPT ![r] = x]
  BY <1>1, <1>2, <1>3 DEF CountAlerts, ReaderTypes, ReaderState
<1>7. QED
  BY <1>1, <1>5, <1>6, ReaderStep

LEMMA PageStep ==
  ASSUME ReaderTypes, feed \in Seq(AlertRow), NEW r \in Readers, ReadPage(r)
  PROVE  /\ ReaderTypes'
         /\ \A q \in Readers : reader'[q].stage = "new" <=> reader[q].stage = "new"
<1>1. reader[r] \in ReaderState /\ reader[r].stage = "counted"
  BY DEF ReaderTypes, ReadPage
<1>2. PICK s \in Orders(Matching(reader[r].filter)) :
        reader' = [reader EXCEPT ![r] =
          [reader[r] EXCEPT
             !.stage = IF Cardinality(Page(s, PageSize, reader[r].offset)) < PageSize
                         THEN "done" ELSE "asking",
             !.offset = IF Cardinality(Page(s, PageSize, reader[r].offset)) < PageSize
                          THEN @ ELSE @ + PageSize,
             !.page = Page(s, PageSize, reader[r].offset),
             !.seen = @ \cup Page(s, PageSize, reader[r].offset)]]
  BY DEF ReadPage
<1>3. PICK items : items = Page(s, PageSize, reader[r].offset)
  OBVIOUS
<1>4. items \in SUBSET Nat
  <2>1. s \in [1 .. Cardinality(Matching(reader[r].filter)) -> Matching(reader[r].filter)]
    BY DEF Orders, SetToSeqs
  <2>2. \A k \in DOMAIN s : s[k] \in Nat
    BY <2>1, MatchingCount
  <2>3. QED
    BY <1>3, <2>2 DEF Page
<1>5. PICK stage, offset :
        /\ stage = IF Cardinality(items) < PageSize THEN "done" ELSE "asking"
        /\ offset = IF Cardinality(items) < PageSize THEN reader[r].offset
                    ELSE reader[r].offset + PageSize
  OBVIOUS
<1>6. offset \in Nat /\ stage \in {"done", "asking"}
  <2>1. reader[r].offset \in Nat /\ PageSize \in Nat
    BY <1>1, FeedAssumption DEF ReaderState
  <2>2. QED
    BY <1>5, <2>1
<1>7. PICK x : x = [reader[r] EXCEPT !.stage = stage, !.offset = offset,
                                     !.page = items, !.seen = @ \cup items]
  OBVIOUS
<1>8. x \in ReaderState /\ x.stage # "new"
  BY <1>1, <1>4, <1>6, <1>7 DEF ReaderState
<1>9. reader' = [reader EXCEPT ![r] = x]
  BY <1>1, <1>2, <1>3, <1>5, <1>7 DEF ReaderState
<1>10. QED
  BY <1>1, <1>8, <1>9, ReaderStep

LEMMA BeginStep ==
  ASSUME ReaderTypes, feed \in Seq(AlertRow), NEW r \in Readers, NEW filter \in Filters,
         BeginListing(r, filter)
  PROVE  ReaderTypes'
<1>1. reader[r] \in ReaderState
  BY DEF ReaderTypes
<1>2. PICK x : x = [reader[r] EXCEPT !.stage = "asking", !.filter = filter,
                                     !.before = Matching(filter)]
  OBVIOUS
<1>3. x \in ReaderState
  BY <1>1, <1>2, MatchingCount DEF ReaderState, Maybe
<1>4. reader' = [reader EXCEPT ![r] = x]
  BY <1>1, <1>2 DEF BeginListing, ReaderTypes, ReaderState
<1>5. QED
  BY <1>3, <1>4 DEF ReaderTypes

LEMMA LoadUnchanged ==
  ASSUME LoadInv, UNCHANGED <<interactions, recomputes, put, reader, patch>>, faults' \in 0 .. MaxFaults
  PROVE  LoadInv'
<1>1. NoneAsked
  BY DEF NoneAsked
<1>2. QED
  BY <1>1, LoadsStay DEF LoadInv, ReaderTypes

LEMMA MoreFaults ==
  ASSUME faults \in 0 .. MaxFaults, faults < MaxFaults, faults' = faults + 1
  PROVE  faults' \in 0 .. MaxFaults
BY OperationsAssumption

LEMMA RestartLoadStep ==
  ASSUME LoadInv, ConfigTypes, PatchTypes, Restart
  PROVE  LoadInv'
<1>1. faults' \in 0 .. MaxFaults
  BY MoreFaults DEF LoadInv, Restart
<1>2. \A p \in Puts : put'[p].stage = "new" <=> put[p].stage = "new"
  BY DEF Restart, ForgetOverrides, ConfigTypes, PutRequest
<1>3. \A p \in Patches : patch'[p].stage = "new" <=> patch[p].stage = "new"
  <2>1. \A p \in Patches : patch[p] \in PatchRequest
    BY DEF PatchTypes
  <2>2. ASSUME NEW p \in Patches
        PROVE  patch'[p].stage = "new" <=> patch[p].stage = "new"
    <3>1. CASE patch[p].stage = "committed"
      <4>1. patch'[p] = [patch[p] EXCEPT !.stage = "unanswered"]
        BY <3>1 DEF Restart, DropRequests
      <4>2. QED
        BY <2>1, <3>1, <4>1 DEF PatchRequest
    <3>2. CASE patch[p].stage \in {"loaded", "flushed"}
      <4>1. patch'[p] = [patch[p] EXCEPT !.stage = "lost"]
        BY <3>2 DEF Restart, DropRequests
      <4>2. QED
        BY <2>1, <3>2, <4>1 DEF PatchRequest
    <3>3. CASE patch[p].stage \notin {"committed", "loaded", "flushed"}
      BY <3>3 DEF Restart, DropRequests
    <3>4. QED
      BY <3>1, <3>2, <3>3
  <2>3. QED
    BY <2>2
<1>4. /\ ReaderTypes'
      /\ \A r \in Readers : reader'[r].stage = "new" <=> reader[r].stage = "new"
  <2>1. reader' = [r \in Readers |->
          IF reader[r].stage = "counted" THEN [reader[r] EXCEPT !.stage = "asking"]
                                         ELSE reader[r]]
    BY DEF Restart, DropRequests
  <2>2. \A r \in Readers :
          /\ reader'[r] \in ReaderState
          /\ reader'[r].stage = "new" <=> reader[r].stage = "new"
    BY <2>1 DEF LoadInv, ReaderTypes, ReaderState
  <2>3. QED
    BY <2>1, <2>2 DEF ReaderTypes
<1>5. NoneAsked
  BY <1>2, <1>3, <1>4 DEF NoneAsked, Restart, tableVars
<1>6. QED
  BY <1>1, <1>4, <1>5, LoadsStay DEF LoadInv

LEMMA ConfigLoadStep ==
  ASSUME LoadInv, ConfigTypes, ConfigStep,
         UNCHANGED <<interactions, recomputes, reader, patch, faults>>
  PROVE  LoadInv'
<1>1. PICK p \in Puts : RefusePut(p) \/ UpdateOverrides(p) \/ AnswerPut(p)
  BY DEF ConfigStep
<1>2. \A q \in Puts \ {p} : put'[q] = put[q]
  BY <1>1, RequestSteps
<1>3. put[p].stage # "new" /\ put'[p].stage # "new"
  BY <1>1, NewStage
<1>4. NoneAsked
  BY <1>2, <1>3 DEF NoneAsked
<1>5. QED
  BY <1>4, LoadsStay DEF LoadInv, ReaderTypes

LEMMA PatchLoadStep ==
  ASSUME LoadInv, PatchTypes, NEW p \in Patches,
         FlushPatch(p) \/ CommitPatch(p) \/ AnswerPatch(p),
         UNCHANGED <<interactions, recomputes, put, faults>>
  PROVE  LoadInv'
<1>1. patch[p] \in PatchRequest /\ patch \in [Patches -> PatchRequest]
  BY DEF PatchTypes
<1>2. reader' = reader
  BY DEF FlushPatch, CommitPatch, AnswerPatch
<1>3. /\ \A q \in Patches \ {p} : patch'[q] = patch[q]
      /\ patch[p].stage # "new" /\ patch'[p].stage # "new"
  <2>1. CASE FlushPatch(p)
    BY <1>1, <2>1 DEF FlushPatch, PatchRequest
  <2>2. CASE CommitPatch(p)
    BY <1>1, <2>2 DEF CommitPatch, PatchRequest
  <2>3. CASE AnswerPatch(p)
    BY <1>1, <2>3 DEF AnswerPatch, PatchRequest
  <2>4. QED
    BY <2>1, <2>2, <2>3
<1>4. NoneAsked
  BY <1>2, <1>3 DEF NoneAsked
<1>5. QED
  BY <1>2, <1>4, LoadsStay DEF LoadInv, ReaderTypes

LEMMA BoundsStep ==
  ASSUME LoadInv, ScoreInv, ConfigTypes, PatchTypes, [Next]_vars
  PROVE  LoadInv'
<1>1. feed \in Seq(AlertRow) /\ ReaderTypes /\ faults \in 0 .. MaxFaults
  BY DEF ScoreInv, ScoreTypes, LoadInv
<1>2. ASSUME UNCHANGED <<interactions, recomputes, put, reader, patch, faults>>
      PROVE  LoadInv'
  BY <1>1, <1>2, LoadUnchanged
<1>3. CASE Tick \/ UNCHANGED vars
  BY <1>2, <1>3 DEF Tick, vars, tableVars, configVars, feedVars
<1>4. CASE \E w \in Workers : RunCycle(w) \/ \E u \in Users : StartCycle(w, u)
  BY <1>2, <1>4 DEF RunCycle, StartCycle, tableVars, configVars, feedVars
<1>5. ASSUME NEW w \in Workers, FailCycle(w) PROVE LoadInv'
  BY <1>1, <1>5, LoadUnchanged, MoreFaults DEF FailCycle, tableVars, configVars, feedVars
<1>6. CASE Restart
  BY <1>6, RestartLoadStep
<1>7. CASE Request /\ WithinLoads'
  <2>1. faults' = faults
    BY <1>7 DEF Request, StartRecompute
  <2>2. CASE reader' = reader
    BY <1>1, <1>7, <2>1, <2>2 DEF LoadInv, ReaderTypes
  <2>3. CASE \E r \in Readers, filter \in Filters : BeginListing(r, filter)
    BY <1>1, <1>7, <2>1, <2>3, BeginStep DEF LoadInv
  <2>4. reader' = reader \/ \E r \in Readers, filter \in Filters : BeginListing(r, filter)
    BY <1>7 DEF Request, StartRecompute, LoadAlert, feedVars
  <2>5. QED
    BY <2>2, <2>3, <2>4
<1>8. CASE /\ ConfigStep
           /\ UNCHANGED <<clock, tableVars, queue, scoreVars, recomputes, faults, feedVars>>
  BY <1>8, ConfigLoadStep DEF tableVars, feedVars
<1>9. CASE /\ FeedStep
           /\ UNCHANGED <<clock, tableVars, queue, scoreVars, recomputes, faults, configVars>>
  <2>1. UNCHANGED <<interactions, recomputes, faults, put>>
    BY <1>9 DEF tableVars, configVars
  <2>2. ASSUME NEW r \in Readers, CountAlerts(r) \/ ReadPage(r) PROVE LoadInv'
    <3>1. /\ ReaderTypes'
          /\ \A q \in Readers : reader'[q].stage = "new" <=> reader[q].stage = "new"
      BY <1>1, <2>2, CountStep, PageStep
    <3>2. patch' = patch
      BY <2>2 DEF CountAlerts, ReadPage
    <3>3. NoneAsked
      BY <2>1, <3>1, <3>2 DEF NoneAsked
    <3>4. QED
      BY <2>1, <3>1, <3>3, LoadsStay DEF LoadInv
  <2>3. ASSUME NEW p \in Patches, FlushPatch(p) \/ CommitPatch(p) \/ AnswerPatch(p)
        PROVE  LoadInv'
    BY <2>1, <2>3, PatchLoadStep
  <2>4. QED
    BY <1>9, <2>2, <2>3 DEF FeedStep
<1>10. CASE (\E u \in Users : StoreEvent(u)) /\ WithinLoads'
  BY <1>1, <1>10 DEF StoreEvent, feedVars, LoadInv, ReaderTypes
<1>11. QED
  BY <1>3, <1>4, <1>5, <1>6, <1>7, <1>8, <1>9, <1>10 DEF Next

-----------------------------------------------------------------------------
LEMMA AllInvAlways ==
  /\ Spec => [](ScoreInv /\ LoadInv /\ ConfigInv /\ PatchInv)
  /\ ScoreInv /\ LoadInv /\ ConfigInv /\ PatchInv => TypeOK
<1> DEFINE Inv == ScoreInv /\ LoadInv /\ ConfigInv /\ JobInv /\ PatchInv
<1>1. Init => Inv
  BY InitScoreInv, InitLoadInv, InitConfigInv, InitPatchInv
<1>2. Inv /\ [Next]_vars => Inv'
  <2> SUFFICES ASSUME Inv, [Next]_vars PROVE Inv'
    OBVIOUS
  <2>1. ConfigTypes /\ PatchTypes
    BY DEF ConfigInv, PatchInv
  <2>2. ScoreInv' /\ LoadInv'
    BY <2>1, ScoreStep, BoundsStep
  <2>3. QED
    BY <2>2, OperationsStep, PatchSteps
<1>3. ScoreInv /\ LoadInv /\ ConfigInv /\ PatchInv => TypeOK
  BY DEF ScoreInv, ScoreTypes, LoadInv, ReaderTypes, ConfigInv, ConfigTypes,
         PatchInv, PatchTypes, TypeOK
<1>4. Spec => [](ScoreInv /\ LoadInv /\ ConfigInv /\ PatchInv)
  BY <1>1, <1>2, PTL DEF Spec
<1>5. QED
  BY <1>3, <1>4

(* Types, for any requests, users, settings and detectors: every alert row *)
(* carries a threshold and a score the column can hold.                    *)
THEOREM OperationsTypes == Spec => []TypeOK
BY AllInvAlways, PTL

(* Under any settings, changed at any time by any requests: an alert row   *)
(* is written together with the score that takes its user across the       *)
(* threshold the row carries.                                              *)
THEOREM AlertsCross == Spec => AlertsCrossTheirThreshold
<1> DEFINE Inv == ScoreInv /\ LoadInv /\ ConfigInv /\ PatchInv
<1>1. Spec => []Inv
  BY AllInvAlways
<1>2. ASSUME Inv, [Next]_vars
      PROVE  [\A i \in DOMAIN feed' \ DOMAIN feed :
                LET row == feed'[i] IN
                /\ profile[row.user] = NULL \/ profile[row.user].score < row.threshold
                /\ profile'[row.user].score = row.score
                /\ row.threshold <= row.score]_vars
  <2>1. ConfigTypes /\ PatchTypes /\ feed \in Seq(AlertRow)
    BY <1>2 DEF ConfigInv, PatchInv, ScoreInv, ScoreTypes
  <2>2. \/ DOMAIN feed' = DOMAIN feed
        \/ \E row \in AlertRow : feed' = Append(feed, row) /\ Crossing(row)
    BY <1>2, <2>1, ScoreStep
  <2>3. ASSUME NEW i \in DOMAIN feed' \ DOMAIN feed
        PROVE  Crossing(feed'[i])
    <3>1. PICK row \in AlertRow : feed' = Append(feed, row) /\ Crossing(row)
      BY <2>2, <2>3
    <3>2. feed'[i] = row
      BY <2>1, <2>3, <3>1
    <3>3. QED
      BY <3>1, <3>2
  <2>4. QED
    BY <2>3 DEF Crossing
<1>3. QED
  BY <1>1, <1>2, PTL DEF Spec, AlertsCrossTheirThreshold

-----------------------------------------------------------------------------
(* Readers. What a filter selects, and what is listed before an alert      *)
(* whatever the order of equal times.                                      *)
Selected(rows, filter) == {i \in DOMAIN rows : Passes(filter, rows[i])}
NewerThan(rows, filter, i) == {j \in Selected(rows, filter) : rows[j].at > rows[i].at}
Tied(rows, i) == \E j \in DOMAIN rows \ {i} : rows[j].at = rows[i].at

(* A client q that reads without a status filter. An alert it is to see    *)
(* and has not seen is still ahead of it: no fewer alerts than it has gone *)
(* past are newer. Nothing leaves the list, so the total is still there.   *)
ReadsSoundly(q, rows) ==
  q.stage # "new" /\ q.filter.status = NULL =>
    /\ q.before \subseteq Selected(rows, q.filter)
    /\ \A i \in q.before \ q.seen :
         \/ Tied(rows, i)
         \/ q.stage # "done" /\ q.offset <= Cardinality(NewerThan(rows, q.filter, i))
    /\ q.stage = "counted" => q.total <= Cardinality(Selected(rows, q.filter))
    /\ q.stage = "done" => q.offset + Cardinality(q.page) >= q.total

ReadersSound == \A r \in Readers : ReadsSoundly(reader[r], feed)

LEMMA SelectedFinite ==
  ASSUME NEW rows \in Seq(AlertRow), NEW filter
  PROVE  /\ Selected(rows, filter) \subseteq 1 .. Len(rows)
         /\ IsFiniteSet(Selected(rows, filter))
         /\ Cardinality(Selected(rows, filter)) \in Nat
         /\ \A i : /\ IsFiniteSet(NewerThan(rows, filter, i))
                   /\ Cardinality(NewerThan(rows, filter, i)) \in Nat
<1>1. Len(rows) \in Nat /\ DOMAIN rows = 1 .. Len(rows)
  OBVIOUS
<1>2. IsFiniteSet(1 .. Len(rows))
  BY <1>1, FS_Interval
<1>3. Selected(rows, filter) \subseteq 1 .. Len(rows)
  BY <1>1 DEF Selected
<1>4. \A i : NewerThan(rows, filter, i) \in SUBSET (1 .. Len(rows))
  BY <1>3 DEF NewerThan
<1>5. \A T \in SUBSET (1 .. Len(rows)) : IsFiniteSet(T) /\ Cardinality(T) \in Nat
  BY <1>2, FS_Subset, FS_CardinalityType
<1>6. QED
  BY <1>3, <1>4, <1>5

(* Rows are added; what is ordered and filtered by, but for the status,    *)
(* never changes.                                                          *)
RowsKept(rows, later) ==
  /\ DOMAIN rows \subseteq DOMAIN later
  /\ \A i \in DOMAIN rows : later[i].at = rows[i].at /\ later[i].user = rows[i].user

LEMMA GrowingList ==
  ASSUME NEW rows \in Seq(AlertRow), NEW later \in Seq(AlertRow), RowsKept(rows, later),
         NEW filter, filter.status = NULL
  PROVE  /\ Selected(rows, filter) \subseteq Selected(later, filter)
         /\ Cardinality(Selected(rows, filter)) <= Cardinality(Selected(later, filter))
         /\ \A i \in DOMAIN rows :
              /\ Cardinality(NewerThan(rows, filter, i))
                   <= Cardinality(NewerThan(later, filter, i))
              /\ Tied(rows, i) => Tied(later, i)
<1>1. Selected(rows, filter) \subseteq Selected(later, filter)
  BY DEF RowsKept, Selected, Passes
<1>2. \A i \in DOMAIN rows : NewerThan(rows, filter, i) \subseteq NewerThan(later, filter, i)
  BY <1>1 DEF RowsKept, NewerThan, Selected
<1>3. \A i \in DOMAIN rows : Tied(rows, i) => Tied(later, i)
  BY DEF RowsKept, Tied
<1>4. /\ Cardinality(Selected(rows, filter)) <= Cardinality(Selected(later, filter))
      /\ \A i \in DOMAIN rows :
           Cardinality(NewerThan(rows, filter, i)) <= Cardinality(NewerThan(later, filter, i))
  BY <1>1, <1>2, SelectedFinite, FS_Subset
<1>5. QED
  BY <1>1, <1>3, <1>4

LEMMA ReaderWaits ==
  ASSUME NEW rows \in Seq(AlertRow), NEW later \in Seq(AlertRow), RowsKept(rows, later),
         NEW q \in ReaderState, ReadsSoundly(q, rows)
  PROVE  ReadsSoundly(q, later)
<1> SUFFICES ASSUME q.stage # "new" /\ q.filter.status = NULL
             PROVE  ReadsSoundly(q, later)
  BY DEF ReadsSoundly
<1>1. q.offset \in Nat /\ q.total \in Nat
  BY DEF ReaderState
<1>2. q.before \subseteq Selected(rows, q.filter) /\ q.before \subseteq DOMAIN rows
  BY DEF ReadsSoundly, Selected
<1>3. q.before \subseteq Selected(later, q.filter)
  BY <1>2, GrowingList
<1>4. ASSUME NEW i \in q.before \ q.seen
      PROVE  \/ Tied(later, i)
             \/ q.stage # "done" /\ q.offset <= Cardinality(NewerThan(later, q.filter, i))
  <2>1. \/ Tied(rows, i)
        \/ q.stage # "done" /\ q.offset <= Cardinality(NewerThan(rows, q.filter, i))
    BY DEF ReadsSoundly
  <2>2. i \in DOMAIN rows
    BY <1>2
  <2>3. QED
    BY <1>1, <2>1, <2>2, GrowingList, SelectedFinite
<1>5. q.stage = "counted" => q.total <= Cardinality(Selected(later, q.filter))
  BY <1>1, GrowingList, SelectedFinite DEF ReadsSoundly
<1>6. QED
  BY <1>3, <1>4, <1>5 DEF ReadsSoundly

-----------------------------------------------------------------------------
(* A list of n rows: each once, newest first.                              *)
IsOrder(s, rows, M) ==
  /\ s \in Injection(1 .. Cardinality(M), M)
  /\ \A j, k \in 1 .. Cardinality(M) : j < k => rows[s[j]].at >= rows[s[k]].at

(* What a page holds, and that it is short only at the end.                *)
LEMMA PageSizes ==
  ASSUME NEW M, IsFiniteSet(M), NEW s \in Injection(1 .. Cardinality(M), M),
         NEW offset \in Nat, NEW limit \in Nat
  PROVE  LET n == Cardinality(Page(s, limit, offset)) IN
         /\ n \in Nat
         /\ n = IF Cardinality(M) <= offset THEN 0
                ELSE IF Cardinality(M) >= offset + limit THEN limit
                ELSE Cardinality(M) - offset
<1>1. PICK n : n = Cardinality(M)
  OBVIOUS
<1>2. n \in Nat /\ DOMAIN s = 1 .. n /\ s \in [1 .. n -> M]
  BY <1>1, FS_CardinalityType DEF Injection
<1>3. PICK top : top = IF n <= offset + limit THEN n ELSE offset + limit
  OBVIOUS
<1>4. top \in Nat
  BY <1>2, <1>3
<1>5. PICK D : D = offset + 1 .. top
  OBVIOUS
<1>6. DOMAIN s \cap (offset + 1 .. offset + limit) = D
  BY <1>2, <1>3, <1>4, <1>5
<1>7. IsFiniteSet(D) /\ Cardinality(D) = IF offset + 1 > top THEN 0 ELSE top - offset
  BY <1>4, <1>5, FS_Interval
<1>8. PICK P : P = Page(s, limit, offset)
  OBVIOUS
<1>9. P = {s[k] : k \in D}
  BY <1>6, <1>8 DEF Page
<1>10. PICK g : g = [k \in D |-> s[k]]
  OBVIOUS
<1>11. g \in Bijection(D, P)
  <2>1. \A j, k \in 1 .. n : s[j] = s[k] => j = k
    BY <1>1 DEF Injection, IsInjective
  <2>2. D \subseteq 1 .. n
    BY <1>2, <1>6
  <2>3. g \in [D -> P] /\ \A t \in P : \E k \in D : g[k] = t
    BY <1>9, <1>10
  <2>4. \A j, k \in D : g[j] = g[k] => j = k
    BY <1>10, <2>1, <2>2
  <2>5. QED
    BY <2>3, <2>4 DEF Bijection, Injection, Surjection, IsInjective
<1>12. Cardinality(P) = Cardinality(D)
  BY <1>7, <1>11, FS_Bijection DEF ExistsBijection
<1>13. QED
  BY <1>1, <1>2, <1>3, <1>4, <1>7, <1>8, <1>12

(* An alert that is no other's equal in time comes after the newer ones.   *)
LEMMA PlaceInOrder ==
  ASSUME NEW rows \in Seq(AlertRow), NEW filter,
         NEW s, IsOrder(s, rows, Selected(rows, filter)),
         NEW i \in Selected(rows, filter), ~Tied(rows, i)
  PROVE  LET n == Cardinality(NewerThan(rows, filter, i)) IN
         n + 1 \in 1 .. Cardinality(Selected(rows, filter)) /\ s[n + 1] = i
<1>1. PICK M, n : M = Selected(rows, filter) /\ n = Cardinality(M)
  OBVIOUS
<1>2. IsFiniteSet(M) /\ n \in Nat /\ M \subseteq 1 .. Len(rows) /\ M \subseteq DOMAIN rows
  BY <1>1, SelectedFinite
<1>3. /\ s \in [1 .. n -> M] /\ \A j, k \in 1 .. n : s[j] = s[k] => j = k
      /\ \A j, k \in 1 .. n : j < k => rows[s[j]].at >= rows[s[k]].at
  BY <1>1 DEF IsOrder, Injection, IsInjective
<1>4. \A j \in DOMAIN rows : rows[j].at \in Int
  <2>1. \A j \in DOMAIN rows : rows[j] \in AlertRow
    OBVIOUS
  <2>2. QED
    BY <2>1 DEF AlertRow, Time
<1>5. PICK k \in 1 .. n : s[k] = i
  <2>1. s \in Injection(1 .. n, M) /\ IsFiniteSet(1 .. n) /\ Cardinality(1 .. n) = n
    BY <1>1, <1>2, FS_Interval DEF IsOrder
  <2>2. s \in Surjection(1 .. n, M)
    BY <1>1, <1>2, <2>1, FS_Injection
  <2>3. QED
    BY <1>1, <2>2 DEF Surjection
<1>6. PICK before : before = 1 .. k - 1
  OBVIOUS
<1>7. IsFiniteSet(before) /\ Cardinality(before) = k - 1 /\ before \subseteq 1 .. n
  <2>1. k \in Nat /\ k - 1 \in Nat /\ k >= 1 /\ k <= n
    BY <1>2, <1>5
  <2>2. IsFiniteSet(1 .. k - 1) /\ Cardinality(1 .. k - 1) = IF 1 > k - 1 THEN 0 ELSE k - 1 - 1 + 1
    BY <2>1, FS_Interval
  <2>3. Cardinality(before) = k - 1
    BY <1>6, <2>1, <2>2
  <2>4. before \subseteq 1 .. n
    BY <1>2, <1>6, <2>1
  <2>5. QED
    BY <1>6, <2>2, <2>3, <2>4
<1>8. PICK N : N = NewerThan(rows, filter, i)
  OBVIOUS
<1>9. N = {s[j] : j \in before}
  <2>1. ASSUME NEW j \in before PROVE s[j] \in N
    <3>1. j \in 1 .. n /\ j < k /\ s[j] \in M /\ s[j] \in DOMAIN rows
      BY <1>2, <1>3, <1>5, <1>6
    <3>2. rows[s[j]].at >= rows[i].at /\ s[j] # i
      BY <1>3, <1>5, <3>1
    <3>3. rows[s[j]].at # rows[i].at
      BY <3>1, <3>2 DEF Tied
    <3>4. QED
      BY <1>1, <1>2, <1>4, <1>8, <3>1, <3>2, <3>3 DEF NewerThan
  <2>2. ASSUME NEW x \in N PROVE \E j \in before : s[j] = x
    <3>1. x \in M /\ rows[x].at > rows[i].at
      BY <1>1, <1>8 DEF NewerThan
    <3>2. PICK j \in 1 .. n : s[j] = x
      <4>1. s \in Injection(1 .. n, M) /\ IsFiniteSet(1 .. n) /\ Cardinality(1 .. n) = n
        BY <1>1, <1>2, FS_Interval DEF IsOrder
      <4>2. s \in Surjection(1 .. n, M)
        BY <1>1, <1>2, <4>1, FS_Injection
      <4>3. QED
        BY <3>1, <4>2 DEF Surjection
    <3>3. ~(k < j) /\ j # k
      BY <1>2, <1>3, <1>4, <1>5, <3>1, <3>2
    <3>4. QED
      BY <1>2, <1>5, <1>6, <3>2, <3>3
  <2>3. QED
    BY <2>1, <2>2
<1>10. PICK g : g = [j \in before |-> s[j]]
  OBVIOUS
<1>11. g \in Bijection(before, N)
  <2>1. g \in [before -> N] /\ \A t \in N : \E j \in before : g[j] = t
    BY <1>9, <1>10
  <2>2. \A j, l \in before : g[j] = g[l] => j = l
    BY <1>3, <1>7, <1>10
  <2>3. QED
    BY <2>1, <2>2 DEF Bijection, Injection, Surjection, IsInjective
<1>12. Cardinality(N) = k - 1
  BY <1>7, <1>11, FS_Bijection DEF ExistsBijection
<1>13. QED
  BY <1>1, <1>2, <1>5, <1>8, <1>12

(* One page: an alert not on it is still ahead, and a short page ends the  *)
(* list.                                                                   *)
LEMMA PageReadSoundly ==
  ASSUME NEW rows \in Seq(AlertRow), NEW q \in ReaderState, q.stage = "counted",
         ReadsSoundly(q, rows),
         NEW s, IsOrder(s, rows, Selected(rows, q.filter)),
         NEW items \in SUBSET Nat, items = Page(s, PageSize, q.offset),
         NEW x, x = [q EXCEPT !.stage = IF Cardinality(items) < PageSize THEN "done" ELSE "asking",
                              !.offset = IF Cardinality(items) < PageSize THEN @ ELSE @ + PageSize,
                              !.page = items, !.seen = @ \cup items]
  PROVE  ReadsSoundly(x, rows)
<1> SUFFICES ASSUME q.filter.status = NULL PROVE ReadsSoundly(x, rows)
  BY DEF ReadsSoundly, ReaderState
<1> DEFINE M == Selected(rows, q.filter)
           short == Cardinality(items) < PageSize
<1>1. /\ x.filter = q.filter /\ x.before = q.before /\ x.total = q.total
      /\ x.page = items /\ x.seen = q.seen \cup items
      /\ x.stage = IF short THEN "done" ELSE "asking"
      /\ x.offset = IF short THEN q.offset ELSE q.offset + PageSize
  BY DEF ReaderState
<1>2. q.offset \in Nat /\ q.total \in Nat /\ PageSize \in Nat \ {0}
  BY FeedAssumption DEF ReaderState
<1>3. /\ q.before \subseteq M /\ q.total <= Cardinality(M)
      /\ \A i \in q.before \ q.seen :
           Tied(rows, i) \/ q.offset <= Cardinality(NewerThan(rows, q.filter, i))
  BY DEF ReadsSoundly
<1>4. IsFiniteSet(M) /\ Cardinality(M) \in Nat
  BY SelectedFinite
<1>5. s \in Injection(1 .. Cardinality(M), M)
  BY DEF IsOrder
<1>6. /\ Cardinality(items) \in Nat
      /\ Cardinality(items) = IF Cardinality(M) <= q.offset THEN 0
                              ELSE IF Cardinality(M) >= q.offset + PageSize THEN PageSize
                              ELSE Cardinality(M) - q.offset
  <2> HIDE DEF M
  <2>1. QED
    BY <1>2, <1>4, <1>5, PageSizes
<1>7. short => x.offset + Cardinality(x.page) >= x.total
  <2> HIDE DEF M
  <2>1. QED
    BY <1>1, <1>2, <1>3, <1>4, <1>6
<1>8. ASSUME NEW i \in x.before \ x.seen, ~Tied(rows, i)
      PROVE  x.stage # "done" /\ x.offset <= Cardinality(NewerThan(rows, q.filter, i))
  <2>1. PICK n : n = Cardinality(NewerThan(rows, q.filter, i))
    OBVIOUS
  <2>2. n \in Nat
    BY <2>1, SelectedFinite
  <2>3. i \in M /\ i \notin items /\ q.offset <= n
    BY <1>1, <1>3, <1>8, <2>1
  <2>4. n + 1 \in 1 .. Cardinality(M) /\ s[n + 1] = i
    BY <1>8, <2>1, <2>3, PlaceInOrder
  <2>5. ~(n + 1 <= q.offset + PageSize)
    <3> SUFFICES ASSUME n + 1 <= q.offset + PageSize PROVE FALSE
      OBVIOUS
    <3>1. n + 1 \in DOMAIN s
      BY <1>5, <2>4 DEF Injection
    <3>2. n + 1 \in q.offset + 1 .. q.offset + PageSize
      BY <1>2, <2>2, <2>3
    <3>3. QED
      BY <2>3, <2>4, <3>1, <3>2 DEF Page
  <2> HIDE DEF M
  <2>6. ~short /\ q.offset + PageSize <= n
    <3>1. q.offset + PageSize <= n /\ n + 1 <= Cardinality(M)
      BY <1>2, <1>4, <2>2, <2>4, <2>5
    <3>2. Cardinality(M) >= q.offset + PageSize /\ ~(Cardinality(M) <= q.offset)
      BY <1>2, <1>4, <2>2, <3>1
    <3>3. Cardinality(items) = PageSize
      BY <1>6, <3>2
    <3>4. QED
      BY <1>2, <3>1, <3>3
  <2>7. QED
    BY <1>1, <2>1, <2>6
<1>9. QED
  BY <1>1, <1>3, <1>7, <1>8 DEF ReadsSoundly

-----------------------------------------------------------------------------
(* A client that has not begun has seen nothing.                           *)
Unread(q) == q.stage = "new" => q.offset = 0 /\ q.seen = {}

ReadersInv == ReadersSound /\ \A r \in Readers : Unread(reader[r])

LEMMA InitReaders == Init => ReadersInv
BY DEF Init, FeedInit, ReadersInv, ReadersSound, ReadsSoundly, Unread

LEMMA FeedGrows ==
  ASSUME ScoreInv, PatchTypes, [Next]_vars
  PROVE  RowsKept(feed, feed')
<1>1. feed \in Seq(AlertRow)
  BY DEF ScoreInv, ScoreTypes
<1>2. CASE feed' = feed
  BY <1>2 DEF RowsKept
<1>3. ASSUME NEW w \in Workers, RunCycle(w) PROVE RowsKept(feed, feed')
  <2>1. CASE feed' = feed
    BY <2>1 DEF RowsKept
  <2>2. ASSUME NEW row \in AlertRow, feed' = Append(feed, row) PROVE RowsKept(feed, feed')
    BY <1>1, <2>2 DEF RowsKept
  <2>3. QED
    BY <1>3, <2>1, <2>2, RunScoreStep
<1>4. ASSUME NEW p \in Patches, CommitPatch(p) PROVE RowsKept(feed, feed')
  <2>1. feed' = feed \/ feed' = [feed EXCEPT ![patch[p].alert].status = patch[p].asked]
    BY <1>4 DEF CommitPatch
  <2>2. \A i \in DOMAIN feed : feed[i] \in AlertRow
    BY <1>1
  <2>3. QED
    BY <1>1, <2>1, <2>2 DEF RowsKept, AlertRow
<1>5. feed' = feed \/ (\E w \in Workers : RunCycle(w)) \/ \E p \in Patches : CommitPatch(p)
  <2>1. CASE UNCHANGED vars
    BY <2>1 DEF vars, feedVars
  <2>2. CASE Tick \/ Restart \/ \E u \in Users : StoreEvent(u)
    BY <2>2 DEF Tick, Restart, DropRequests, StoreEvent, feedVars
  <2>3. CASE \E w \in Workers : FailCycle(w) \/ \E u \in Users : StartCycle(w, u)
    BY <2>3 DEF FailCycle, StartCycle, feedVars
  <2>4. CASE Request
    BY <2>4 DEF Request, StartRecompute, BeginListing, LoadAlert, feedVars
  <2>5. CASE ConfigStep /\ UNCHANGED feedVars
    BY <2>5 DEF feedVars
  <2>6. CASE FeedStep
    BY <2>6 DEF FeedStep, CountAlerts, ReadPage, FlushPatch, AnswerPatch
  <2>7. QED
    BY <2>1, <2>2, <2>3, <2>4, <2>5, <2>6 DEF Next
<1>6. QED
  BY <1>2, <1>3, <1>4, <1>5

(* One client's step, the feed being what it was.                          *)
LEMMA OneReads ==
  ASSUME ReadersInv, ReaderTypes, feed' = feed, NEW r \in Readers, NEW x,
         reader' = [reader EXCEPT ![r] = x], ReadsSoundly(x, feed), x.stage # "new"
  PROVE  ReadersInv'
<1>1. reader'[r] = x /\ \A q \in Readers \ {r} : reader'[q] = reader[q]
  BY DEF ReaderTypes
<1>2. \A q \in Readers : ReadsSoundly(reader'[q], feed)
  BY <1>1 DEF ReadersInv, ReadersSound
<1>3. \A q \in Readers : Unread(reader'[q])
  BY <1>1 DEF ReadersInv, Unread
<1>4. QED
  BY <1>2, <1>3 DEF ReadersInv, ReadersSound

LEMMA BeginReads ==
  ASSUME ReadersInv, ReaderTypes, feed \in Seq(AlertRow),
         NEW r \in Readers, NEW filter \in Filters, BeginListing(r, filter)
  PROVE  ReadersInv'
<1>1. PICK q : q = reader[r] /\ q \in ReaderState /\ q.stage = "new"
  BY DEF ReaderTypes, BeginListing
<1>2. q.offset = 0
  BY <1>1 DEF ReadersInv, Unread
<1>3. PICK x : x = [q EXCEPT !.stage = "asking", !.filter = filter, !.before = Matching(filter)]
  OBVIOUS
<1>4. reader' = [reader EXCEPT ![r] = x] /\ feed' = feed
  BY <1>1, <1>3 DEF BeginListing, ReaderTypes, ReaderState
<1>5. x.stage = "asking" /\ x.filter = filter /\ x.offset = 0 /\ x.before = Matching(filter)
  BY <1>1, <1>2, <1>3 DEF ReaderState
<1>6. Matching(filter) = Selected(feed, filter)
  BY DEF Matching, Selected
<1>7. \A i : 0 <= Cardinality(NewerThan(feed, filter, i))
  <2>1. \A i : Cardinality(NewerThan(feed, filter, i)) \in Nat
    BY SelectedFinite
  <2>2. QED
    BY <2>1
<1>8. ReadsSoundly(x, feed)
  BY <1>5, <1>6, <1>7 DEF ReadsSoundly
<1>9. QED
  BY <1>4, <1>5, <1>8, OneReads

LEMMA CountReads ==
  ASSUME ReadersInv, ReaderTypes, feed \in Seq(AlertRow), NEW r \in Readers, CountAlerts(r)
  PROVE  ReadersInv'
<1>1. PICK q : q = reader[r] /\ q \in ReaderState /\ q.stage = "asking"
  BY DEF ReaderTypes, CountAlerts
<1>2. PICK n : n = Cardinality(Selected(feed, q.filter))
  OBVIOUS
<1>3. n \in Nat
  BY <1>2, SelectedFinite
<1>4. PICK x : x = [q EXCEPT !.stage = "counted", !.total = n]
  OBVIOUS
<1>5. reader' = [reader EXCEPT ![r] = x] /\ feed' = feed
  <2>1. Cardinality(Matching(q.filter)) = n
    BY <1>2 DEF Matching, Selected
  <2>2. QED
    BY <1>1, <1>4, <2>1 DEF CountAlerts, ReaderTypes, ReaderState
<1>6. /\ x.stage = "counted" /\ x.filter = q.filter /\ x.offset = q.offset
      /\ x.before = q.before /\ x.seen = q.seen /\ x.total = n
  BY <1>1, <1>4 DEF ReaderState
<1>7. ReadsSoundly(q, feed)
  BY <1>1 DEF ReadersInv, ReadersSound
<1>8. ReadsSoundly(x, feed)
  BY <1>1, <1>2, <1>3, <1>6, <1>7 DEF ReadsSoundly
<1>9. QED
  BY <1>5, <1>6, <1>8, OneReads

LEMMA PageReads ==
  ASSUME ReadersInv, ReaderTypes, feed \in Seq(AlertRow), NEW r \in Readers, ReadPage(r)
  PROVE  ReadersInv'
<1>1. PICK q : q = reader[r] /\ q \in ReaderState /\ q.stage = "counted"
  BY DEF ReaderTypes, ReadPage
<1>2. PICK M : M = Selected(feed, q.filter) /\ M = Matching(q.filter)
  BY DEF Matching, Selected
<1>3. PICK s \in Orders(M) :
        reader' = [reader EXCEPT ![r] =
          [q EXCEPT
             !.stage = IF Cardinality(Page(s, PageSize, q.offset)) < PageSize
                         THEN "done" ELSE "asking",
             !.offset = IF Cardinality(Page(s, PageSize, q.offset)) < PageSize
                          THEN @ ELSE @ + PageSize,
             !.page = Page(s, PageSize, q.offset),
             !.seen = @ \cup Page(s, PageSize, q.offset)]]
  BY <1>1, <1>2 DEF ReadPage
<1>4. PICK items : items = Page(s, PageSize, q.offset)
  OBVIOUS
<1>5. IsOrder(s, feed, M)
  <2>1. s \in [1 .. Cardinality(M) -> M] /\ DOMAIN s = 1 .. Cardinality(M)
    BY DEF Orders, SetToSeqs
  <2>2. \A j, k \in 1 .. Cardinality(M) : s[j] = s[k] => j = k
    BY DEF Orders, SetToSeqs
  <2>3. \A j, k \in 1 .. Cardinality(M) : j < k => feed[s[j]].at >= feed[s[k]].at
    BY <2>1 DEF Orders
  <2>4. QED
    BY <2>1, <2>2, <2>3 DEF IsOrder, Injection, IsInjective
<1>6. items \in SUBSET Nat
  <2>1. M \subseteq Nat
    <3>1. Selected(feed, q.filter) \subseteq 1 .. Len(feed)
      BY SelectedFinite
    <3>2. QED
      BY <1>2, <3>1
  <2>2. \A k \in DOMAIN s : s[k] \in Nat
    BY <1>5, <2>1 DEF IsOrder, Injection
  <2>3. QED
    BY <1>4, <2>2 DEF Page
<1>7. PICK x : x = [q EXCEPT
        !.stage = IF Cardinality(items) < PageSize THEN "done" ELSE "asking",
        !.offset = IF Cardinality(items) < PageSize THEN @ ELSE @ + PageSize,
        !.page = items, !.seen = @ \cup items]
  OBVIOUS
<1>8. reader' = [reader EXCEPT ![r] = x] /\ feed' = feed
  BY <1>3, <1>4, <1>7 DEF ReadPage
<1>9. x.stage # "new"
  BY <1>1, <1>7 DEF ReaderState
<1>10. ReadsSoundly(x, feed)
  <2>1. ReadsSoundly(q, feed)
    BY <1>1 DEF ReadersInv, ReadersSound
  <2>2. IsOrder(s, feed, Selected(feed, q.filter))
    BY <1>2, <1>5
  <2>3. q \in ReaderState /\ q.stage = "counted"
    BY <1>1
  <2> HIDE <1>3, <1>8
  <2>4. QED
    BY <1>4, <1>6, <1>7, <2>1, <2>2, <2>3, PageReadSoundly
<1>11. QED
  BY <1>8, <1>9, <1>10, OneReads

(* Steps that are no client's of the feed; after a restart a client asks   *)
(* for the same page again.                                                *)
LEMMA ReadersWait ==
  ASSUME ReadersInv, ReaderTypes, feed \in Seq(AlertRow), feed' \in Seq(AlertRow),
         RowsKept(feed, feed'), reader' = reader
  PROVE  ReadersInv'
<1>1. \A r \in Readers : reader[r] \in ReaderState /\ ReadsSoundly(reader[r], feed)
  BY DEF ReaderTypes, ReadersInv, ReadersSound
<1>2. \A r \in Readers : ReadsSoundly(reader[r], feed')
  BY <1>1, ReaderWaits
<1>3. QED
  BY <1>2 DEF ReadersInv, ReadersSound

LEMMA RestartReads ==
  ASSUME ReadersInv, ReaderTypes, DropRequests
  PROVE  ReadersInv'
<1>1. /\ feed' = feed
      /\ reader' = [r \in Readers |->
           IF reader[r].stage = "counted" THEN [reader[r] EXCEPT !.stage = "asking"]
                                          ELSE reader[r]]
  BY DEF DropRequests
<1>2. ASSUME NEW r \in Readers
      PROVE  ReadsSoundly(reader'[r], feed) /\ Unread(reader'[r])
  <2>1. reader[r] \in ReaderState /\ ReadsSoundly(reader[r], feed) /\ Unread(reader[r])
    BY DEF ReaderTypes, ReadersInv, ReadersSound
  <2>2. CASE reader[r].stage # "counted"
    BY <1>1, <2>1, <2>2
  <2>3. CASE reader[r].stage = "counted"
    <3>1. PICK q, x : q = reader[r] /\ x = reader'[r]
      OBVIOUS
    <3>2. /\ x.stage = "asking" /\ x.filter = q.filter /\ x.offset = q.offset
          /\ x.before = q.before /\ x.seen = q.seen /\ q.stage = "counted"
      BY <1>1, <2>1, <2>3, <3>1 DEF ReaderState
    <3>3. ReadsSoundly(x, feed) /\ Unread(x)
      BY <2>1, <3>1, <3>2 DEF ReadsSoundly, Unread
    <3>4. QED
      BY <3>1, <3>3
  <2>4. QED
    BY <2>2, <2>3
<1>3. QED
  BY <1>1, <1>2 DEF ReadersInv, ReadersSound

LEMMA ReadersStep ==
  ASSUME ReadersInv, ScoreInv, ScoreInv', LoadInv, PatchTypes, [Next]_vars
  PROVE  ReadersInv'
<1>1. feed \in Seq(AlertRow) /\ feed' \in Seq(AlertRow) /\ ReaderTypes
  BY DEF ScoreInv, ScoreTypes, LoadInv
<1>2. RowsKept(feed, feed')
  BY FeedGrows
<1>3. CASE reader' = reader
  BY <1>1, <1>2, <1>3, ReadersWait
<1>4. CASE Restart
  BY <1>1, <1>4, RestartReads DEF Restart
<1>5. ASSUME NEW r \in Readers, NEW filter \in Filters, BeginListing(r, filter)
      PROVE  ReadersInv'
  BY <1>1, <1>5, BeginReads
<1>6. ASSUME NEW r \in Readers, CountAlerts(r) \/ ReadPage(r)
      PROVE  ReadersInv'
  BY <1>1, <1>6, CountReads, PageReads
<1>7. \/ reader' = reader \/ Restart
      \/ \E r \in Readers, filter \in Filters : BeginListing(r, filter)
      \/ \E r \in Readers : CountAlerts(r) \/ ReadPage(r)
  <2>1. CASE UNCHANGED vars \/ Tick \/ \E u \in Users : StoreEvent(u)
    BY <2>1 DEF vars, Tick, StoreEvent, feedVars
  <2>2. CASE \E w \in Workers : RunCycle(w) \/ FailCycle(w) \/ \E u \in Users : StartCycle(w, u)
    BY <2>2 DEF RunCycle, FailCycle, StartCycle, feedVars
  <2>3. CASE Request
    BY <2>3 DEF Request, StartRecompute, LoadAlert, feedVars
  <2>4. CASE ConfigStep /\ UNCHANGED feedVars
    BY <2>4 DEF feedVars
  <2>5. CASE FeedStep
    BY <2>5 DEF FeedStep, FlushPatch, CommitPatch, AnswerPatch
  <2>6. QED
    BY <2>1, <2>2, <2>3, <2>4, <2>5 DEF Next
<1>8. QED
  BY <1>3, <1>4, <1>5, <1>6, <1>7

LEMMA ReadersAlways == Spec => [](ReadersInv /\ LoadInv)
<1> DEFINE Inv == ScoreInv /\ LoadInv /\ ConfigInv /\ PatchInv
<1>1. Spec => []Inv
  BY AllInvAlways
<1>2. Inv /\ Inv' /\ ReadersInv /\ [Next]_vars => ReadersInv'
  BY ReadersStep DEF PatchInv
<1>3. Inv => LoadInv
  OBVIOUS
<1> HIDE DEF Inv
<1>4. QED
  BY <1>1, <1>2, <1>3, InitReaders, PTL DEF Spec

(* A client that reads the feed page by page, without a status filter, has *)
(* at the end seen every alert there was when it began, apart from alerts  *)
(* with equal times: for any page size, filters, clients, patches and      *)
(* cycles.                                                                 *)
THEOREM ListingsSkipNothing == Spec => []NoAlertSkipped
<1>1. ReadersInv => NoAlertSkipped
  BY DEF ReadersInv, ReadersSound, ReadsSoundly, NoAlertSkipped, Stable, Tied
<1>2. QED
  BY <1>1, ReadersAlways, PTL

(* The total of the last page is backed by alerts the client was offered.  *)
THEOREM TotalsAreTrue == Spec => []TotalsAreBacked
<1>1. ReadersInv => TotalsAreBacked
  BY DEF ReadersInv, ReadersSound, ReadsSoundly, TotalsAreBacked, Stable
<1>2. QED
  BY <1>1, ReadersAlways, PTL
=============================================================================
