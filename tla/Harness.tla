------------------------------- MODULE Harness -------------------------------
(***************************************************************************)
(* The simulation harness (simulate.py, sim/runner.py): a sequential       *)
(* client that sends the prompts of each persona in bursts, asks for a     *)
(* recompute, compares what the service says with what the persona must    *)
(* lead to, and tests the inactivity reset. Its exit code is the gate of   *)
(* the build and of a deployment.                                          *)
(*                                                                         *)
(* The service is what Intake and SerialScoring promise of it: an event is *)
(* stored whole, a background cycle is one step, taken at any time after   *)
(* the answer. A run is short compared with the half-life of a score and   *)
(* the days of the window: all of it happens at the instant Now. The       *)
(* window keeps the rows since the start of the WindowSessions-th latest   *)
(* session, and a persona may have more sessions than that: the client is  *)
(* sequential, so sessions are numbered and rows appended in time order.   *)
(***************************************************************************)
EXTENDS ProfileUpdates, SessionTables, FiniteSetsExt

CONSTANTS
  Plans,     \* persona -> its bursts, sequences of prompts; a prompt is the
             \* number of its place among the persona's
  Expected,  \* persona -> the dominant technique it must be alerted for, or NULL
  WindowSessions,  \* Settings.window_sessions
  MaxPolls,  \* polls of /ready before the deadline
  MaxFaults  \* bound: failures of the service

Personas == DOMAIN Plans

ASSUME HarnessAssumption ==
  /\ Plans \in Seq(Seq(Seq(Ids)))
  /\ Len(Plans) > 0
  /\ \A k \in Personas : Len(Plans[k]) > 0 /\ \A b \in DOMAIN Plans[k] : Len(Plans[k][b]) > 0
  /\ Expected \in [Personas -> Maybe(Techniques)]
  /\ WindowSessions \in Nat \ {0}
  /\ MaxPolls \in Nat /\ MaxFaults \in Nat
  /\ MaxTime > InactivityLimit

ASSUME PlacesAssumption ==
  \A k \in Personas : \A b, c \in DOMAIN Plans[k] :
    \A i \in DOMAIN Plans[k][b], j \in DOMAIN Plans[k][c] :
      Plans[k][b][i] = Plans[k][c][j] => b = c /\ i = j

VARIABLES
  sessions,  \* persona -> its rows of the sessions table
  rows,      \* persona -> its interactions: the prompt and the session
  queue,     \* persona -> background cycles scheduled
  profile,   \* persona -> its row of user_risk_profiles
  alerts,    \* persona -> its alerts
  pc,        \* where the harness stands
  persona, burst, next,  \* the prompt it sends next
  sessionId, \* run_persona's session_id, 0 for None
  errors,    \* run_persona's count of answers other than 202
  failed,    \* the rows of the results table that failed
  polls,     \* of /ready
  faults,    \* so far
  raced      \* history: a cycle of the first persona was due at the backdate

store == <<sessions, rows, queue>>
scored == <<profile, alerts>>
position == <<persona, burst, next, sessionId, errors>>
vars == <<store, scored, pc, position, failed, polls, faults, raced>>

Now == MaxTime
LongAgo == 0  \* the backdate's 2020-01-01

Criteria == {"all requests accepted", "admin recompute", "risk_score",
             "alert raised", "dominant_pattern", "no alert", "reset"}

Stages == {"polling", "sending", "recompute", "risk", "dominant", "alert",
           "backdate", "reset", "reset_answer", "done", "not_ready", "aborted"}

Init ==
  /\ sessions = [k \in Personas |-> <<>>]
  /\ rows = [k \in Personas |-> <<>>]
  /\ queue = [k \in Personas |-> 0]
  /\ profile = [k \in Personas |-> NULL]
  /\ alerts = [k \in Personas |-> <<>>]
  /\ pc = "polling"
  /\ persona = 1 /\ burst = 1 /\ next = 1
  /\ sessionId = 0
  /\ errors = 0
  /\ failed = {}
  /\ polls = 0
  /\ faults = 0
  /\ raced = FALSE

-----------------------------------------------------------------------------
(* The service.                                                            *)

(* The rows of persona k in its rolling window: those since the start of   *)
(* one of its last sessions.                                               *)
WholeHistory(k) == DOMAIN rows[k]  \* mutant: no limit on the sessions

WindowRows(k) ==
  {i \in DOMAIN rows[k] :
     \E h \in 1 .. i : rows[k][h].session > Len(sessions[k]) - WindowSessions}

Prompts(k) == {rows[k][i].prompt : i \in WindowRows(k)}
LatestEvent(k) == IF rows[k] = <<>> THEN NULL ELSE Now

(* One detection cycle of persona k.                                       *)
Cycle(k) ==
  /\ profile' = [profile EXCEPT ![k] =
       CycleProfile(@, Now, LatestEvent(k), Prompts(k), Len(sessions[k]), Len(rows[k]))]
  /\ alerts' = [alerts EXCEPT ![k] = CycleAlerts(@, profile[k], Now, Prompts(k))]

Fault ==
  /\ faults < MaxFaults
  /\ faults' = faults + 1

BackgroundCycle(k) ==
  /\ queue[k] > 0
  /\ queue' = [queue EXCEPT ![k] = @ - 1]
  /\ Cycle(k)
  /\ UNCHANGED <<sessions, rows, pc, position, failed, polls, faults, raced>>

FailBackgroundCycle(k) ==
  /\ queue[k] > 0
  /\ Fault
  /\ queue' = [queue EXCEPT ![k] = @ - 1]
  /\ UNCHANGED <<sessions, rows, scored, pc, position, failed, polls, raced>>

-----------------------------------------------------------------------------
(* _wait_for_ready.                                                        *)
PollForever ==  \* mutant: no deadline
  /\ pc = "polling"
  /\ polls' = (polls + 1) % (MaxPolls + 1)
  /\ pc' \in {"polling", "sending"}
  /\ UNCHANGED <<store, scored, position, failed, faults, raced>>

PollOnceMore ==  \* mutant: the deadline is checked after the poll
  /\ pc = "polling"
  /\ polls' = polls + 1
  /\ pc' \in {"sending", IF polls <= MaxPolls THEN "polling" ELSE "not_ready"}
  /\ UNCHANGED <<store, scored, position, failed, faults, raced>>

Poll ==
  /\ pc = "polling"
  /\ IF polls < MaxPolls
       THEN polls' = polls + 1 /\ pc' \in {"polling", "sending"}
       ELSE polls' = polls /\ pc' = "not_ready"
  /\ UNCHANGED <<store, scored, position, failed, faults, raced>>

(* A request whose connection breaks or whose answer is an error the       *)
(* harness does not expect raises: the run ends without a verdict.         *)
AbortRun ==
  /\ pc \notin {"polling", "done", "not_ready", "aborted"}
  /\ Fault
  /\ pc' = "aborted"
  /\ UNCHANGED <<store, scored, position, failed, polls, raced>>

-----------------------------------------------------------------------------
(* run_persona. The next prompt: of the burst, else the first of the next  *)
(* burst, without a session id, else the persona is through.               *)
MoveOnInSession(session) ==  \* mutant: session_id is kept between bursts
  /\ IF next < Len(Plans[persona][burst])
       THEN next' = next + 1 /\ UNCHANGED <<burst, pc>>
       ELSE /\ next' = 1
            /\ IF burst < Len(Plans[persona])
                 THEN burst' = burst + 1 /\ UNCHANGED pc
                 ELSE burst' = 1 /\ pc' = "recompute"
  /\ sessionId' = IF pc' = "recompute" THEN 0 ELSE session
  /\ UNCHANGED persona

MoveOn(session) ==
  /\ IF next < Len(Plans[persona][burst])
       THEN next' = next + 1 /\ sessionId' = session /\ UNCHANGED <<burst, pc>>
       ELSE /\ next' = 1
            /\ sessionId' = 0
            /\ IF burst < Len(Plans[persona])
                 THEN burst' = burst + 1 /\ UNCHANGED pc
                 ELSE burst' = 1 /\ pc' = "recompute"
  /\ UNCHANGED persona

StorePrompt(s) ==
  /\ sessions' = [sessions EXCEPT ![persona] = WithEvent(@, s, Now)]
  /\ rows' = [rows EXCEPT ![persona] =
       Append(@, [prompt |-> Plans[persona][burst][next], session |-> s])]

ServerSession == ResolveOrCreateSession(sessions[persona], sessionId, Now)

CoalesceTask(k) == queue' = [queue EXCEPT ![k] = 1]  \* mutant

ScheduleDetection(k) == queue' = [queue EXCEPT ![k] = @ + 1]

(* 202: the session id of the answer is sent with the rest of the burst.   *)
SendAccepted ==
  /\ pc = "sending"
  /\ StorePrompt(ServerSession)
  /\ ScheduleDetection(persona)
  /\ MoveOn(ServerSession)
  /\ UNCHANGED <<scored, errors, failed, polls, faults, raced>>

CountNothing(n) == n  \* mutant: only exceptions are errors

CountError(n) == n + 1

(* 429, or an error before the commit: nothing is stored.                  *)
SendRefused ==
  /\ pc = "sending"
  /\ Fault
  /\ errors' = CountError(errors)
  /\ MoveOn(sessionId)
  /\ UNCHANGED <<store, scored, failed, polls, raced>>

(* An error after the commit: the event is stored, its task is dropped.    *)
SendFailed ==
  /\ pc = "sending"
  /\ Fault
  /\ StorePrompt(ServerSession)
  /\ errors' = CountError(errors)
  /\ MoveOn(sessionId)
  /\ UNCHANGED <<queue, scored, failed, polls, raced>>

-----------------------------------------------------------------------------
(* The row of the results table is written if passed is false.             *)
Check(criterion, passed) ==
  failed' = IF passed THEN failed ELSE failed \cup {<<persona, criterion>>}

NextPersona ==
  /\ errors' = 0
  /\ IF persona < Len(Plans)
       THEN persona' = persona + 1 /\ pc' = "sending"
       ELSE persona' = 1 /\ pc' = "risk"
  /\ UNCHANGED <<burst, next, sessionId>>

RecomputeUnlessErrors ==  \* mutant: a persona with errors is not recomputed
  /\ pc = "recompute"
  /\ IF errors = 0 THEN Cycle(persona) ELSE UNCHANGED scored
  /\ Check("all requests accepted", errors = 0)
  /\ NextPersona
  /\ UNCHANGED <<store, polls, faults, raced>>

(* The recompute after a persona's traffic.                                *)
Recompute ==
  /\ pc = "recompute"
  /\ Cycle(persona)
  /\ Check("all requests accepted", errors = 0)
  /\ NextPersona
  /\ UNCHANGED <<store, polls, faults, raced>>

RecomputeRefused ==
  /\ pc = "recompute"
  /\ Fault
  /\ failed' = failed \cup {<<persona, "admin recompute">>}
       \cup IF errors > 0 THEN {<<persona, "all requests accepted">>} ELSE {}
  /\ NextPersona
  /\ UNCHANGED <<store, scored, polls, raced>>

-----------------------------------------------------------------------------
(* _verify_must_alert and _verify_must_not_alert, a request per step.      *)
NextVerdict ==
  /\ IF persona < Len(Plans) THEN persona' = persona + 1 /\ pc' = "risk"
                             ELSE persona' = 1 /\ pc' = "backdate"
  /\ UNCHANGED <<burst, next, sessionId, errors>>

Score(k) == IF profile[k] = NULL THEN 0 ELSE profile[k].score

FetchRisk ==
  /\ pc = "risk"
  /\ Check("risk_score", IF Expected[persona] # NULL
                           THEN Score(persona) >= AlertThreshold
                           ELSE Score(persona) < WatchThreshold)
  /\ pc' = IF Expected[persona] # NULL THEN "dominant" ELSE "alert"
  /\ UNCHANGED <<store, scored, position, polls, faults, raced>>

FetchDominant ==
  LET feed == alerts[persona] IN
  /\ pc = "dominant"
  /\ Check("dominant_pattern",
           feed # <<>> /\ feed[Len(feed)].dominant = Expected[persona])
  /\ pc' = "alert"
  /\ UNCHANGED <<store, scored, position, polls, faults, raced>>

FetchTotal ==
  /\ pc = "alert"
  /\ IF Expected[persona] # NULL
       THEN Check("alert raised", alerts[persona] # <<>>)
       ELSE Check("no alert", alerts[persona] = <<>>)
  /\ NextVerdict
  /\ UNCHANGED <<store, scored, polls, faults, raced>>

(* _run_inactivity_reset_test, of the first persona. The recompute answers *)
(* with the row as it is after its commit.                                 *)
Backdate ==
  /\ pc = "backdate"
  /\ profile' = [profile EXCEPT ![1] = SetUserLastEventAt(@, LongAgo)]
  /\ raced' = (queue[1] > 0)
  /\ pc' = "reset"
  /\ UNCHANGED <<store, alerts, position, failed, polls, faults>>

ResetRecompute ==
  /\ pc = "reset"
  /\ Cycle(1)
  /\ pc' = "reset_answer"
  /\ UNCHANGED <<store, position, failed, polls, faults, raced>>

ResetAnswer ==
  /\ pc = "reset_answer"
  /\ Check("reset", Score(1) = 0 /\ profile[1].status = "normal")
  /\ pc' = "done"
  /\ UNCHANGED <<store, scored, position, polls, faults, raced>>

-----------------------------------------------------------------------------
Step ==
  \/ Poll
  \/ SendAccepted
  \/ Recompute
  \/ FetchRisk
  \/ FetchDominant
  \/ FetchTotal
  \/ Backdate
  \/ ResetRecompute
  \/ ResetAnswer

Failure == SendRefused \/ SendFailed \/ RecomputeRefused \/ AbortRun

Next ==
  \/ Step
  \/ Failure
  \/ \E k \in Personas : BackgroundCycle(k) \/ FailBackgroundCycle(k)

Spec == Init /\ [][Next]_vars

(* Every request of the harness gets an answer or times out: the client    *)
(* has a timeout, and waits between requests are finite.                   *)
FairSpec == Spec /\ WF_vars(Step \/ Failure)

ExitCode == IF pc = "done" /\ failed = {} THEN 0 ELSE 1

-----------------------------------------------------------------------------
TypeOK ==
  /\ sessions \in [Personas -> Seq(SessionRow)]
  /\ rows \in [Personas -> Seq([prompt : Ids, session : Nat])]
  /\ queue \in [Personas -> Nat]
  /\ profile \in [Personas -> Maybe(Profile)]
  /\ alerts \in [Personas -> Seq(Alert)]
  /\ pc \in Stages
  /\ persona \in Personas
  /\ burst \in DOMAIN Plans[persona]
  /\ next \in DOMAIN Plans[persona][burst]
  /\ sessionId \in Nat
  /\ errors \in Nat
  /\ failed \subseteq Personas \X Criteria
  /\ polls \in 0 .. MaxPolls
  /\ faults \in 0 .. MaxFaults
  /\ raced \in BOOLEAN

BurstOf(k, prompt) ==
  CHOOSE b \in DOMAIN Plans[k] : \E i \in DOMAIN Plans[k][b] : Plans[k][b][i] = prompt

SameBurst(k, i, j) == BurstOf(k, rows[k][i].prompt) = BurstOf(k, rows[k][j].prompt)
SameSession(k, i, j) == rows[k][i].session = rows[k][j].session

(* "session-grouped prompts": what the service counts as a session is one  *)
(* burst of a persona, whatever is refused in between. A burst is split by *)
(* an event alone, that was stored and answered with an error before the   *)
(* harness knew the session.                                               *)
AloneInSession(k, i) == \A j \in DOMAIN rows[k] \ {i} : ~SameSession(k, i, j)

BurstsAreSessions ==
  \A k \in Personas : \A i, j \in DOMAIN rows[k] :
    /\ SameSession(k, i, j) => SameBurst(k, i, j)
    /\ SameBurst(k, i, j) /\ i < j =>
         \/ SameSession(k, i, j)
         \/ faults > 0 /\ AloneInSession(k, i)

(* The gate is closed to partial runs: exit code 0 means that every prompt *)
(* of every plan was stored once, in order, and each burst as a session.   *)
FlatBursts(k) ==
  LET flat[b \in 0 .. Len(Plans[k])] ==
        IF b = 0 THEN <<>> ELSE flat[b - 1] \o Plans[k][b]
  IN  flat

FlatPlan(k) == FlatBursts(k)[Len(Plans[k])]

GreenMeansWholePlan ==
  ExitCode = 0 =>
    \A k \in Personas :
      /\ [i \in DOMAIN rows[k] |-> rows[k][i].prompt] = FlatPlan(k)
      /\ \A i, j \in DOMAIN rows[k] : SameSession(k, i, j) <=> SameBurst(k, i, j)

(* The risk a verdict looks at covers all of the persona's traffic: events *)
(* whose background cycle was lost or is still to come are in it, unless   *)
(* the recompute itself was refused, which is a failed row.                *)
VerdictsCoverTheTraffic ==
  pc \in {"risk", "dominant", "alert", "done"} =>
    \A k \in Personas :
      \/ <<k, "admin recompute">> \in failed
      \/ profile[k] # NULL /\ profile[k].interactions = Len(rows[k])

(* The reset test is only wrong about a service that resets as it should   *)
(* when a background cycle of the same user was due when it began: that    *)
(* cycle does the reset, restores last_event_at, and the recompute of the  *)
(* test scores the old window again.                                       *)
ResetTestFailsOnlyWhenRaced == <<1, "reset">> \in failed => raced

(* "BackgroundTask timing can push risk_score higher": a persona's score   *)
(* once its cycles are through. Each of them adds the gain of the window   *)
(* it reads; when the i-th runs, i prompts at least are stored.            *)
Gain(window) == ComputeInstantaneousScore(Detect(window).signals)

Grown(s, gain) == Rounded(Accumulate(s, gain, 0))

ScoresAfter(gains) ==
  LET score[i \in 0 .. Len(gains)] ==
        IF i = 0 THEN 0 ELSE Grown(score[i - 1], gains[i])
  IN  score

(* The window once n prompts are stored, each burst as one session.        *)
BurstAt(k, i) == BurstOf(k, FlatPlan(k)[i])

WindowAfter(k, n) ==
  {FlatPlan(k)[i] : i \in {j \in 1 .. n :
     \E h \in 1 .. j : BurstAt(k, h) > BurstAt(k, n) - WindowSessions}}

(* A background cycle for each prompt, and the recompute.                  *)
CyclesOf(k) == Len(FlatPlan(k)) + 1

GainsOf(k, i) ==
  LET all == Len(FlatPlan(k))
  IN  {Gain(WindowAfter(k, n)) : n \in (i .. all) \cup {all}}

LowestScores(k) == ScoresAfter([i \in 1 .. CyclesOf(k) |-> Min(GainsOf(k, i))])
HighestScores(k) == ScoresAfter([i \in 1 .. CyclesOf(k) |-> Max(GainsOf(k, i))])

(* Timing moves the score of a verdict only between these two. If the      *)
(* window's gain never falls as prompts are stored, the lowest is what is  *)
(* reached when every cycle runs at once, the highest when all of them     *)
(* wait for the last prompt.                                               *)
TimingStaysInBounds ==
  pc \in {"risk", "dominant", "alert"} /\ faults = 0 =>
    \A k \in Personas :
      queue[k] = 0 =>
        profile[k].score \in LowestScores(k)[CyclesOf(k)] .. HighestScores(k)[CyclesOf(k)]

(* The harness ends, with a verdict or without one.                        *)
HarnessEnds == <>(pc \in {"done", "not_ready", "aborted"})
=============================================================================
