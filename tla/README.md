# A verification project for the cross-session adversarial pattern detector

The repository is a FastAPI service. It stores every prompt a user sends, asks
a language model for the answer, and scores the user's behaviour over many
sessions: three detectors look at a rolling window of the user's interactions,
a scorer accumulates their signals in a risk score that decays with time, and
an alert is written when the score crosses a threshold. This directory holds
TLA+ models of that service, the TLC configurations that check them, and
theorems about them with proofs for TLAPS. `PROJECT.json` lists the runs, the
mutants, the theorems, and which lines each definition stands for.

Paths below are relative to `src/`.

## 1. Inventory

| Component | Source | State it keeps | Operations | Model |
|---|---|---|---|---|
| Event ingestion | `app/api/events.py` | none of its own; writes `sessions`, `interactions`; schedules a background task | `POST /v1/events` | `Ingestion`, `Intake`, `SessionTables` |
| Guardrail, capability tagger | `app/llm/guardrail.py`, `app/detectors/capability.py` | none | evaluate, tag | `Guardrail` |
| Model provider | `app/llm/groq_provider.py` | none | complete, judge_capability, with retries | `Ingestion` |
| Langfuse mirror | `app/integrations/langfuse_mirror.py` | traces in another system | mirror_interaction | `Ingestion` |
| Detection orchestrator | `app/detection/orchestrator.py` | writes `user_risk_profiles`, `detected_patterns`, `alerts` | run, run_detection_for_user | `DetectionCycle`, `ProfileUpdates`, `SerialScoring` |
| Risk scorer | `app/scoring/risk_scorer.py` | none | evaluate and its parts | `RiskScoring` |
| Repositories | `app/db/repositories.py`, `app/db/models.py` | the five tables | lock, window, counts, upsert, reset, backdate, alerts and their status | `SessionTables`, `InteractionTables`, `ProfileUpdates`, `AlertFeed` |
| Detectors | `app/detectors/{base,probing,escalation,enumeration}.py` | none | detect | `DetectorBase`, `Probing`, `Escalation`, `Enumeration`, `RollingWindow` |
| Admin requests | `app/api/admin.py` | as the orchestrator | recompute, reset, set_last_event_at, config | `DetectionCycle`, `RuntimeConfig`, `Operations` |
| Runtime configuration | `app/runtime_config.py`, `app/config.py`, `app/dependencies.py` | override dictionary in memory | update, effective_settings | `RuntimeConfig`, `Operations` |
| Alert feed | `app/api/alerts.py` | `alerts.status` | list, patch | `AlertFeed`, `Operations` |
| Simulation harness | `simulate.py`, `sim/runner.py` | a client: position in the plan, results table | run a persona, verify, reset test, exit code | `Harness` |
| Read endpoints | `app/api/{risk,patterns,health}.py` | none | read a row | not modelled |
| Prompt normalisation, embeddings | `app/detectors/normalize.py`, `app/embeddings/service.py` | none | pure functions of the prompt | constants of the detector models |
| Rate limiter, application shell, deployment | `app/ratelimit.py`, `app/main.py`, `deploy/` | none of interest | | not modelled |

How they interact. A `POST /v1/events` handler runs on the event loop: it
resolves the session, calls the model, evaluates the guardrail, tags the
capability level (possibly with a second model call), mirrors a trace, commits
one interaction and one session row, and adds `run_detection_for_user` to the
background tasks. That function and the admin handlers are plain `def`s, so
they run on threads of the server's pool, several at a time, each in its own
database transaction under READ COMMITTED. What serialises them is
`pg_advisory_xact_lock(hashtext(user_id))`. Events never take that lock.

An operator changes settings with `PUT /v1/admin/config`; they live in a
dictionary of the process, which recomputes are scored under and background
cycles are not. Operators page through the alerts and patch their status while
cycles write new ones. The simulation harness is a client of all of this and
the gate of the build and of a deployment.

The container runs one uvicorn worker (`docker/Dockerfile.api:29`), so there is
one event loop and one process to die.

What is hard here:

* read, compute, write of the profile row by several threads, with an insert
  for a new user, and a decision (is an alert due?) that compares the old row
  with the new one;
* events that commit between the statements of a running cycle;
* the time of a cycle, taken before the lock and used after it;
* the inactivity reset, which skips detection, restores `last_event_at` and
  interacts with the admin backdate;
* the rounding of the stored score to two decimals;
* background tasks that exist only in memory; rollbacks; crashes;
* one handler that writes to two systems, calls the model twice, and keeps a
  copy of the session row across those calls;
* three detectors whose formulas are compared with each other;
* settings that are merged without the lock their update holds, taken along by
  a job before it waits, and gone after a restart;
* lists, counts and patches of alerts as separate statements under READ
  COMMITTED;
* a harness whose verdicts depend on when background cycles run.

What makes each part correct, in a sentence: ingestion stores whole events and
says so truthfully; the guardrail never lets an unanswered or a denied prompt
pass as allowed; a user's cycles behave as if one ran after the other; an alert
marks a crossing of the threshold; every stored event is eventually scored; the
detectors' signals are comparable and their evidence supports their verdicts;
an answered change of the settings is what later recomputes use, and an alert
carries the threshold it was raised under; reading the feed page by page skips
nothing and of concurrent patches a last one stays; a green harness means that
all of the traffic was stored and judged.

## 2. The modules

```
Common ─┬─ SessionTables ─┬─ Intake                      (abstract)
        │                 ├─ Ingestion (+ Guardrail) ──── MCIngestion
        │                 └─ InteractionTables ─┐
        └─ RiskScoring ─┬─ ProfileUpdates ──────┴─ DetectionCycle ── MCDetectionCycle ── MCRepeatedRecompute
                        │      └─ SerialScoring             (abstract)
                        └─ RollingWindow ── MCRollingWindow
DetectorBase ─ Probing, Escalation, Enumeration ─┘
Common ── RuntimeConfig ───────────────────┐
ProfileUpdates ── AlertFeed ───────────────┼─ Operations ── MCOperations
InteractionTables (uses Intake) ───────────┘
ProfileUpdates, SessionTables ── Harness ── MCHarness
ScoringProofs ── TableProofs ─┬─ DetectionCycleProofs    Ingestion ── IngestionProofs
    │         RequestProofs ──┴─ OperationsProofs        RollingWindow ── DetectorProofs
    └─ HarnessProofs
```

* **`Common`** NULL, instants, row numbers, the bounds on them.
* **`RiskScoring`** the methods of `RiskScorer` as operators. Scores are
  natural numbers of a unit finer than the column `risk_score`; `Stored` is the
  set of scores the column can hold and `Rounded` is what `round(…, 2)` and
  NUMERIC(6,2) do. `Weight` carries the product `100 * risk_alpha * weight`.
  `Decay` is an operator parameter: the proofs assume only that what is left of
  a score lies between 0 and the score.
* **`ProfileUpdates`** what each transaction writes: the upsert of a cycle, the
  pattern rows, the alert, the admin reset and the backdate, as functions of
  the row and the reads. `Detect` is the three detectors together, an arbitrary
  function of the set of interactions in the window.
* **`SessionTables`, `InteractionTables`** the rows events write and the queries
  cycles run over them: session cut-off, window cut-off, window, newest event.
* **`DetectionCycle`** the concurrent system: events arriving and committing
  (`ReceiveEvent`, `CommitEvent`), background tasks and admin requests on
  `Workers`, one action per SQL statement of a transaction (`ReadProfile`,
  `ReadSessionCutoff`, `SelectWindow`, `CountSessions`, `Stage`), the advisory
  lock by hash key, commits, rollbacks at any point (`Abort`), lost tasks and
  crashes. `view` is what a transaction has read, `job` what it was asked to do.
* **`MCRepeatedRecompute`** `DetectionCycle` with two history variables: the
  interactions that a committed cycle has scored (`scoredEvents`) and the users
  whose row a recompute's reset has zeroed (`zeroed`). They tell an event whose
  own cycle is still to come from one the detectors have scored before.
* **`SerialScoring`** the abstract specification: each change of a profile row
  is one whole transaction on the row as it stands, its patterns and alert with
  it. It does not constrain the two counts, which the properties cover.
* **`Guardrail`** the guardrail's layers and the tagger's rules over the kinds
  of prompts and replies the patterns tell apart.
* **`Ingestion`** the handler in stages, one action per call that can fail:
  `CreateEvent` (time, session), `CompletionAnswers`/`CompletionFails`/`Retry`,
  `JudgeAnswers`/`JudgeFails`, `MirrorSucceeds`/`MirrorFails`, `Commit`,
  `Answer`/`AnswerFails`, and `HandlerFails`, `Crash`. The mirror's answer and the
  trace's arrival are different things: the Langfuse client queues a trace under
  an id the mirror chose and does not report a failed upload, so after
  `MirrorSucceeds` the trace is in `traces` or lost. `EventLoopFree` is the
  fact the code leans on: a coroutine that never awaits is not interleaved with
  another one. `event[r].seen` is the handler's copy of the session rows.
* **`Intake`** the abstract specification of ingestion: an event is stored
  whole, in the order of the events' times, in the session the tables call for
  at the moment it is stored.
* **`DetectorBase`, `Probing`, `Escalation`, `Enumeration`** the three `detect`
  functions and their helpers in hundredths, rounded down: DBSCAN with core and
  border points in the order scikit-learn labels them, Spearman's correlation
  with shared ranks, normalised entropy of first differences.
* **`RollingWindow`** a window that grows at one end and loses rows at the
  other, and what the orchestrator makes of the three results.
* **`RuntimeConfig`** the override store and the request that changes it. A PUT
  is received, then refused as a whole (a key that is not tunable) or applied
  (`UpdateOverrides`), then answered by a second merge (`AnswerPut`). `overrides`
  is the dictionary; `put` is where each request stands.
* **`AlertFeed`** the alerts and the two operators' requests on them, one action
  per statement: `CountAlerts` and `ReadPage` of a list, `LoadAlert`,
  `FlushPatch` (which waits for the row while another transaction has changed
  it), `CommitPatch` and `AnswerPatch` of a patch. SQLAlchemy sends no UPDATE
  for a value that is what it was: `Updates`.
* **`Operations`** the composition of the two with the scorer and the tables.
  `Under(s)` is the scorer under the settings `s`, an instance of
  `ProfileUpdates` for the settings a job took along: the environment's for a
  background cycle (`StartCycle`), the merged ones for a recompute
  (`StartRecompute`). The transaction of a cycle is one step and an event is
  stored in one step: that is what `SerialScoring` and `Intake` promise and
  `cycle_safety` and `ingestion` check of the detailed modules.
* **`Harness`** the harness, request by request, with what it remembers between
  them (`sessionId`, `errors`, `failed` for the results table), against a
  service whose background cycles run at any time and may fail. `Plans` is what
  the persona generators return, as a constant. A persona may have more sessions
  than a cycle reads (two of the shipped ones do): `WindowRows` keeps the rows
  since the start of the `WindowSessions`-th latest session.
* **`ScoringProofs`, `TableProofs`** lemmas on the scorer and the tables;
  **`DetectionCycleProofs`, `RequestProofs`** (the requests of `Operations`:
  puts and patches)**, `OperationsProofs`** (its cycles and readers)**,
  `IngestionProofs`, `HarnessProofs`, `DetectorProofs`** the theorems.

## 3. The runs

Every run gives values to constants only; no definition is replaced. Each
property of a passing run has a mutant in `PROJECT.json`: a plausible bug in a
definition (kept beside it and marked `mutant`) that makes TLC refute it.

### Passing runs

| Run | Bounds | Checks |
|---|---|---|
| `cycle_safety` | 1 user, 2 threads, 2 events, 3 instants, 1 admin request of each kind, 1 fault; threads symmetric | `TypeOK`, `NoLostUpdate`, `CountsComplete`, `AlertOnlyOnCrossing`, `ImplementsSerial` |
| `cycle_liveness` | 2 users on one lock key, 2 threads, 1 event each, 1 admin request, 1 fault | `EventuallyScored`, `LostTasksAreMadeUpFor`, `LocksReleased` |
| `ingestion` | 1 user, 2 requests, 2 instants, 2 model attempts, 1 fault, 3 kinds of prompt, 3 of reply | `TypeOK`, `SessionsCountTheirEvents`, `AnswersTellTheTruth`, `OrphanTracesWereRefused`, `AllowedMeansClean`, `ImplementsIntake`, `EveryRequestAnswered` |
| `detectors` | all windows of up to 4 rows, 6 kinds of prompt, 3 sessions | `TypeOK`, `DominantTechniqueFired`, `EvidenceStandsAlone`, `PassedPromptsNeverRaiseProbing`, `ChatterLeavesEscalation` |
| `operations` | users with 1 event each, 2 threads, 2 instants, 1 fault, pages of 1; together at most (`Loads`): one user, a recompute and 2 PUTs; two users, a recompute and a reader; two users, a reader and a patch; two users and 2 patches | `TypeOK`, `RecomputesSeeAnsweredPuts`, `PutAnswersShowTheUpdate`, `LastPatchWins`, `PatchAnswersAreRecent`, `NoAlertSkipped`, `TotalsAreBacked`, `AlertsCrossTheirThreshold` |
| `harness` | 2 personas (one to be alerted, one not), 5 prompts in 4 bursts, a window of 2 sessions, 1 poll, 2 faults | `TypeOK`, `BurstsAreSessions`, `GreenMeansWholePlan`, `VerdictsCoverTheTraffic`, `ResetTestFailsOnlyWhenRaced`, `TimingStaysInBounds`, `HarnessEnds` |

Why the bounds are enough for the cases of interest. In `cycle_safety` two
events and two threads give two overlapping cycles, an event that commits
inside a cycle, an admin request between or during cycles, and a rollback or a
crash at every statement; three instants with an inactivity limit of one reach
the reset and decay; a score unit of a third of the column makes rounding move
scores; the thresholds are reached by one strong or two weak cycles. In
`cycle_liveness` two users share a key, so a cycle can wait for an unrelated
one. In `ingestion` two requests fall in one session or in two, at the same
instant or later, with every combination of failures. In `detectors` four rows
reach clusters of two to four rows and chains of paraphrases, series of three
sessions rising, falling and flat, and groups with repeated and consecutive
numbers; counts in `Config` are scaled down, shares and similarities are the
service's defaults. In `operations` two users give two alerts, at equal or
different times, so that a list has two pages and an alert may arrive before,
between or after them; two PUTs overlap each other, a recompute and a restart;
two patches of one alert overlap at every statement; what has no state in
common (a PUT and a patch, the settings and a second user) is not combined,
which is what `Loads` is for. In
`harness` a burst of two prompts and bursts of one give the session hand-over
and the burst boundary, two faults give a lost answer and a lost cycle in one
run. The first persona has three sessions and the window keeps two, so its last
prompt pushes the first two out and the gain of a cycle goes 1, 2, 3, 2; scores
are stored as even numbers, so rounding happens; without failures the score of a
verdict is 8, when every cycle runs at once, up to 10, when they wait, both below
the cap of 13, and it falls below the threshold of 6 when enough cycles are lost.

Fairness. `cycle_liveness` assumes weak fairness of the handler's end, of each
thread's next statement and of starting scheduled tasks: the pool runs its
threads and PostgreSQL grants a free lock. Weak fairness of lock acquisition is
enough because the jobs that compete for a key are finitely many, so the lock
is free for good in the end. Nothing is assumed about faults.
`EventuallyScored` holds only without faults, and says so: a rolled back cycle
is not retried and a task does not survive the process. `LostTasksAreMadeUpFor`
is about those faults: whatever tasks they took, once no more of them come the
next cycle of the user, of a new event or of a recompute, counts all there is.
That such a cycle comes is up to the client and the operator, and is the
property's precondition. `ingestion` assumes
weak fairness of each handler: every call it makes returns, the model's within
its client timeout. `harness` assumes weak fairness of the harness
alone: each of its requests is answered or times out after the 60 seconds of
its client, and it sleeps between requests for a finite time. Nothing is
assumed about the service's background cycles.

### What the documents say and the code does not do

Each of these runs checks one statement of a document, a docstring or a test,
and TLC finds the behaviour that violates it. `PROJECT.json` quotes the lines.

* `silent_alert`: the status and the alert are decided on the unrounded score,
  the next cycle compares with the rounded one. A score of 69.996 is "watch",
  is stored as 70.00, and the user becomes "alerted" without an alert.
* `late_clock`: a cycle reads the clock before it waits for the lock; it then
  writes an earlier `last_scored_at` over a later one, and part of the decay is
  applied twice.
* `repeated_recompute`: an event is stored and its own cycle scores it; the
  profile is backdated; a recompute resets the row for inactivity, and in doing
  so restores `last_event_at` from the interactions; the next recompute sees no
  inactivity any more and re-applies the signals of that same event. The
  property asks for a window without any event that was not scored before
  (`MCRepeatedRecompute`), so a recompute that merely comes before an event's
  own cycle is no violation of it.
* `config_ignored`: a PUT lowers the alert threshold, GET reports the lower
  one, and a background cycle takes a user across it without an alert, because
  it scores under the environment's settings.
* `wide_window`: the window is cut at the start of the oldest session allowed,
  by the time of the interactions; an older session that a client uses again
  belongs to it too, one session more than the docstring allows.
* `judge_outage`: a failing capability judge refuses the event although the
  failed completion of the same request was degraded gracefully.

Four more differences were read off the code and need no run: detection is
not idempotent per interaction as `PS-4.3-Implementation-Plan.md:383` says,
every cycle adds the signals of the whole window again (`repeated_recompute`
shows the consequence); a prompt that matches a deny pattern is "flagged", not
"blocked", while the model is down (`app/llm/guardrail.py:60`); a trace is sent
before the commit and stays when the commit fails (`app/api/events.py:108`; no
other orphan is left, `OrphanTracesWereRefused`); an interaction keeps the id of
a trace "when mirroring succeeds" (`README.md:64`), but the mirror returns the id
once the trace is queued, and an upload that fails later goes unnoticed
(`app/integrations/langfuse_mirror.py:69`, `:90`), so no property says that a
stored id has a trace.

## 4. What is proved

`DetectionCycleProofs` proves five theorems of `DetectionCycle!Spec` for every
value of the constants: any number of users, threads and lock keys, any
assignment of users to keys, any settings, any detectors, any bounds.

* `TypeCorrect`: `TypeOK` always holds. In particular a score never leaves
  `0 .. Cap` and what is stored is a value the column can hold.
* `NoUpdateIsLost`: `NoLostUpdate` always holds.
* `AlertsMarkCrossings`: `AlertOnlyOnCrossing`.
* `CyclesAreSerial`: the specification implements `SerialScoring`.
* `EveryEventIsCounted`: `CountsComplete` always holds.

The argument. `NoLostUpdate` is not inductive: it does not say that a thread
that has read the row is the one that may write it. The inductive invariant is
`IInv == TypeInv /\ LockInv`, where `LockInv` says that a thread in a stage
after the lock is the holder of its user's key, that a holder is in such a
stage, and that the row a reading thread has seen is the committed row. A
commit changes the row of one user, whose key the committing thread holds;
every other thread that has read that row would hold the same key, so it is the
same thread. The two action properties and the refinement follow from the
invariant: a commit writes `CycleProfile` of the row seen, which is the row
committed, and the remaining steps leave the three tables alone.

`CountsComplete` needs a strengthening over cycles in progress (`CountsInv`):
as long as nothing has failed, a user with events either has a
cycle that is scheduled or has not begun to count (`Due`), or the cycles that
are counting have counted what there is (`Fresh`), and if there are none the
row carries those counts (`RowComplete`). An event that commits makes a cycle
due, so a count that has become stale is never the last word.

`RequestProofs` and `OperationsProofs` prove eight theorems of `Operations!Spec`,
for any number of requests, threads, users, alerts and faults.

* `PutAnswersAreTrue`: `PutAnswersShowTheUpdate`; `RecomputesAreCurrent`:
  `RecomputesSeeAnsweredPuts`. Neither mentions who wrote an override. The
  invariant does: the value of each overridden setting is that of a request
  which no applied request strictly followed (`LastWriter`), and a request
  strictly follows only requests that are over (`AfterAnswered`). A merge reads
  such values, and what a request has read stays justified, because requests
  that are in force keep their bodies and histories (`PutsKept`) and a restart
  makes all of them void together.
* `LastPatchStays`: `LastPatchWins`; `PatchAnswersAreTrue`:
  `PatchAnswersAreRecent`. The difficulty is the patch that reads the status it
  asks for and then writes nothing. The invariant (`Settled`) says that the
  status is that of a patch no effective patch strictly followed, and that a
  patch in flight has either read that very status or does not strictly follow
  that patch; so when it commits without a write, either it asked for the
  status there is, or it may be taken to have come first.
* `AlertsCross`: `AlertsCrossTheirThreshold`. The part of the scorer that reads
  no tunable setting is the same under any settings (`SameScorer`), so the
  lemmas of `ScoringProofs` serve for the settings a job was given when its
  request came in. Under those an outcome with an alert is a crossing of their
  threshold (`SoundOutcome`), and rounding the score for its column does not
  undo that as long as the thresholds in the override store and in the jobs are
  storable (`OverrideStorable`, `JobsStorable`), which merges and updates keep.
* `ListingsSkipNothing`: `NoAlertSkipped`; `TotalsAreTrue`: `TotalsAreBacked`.
  An offset is a position in a list that grows while it is read. The invariant
  (`ReadersSound`) counts instead: at least as many alerts as the reader has
  gone past are newer than an alert of `before` that it has not seen, and what
  is committed only adds to those; so no page ends the list before it. Nothing
  ever leaves an unfiltered list, so the total is still there when the page is
  read.
* `OperationsTypes`: `TypeOK`; the load bounds (`LoadInv`) need that the
  requests in flight are always among those of one of `Loads`.

`IngestionProofs` proves six theorems of `Ingestion!Spec`, for any requests,
users, rules, prompts, replies and faults: `IngestionTypes`, `SessionsCount`,
`AnswersAreTrue`, `OrphansWereRefused`, `AllowedIsClean` (one for each invariant of
the run) and `IngestionImplementsIntake`. A handler writes the session from a
copy it read before it asked the model, so the heart of the invariant is
`CopyIsCurrent`: the copy is the committed rows and no stored event is later
than the handler's. It holds because handlers are alone between their start and
their answer (`Alone`, from the guard `EventLoopFree`), and it makes the commit
the `StoreEvent` of `Intake`. The rest of the invariant says what a handler
knows at each stage (`Fits`: whose prompt it has, that a judged event is clean) and that rows
belong to sessions there are. For the orphans it says of a trace, whether or not
its upload arrived, that its request is past the mirror (`TracesSent`): such a
request is stored by the commit or refused by whatever fails before it.

`HarnessProofs` proves six theorems of `Harness!Spec`, for any personas,
plans, settings, detectors and failures: `HarnessTypes`, `VerdictsCover`
(`VerdictsCoverTheTraffic`), `ResetTestIsRight`
(`ResetTestFailsOnlyWhenRaced`), `BurstsStayTogether` (`BurstsAreSessions`),
`GreenIsWhole` (`GreenMeansWholePlan`) and `TimingIsBounded`
(`TimingStaysInBounds`). For the first three the invariant
follows a persona: once the
harness is `Through` with it, its rows no longer change and its profile counts
them all, which background cycles, whenever they come, preserve
(`ThroughMeansCovered`); and while the reset test runs unraced, no cycle of its
user is due, so the row between the two requests is the backdated one, whose
next cycle is a reset (`CycleResets`).

For the next two it relates the rows to the place in the plan (`BInv`). While a
burst is sent, the rows of the open session are those of this burst, and a row
of the burst in another session is `Split` off for good: its answer was an
error, it is alone, and no later event joins it because the harness never
learned its session (`Grouped`). Without an error, the prompts stored are the
bursts sent so far, one after the other, and the part of the current one
(`PlanFollowed`), where the bursts so far are a recursive function of the plan
(`FlatBursts`). That errors are counted per persona and end up in the results
table is what carries this to the exit code: a verdict of all of a plan needs
`~Erred(k)`. `PlacesAssumption` says that a prompt stands for its place.

For the last one the invariant (`TimingInv`) counts the cycles of a persona that
are through, `CyclesDone`: its rows less its queue, and the recompute. As long
as nothing has failed, the stored prompts are the beginning of the plan
(`PlanBegun`), so the next cycle, whichever it is, finds at least as many prompts
as there were cycles before it. Which of them it reads depends on the sessions:
without failures they are the bursts, numbered alike (`SessionInv`; a
lost answer would split a burst in two and shift the numbers), so the window
after `n` prompts is `WindowAfter(k, n)`, the rows of the last `WindowSessions`
bursts begun by then (`PromptsOfRows`). The cycle therefore adds a gain that is
one of `GainsOf` (`CycleAddsGain`: no time has passed and no reset is due). The score therefore
stays between `LowestScores` and `HighestScores` at that number of cycles,
because accumulating, capping and rounding to the column keep the order of
scores (`GrownKeepsOrder`). Nothing is asked of the detectors, nor that windows
only grow. Where the gain never falls as prompts are stored (`GainGrows`),
`PromptCyclesScoreLowest` says that the lowest score is that of cycles that run
at once and the highest that of cycles that wait; a persona that outgrows the
window need not be like that, and the first one of the run is not.

`DetectorProofs` proves five theorems of `RollingWindow!Spec`, for
windows of any length, any kinds of prompts, similarities, levels and, but for
`DominantFired`, settings.

* `ChatterIsIgnored`: `ChatterLeavesEscalation`. The verdict is a function of
  the series of session levels (`VerdictOfLevels`), and a maximum does not
  change by a level at or below it (`ChatterKeepsLevels`).
* `PassedTrafficDilutes`: `PassedPromptsNeverRaiseProbing`. The blocked rows,
  their neighbourhoods and so their clusters stay; the largest cluster is one
  of them (`LargestIsOne`) and made of rows of the window (`ClustersOfRows`,
  where chains of core points are a recursive function), so its mean similarity
  stays too (`PassedRow`); only the block rate falls (`RateFalls`). A detector
  that stops firing then keeps 0.3 of a signal that is no larger
  (`GateIsMonotone`). `ProbingAssumption` says that what the detector divides
  by is positive.
* `EvidenceSuffices`: `EvidenceStandsAlone`. For escalation, every session's
  highest row is one that rose to its session's level, so the evidence has the
  level series of the window (`RisesKeepLevels`). For enumeration, the rows of
  one template are their own largest group (`GroupAlone`) with the same slot
  values and a share of 100 (`FullShare`), and their mean similarity is the
  same sum under other positions (`PairsRenamed`, `SumRenamed`,
  `MeanIsKept`). The restriction takes the members of a set in order, which is
  a bijection (`OrderedSet`).
* `SignalsInRange`: `TypeOK`, and with it that `Detect` of the other modules is
  what they assume, a function into `Signals`. A result is `Graded` when its
  signal is a fraction, its evidence is in the window, it is at most 30 if the
  detector did not fire and at least the detector's floor if it did; the three
  detectors are (`ProbingIsGraded`, `EscalationIsGraded`,
  `EnumerationIsGraded`). The terms are fractions one by one: shares are of
  parts of the rows (`ShareOfMany`); the correlation, whose deviations add up to
  integers (`SumOfIntegers`), has a root in hundredths (`RootExists`); levels
  that differ are of two sessions at least (`RangeOfLevels`); the entropy is not
  negative, because each value weighs at most what it would among all of them
  (`SpreadIsBounded`), and the slot values of a window do not outgrow the table
  of logarithms (`JoinedFits`, which is what `Len(window) <= MaxEvents` in the
  invariant `WindowInv` is for). That the correlation and the normalised
  entropy are at most 1 is no part of the proof: it is Cauchy-Schwarz and
  Gibbs, facts of real numbers, and the model, which has only hundredths of
  logarithms, caps both at 100.
* `DominantFired`: `DominantTechniqueFired`. From the same gradation: what did
  not fire is at most 30, what fired reaches its floor, and the ranking prefers
  probing (`RankingOfFired`). The hypothesis `SeparatingSettings` puts the
  floors above 30, that of probing at 30 or more. It is not true of all
  settings: with a saturation far above the minimum size of a cluster a detector
  fires with less than another keeps without firing. The defaults satisfy it
  (floors of 0.305, 0.59 and 0.49) and TLC evaluates it on those of
  `MCRollingWindow`. Probing is the close one: `PROBING_CLUSTER_SATURATION` at
  21 instead of 20 leaves a floor of 0.299.

Induction. The library's induction theorems take an operator and cannot be
cited; its well-founded minimum takes a set, and the least counterexample
(`LeastExists`) is induction enough for the recursive functions here: a lemma
that the function exists (`FlatBurstsExist`, `ReachExists`, `SumExists`), its
equation, and the least argument at which a claim about it would fail.

The lemmas. `ScoringProofs` has the arithmetic of the scorer: rounding returns
the nearest stored score (`RoundedIsNearest`) and does not move a score at or
above the threshold below it (`RoundedKeepsThreshold`, where the threshold is
itself a stored score), accumulation keeps within the cap, an alert means a
crossing of the stored scores (`CycleAlertMeansCrossing`). `TableProofs` types
the queries: the newest event, the session cut-off, the window.

The assumptions: those named in the modules and evaluated by TLC. Time is a
number that never decreases (the wall clock is monotone); `AlertThreshold` is a
value of the column; decay leaves between nothing and everything; `Detect`
returns signals in range, which `SignalsInRange` proves of the real detectors;
the thresholds of a detector are integers, what it divides by is positive, and
the table of logarithms grows and is as long as a window has slot values.

Only model-checked: liveness (`EventuallyScored`,
`LostTasksAreMadeUpFor`, `LocksReleased`, `EveryRequestAnswered`, `HarnessEnds`), which is out of the prover's reach.
Every invariant and every action property of a passing run is a theorem.

## 5. Abstractions

* Settings are the same for all cycles of a run in `DetectionCycle`; only in
  `Operations` do they change. There the thresholds and the inactivity limit
  stand for all tunable settings, and their values are numbers: what a value of
  another type does is a failed cycle. The window is cut under the environment's
  settings in every cycle, as the code does.
* An update of the override dictionary and a merge of it are one step each: one
  call on a built-in dictionary, which CPython does not interrupt.
* History variables, which no guard reads: `after` of a request (what was
  answered before it came in), `known` of a job (what was answered when it was
  given its settings), `before` of a reader (the alerts there were when it
  began), `raced` of the harness, `scoredEvents` and `zeroed` of
  `MCRepeatedRecompute`.
* The Langfuse client is a library: that its `trace()` queues under the caller's
  id and that a failed upload reaches nobody is taken from its use and its
  pinned version, not from code in the repository. Its threads are not modelled.
* The client that pages through the feed is not in the repository; it asks for
  the next offset until a page is not full. Alerts of equal times come in any
  order, anew for each statement.
* `RunCycle` of `Operations` leaves out the pattern rows, which
  `DetectionCycle` has, and the wait for the lock, of which it keeps the time
  and the settings taken before it.
* `AlertsCrossTheirThreshold` is about thresholds the score's column can hold,
  two decimals, or above the cap (`BodyAssumption`); a finer override brings
  back what `silent_alert` shows.
* `Harness` runs within one instant, so scores do not decay, sessions do not
  expire and no row is older than `WINDOW_DAYS`. The other limit of the window,
  `WINDOW_SESSIONS`, is there (`WindowRows`). The client is sequential, so
  sessions are numbered in the order they begin and the last ones are the newest.
  A background cycle is one step: what happens to cycles that wait for the lock
  (`late_clock`) is `DetectionCycle`'s. A persona is its prompts, each with a
  number. Of the two
  requests that decide "alert raised" the second one, which sets the verdict,
  is modelled. Its results table keeps only failed rows.
* A window is a set of interaction numbers and the verdict of the detectors a
  function of it: rows are never updated, so equal sets are equal windows.
* The profile and the newest event are read by one action: both happen under
  the user's lock and events only append. A missing signal is read as 0.
* In `DetectionCycle` the commit of an event and its `add_task` are one action,
  with a variant that loses the task; `Ingestion` keeps them apart.
* The timestamp of a backdate travels in the `now` field of its job.
* The optimistic `expected_version` check is dead code: no caller passes it.
* The `except` around `llm.complete` in `create_event` is never taken with the
  Groq provider, which swallows every error; it is a case of `RejectEvent`.
* The guardrail's "harmful_output" branch is in the model and never taken: the
  same pattern has blocked the prompt in layer 1.
* An interaction's capability level is not kept in `Ingestion`, whose
  properties do not depend on it; whether the judge is asked is.
* Rows of a detector window always carry an embedding, a template and a level,
  as `create_event` always writes them. Equal timestamps are any order.
* `EvidenceStandsAlone` does not cover probing: a border point that an earlier
  cluster claims may support another cluster's core point without being in its
  evidence.

Hazards without a property have a note in `PROJECT.json`: the order of rows with
equal times, which the detectors' clusters depend on, is the database's and the
models append rows in one order; a merge of the settings is one step, so its read
of the dictionary without the lock cannot be torn in the model; and that a
restart loses the overrides silently is a fact, which
`RecomputesSeeAnsweredPuts` excepts and no document denies. Nor does the service
depend on whether a queued trace arrives.

Bounds: `MaxTime`, `MaxEvents`, `MaxAdmin`, `MaxFaults`, `MaxSessions`, the
sets `Requests`, `Puts`, `Readers` and `Patches`, and `Loads` bound what would
otherwise be unbounded; they are guards of the actions that count and nothing
else depends on them. The MC modules add a `Finished` stutter for the states in
which all of them are used up, so that deadlock is checked everywhere else.

## 6. Not modelled, and what is next

Not modelled: the texts of the personas, prompt normalisation and embeddings
(pure functions of text); the rate limiter, whose counting is slowapi's and of
which the code only picks the key (`SendRefused` of `Harness` has its 429); the
stub provider, which keeps no state and never fails; endpoints that only read
one row; the application shell, the migrations and the deployment scripts.

Next, in order:

1. Ingestion composed with the cycle: the answer's risk snapshot against the
   profile, and `Ingestion` as the environment of `DetectionCycle`.
2. Window properties: the order of rows with equal times.
