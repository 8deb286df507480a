----------------------------- MODULE Operations -----------------------------
(***************************************************************************)
(* The service as its operators see it: settings changed at runtime,       *)
(* cycles that score under the settings they were started with, and the    *)
(* feed of alerts those cycles write, read and patched at the same time.   *)
(*                                                                         *)
(* An event is stored whole, as Intake has it, and the transaction of a    *)
(* cycle is one step, as SerialScoring has it: Ingestion and               *)
(* DetectionCycle implement the two. What remains of a cycle's duration is *)
(* what it took along before it had the lock: the time and the settings.   *)
(***************************************************************************)
EXTENDS RuntimeConfig, AlertFeed, InteractionTables

CONSTANTS
  Workers,        \* threads of the server's thread pool
  Loads,          \* bound: how many users and requests may come together
  MaxFaults       \* bound: cycles that fail and restarts of the process

VARIABLES
  clock,
  sessions, interactions,  \* user -> committed rows
  queue,                   \* user -> background cycles scheduled
  job,                     \* worker -> the cycle it runs
  profile,                 \* user -> row of user_risk_profiles
  recomputes, faults       \* so far

tableVars == <<sessions, interactions>>
scoreVars == <<job, profile>>
vars == <<clock, tableVars, queue, scoreVars, recomputes, faults, configVars, feedVars>>

(* The settings the scorer reads; the environment's are the constants of   *)
(* ProfileUpdates.                                                         *)
ASSUME OperationsAssumption ==
  /\ Fields = {"alert_threshold", "watch_threshold", "inactivity_reset_seconds"}
  /\ Env["alert_threshold"] = AlertThreshold
  /\ Env["watch_threshold"] = WatchThreshold
  /\ Env["inactivity_reset_seconds"] = InactivityLimit
  /\ MaxFaults \in Nat
  /\ Loads # {}
  /\ Loads \subseteq [{"users", "recomputes", "puts", "readers", "patches"} -> Nat]

(* An alert threshold asked for is one the column of the alerts holds, or  *)
(* one no score reaches.                                                   *)
ASSUME BodyAssumption ==
  \A body \in Bodies : "alert_threshold" \in DOMAIN body =>
    body["alert_threshold"] \in Stored \/ body["alert_threshold"] > Cap

Tables == INSTANCE Intake

(* The scorer under the settings s.                                        *)
Under(s) == INSTANCE ProfileUpdates WITH
  AlertThreshold <- s["alert_threshold"],
  WatchThreshold <- s["watch_threshold"],
  InactivityLimit <- s["inactivity_reset_seconds"]

(* known is history: the PUT requests answered when the job was given its  *)
(* settings.                                                               *)
Job == [user : Users, kind : {"detect", "recompute"}, now : Time,
        settings : Settings, known : SUBSET Puts]

Init ==
  /\ clock = 0
  /\ Tables!Init
  /\ queue = [u \in Users |-> 0]
  /\ job = [w \in Workers |-> NULL]
  /\ profile = [u \in Users |-> NULL]
  /\ recomputes = 0
  /\ faults = 0
  /\ ConfigInit
  /\ FeedInit

-----------------------------------------------------------------------------
Tick ==
  /\ clock < MaxTime
  /\ clock' = clock + 1
  /\ UNCHANGED <<tableVars, queue, scoreVars, recomputes, faults, configVars, feedVars>>

StoreEvent(u) ==
  /\ Len(interactions[u]) < MaxEvents
  /\ Tables!StoreEvent(u, 0, clock)
  /\ queue' = [queue EXCEPT ![u] = @ + 1]
  /\ UNCHANGED <<clock, scoreVars, recomputes, faults, configVars, feedVars>>

(* run_detection_for_user: DetectionOrchestrator() takes get_settings().   *)
StartCycle(w, u) ==
  /\ job[w] = NULL
  /\ queue[u] > 0
  /\ queue' = [queue EXCEPT ![u] = @ - 1]
  /\ job' = [job EXCEPT ![w] =
       [user |-> u, kind |-> "detect", now |-> clock, settings |-> Env,
        known |-> AnsweredPuts]]
  /\ UNCHANGED <<clock, tableVars, profile, recomputes, faults, configVars, feedVars>>

StartRecomputeCached(w, u) ==  \* mutant: the merge was cached once
  /\ job[w] = NULL
  /\ recomputes' = recomputes + 1
  /\ job' = [job EXCEPT ![w] =
       [user |-> u, kind |-> "recompute", now |-> clock, settings |-> Env,
        known |-> AnsweredPuts]]
  /\ UNCHANGED <<clock, tableVars, queue, profile, faults, configVars, feedVars>>

(* admin_recompute: the dependency merges the settings before the handler  *)
(* runs.                                                                   *)
StartRecompute(w, u) ==
  /\ job[w] = NULL
  /\ recomputes' = recomputes + 1
  /\ job' = [job EXCEPT ![w] =
       [user |-> u, kind |-> "recompute", now |-> clock,
        settings |-> EffectiveSettings, known |-> AnsweredPuts]]
  /\ UNCHANGED <<clock, tableVars, queue, profile, faults, configVars, feedVars>>

(* The users who have sent events and the operators' requests so far.      *)
Requests ==
  [users |-> Cardinality({u \in Users : interactions[u] # <<>>}),
   recomputes |-> recomputes,
   puts |-> Cardinality({p \in Puts : put[p].stage # "new"}),
   readers |-> Cardinality({r \in Readers : reader[r].stage # "new"}),
   patches |-> Cardinality({p \in Patches : patch[p].stage # "new"})]

WithinLoads == \E load \in Loads : \A k \in DOMAIN load : Requests[k] <= load[k]

(* The window is cut by get_settings() in every cycle.                     *)
Window(u, now) ==
  GetInteractionsWindow(SessionCutoff(sessions[u]), interactions[u], now)

ThresholdAtWrite(settings) == EffectiveSettings["alert_threshold"]  \* mutant

ThresholdOf(settings) == settings["alert_threshold"]

(* The transaction of a cycle. Its pattern rows are left out.              *)
RunCycle(w) ==
  LET u == job[w].user
      now == job[w].now
      settings == job[w].settings
      drafts == Under(settings)!CycleAlerts(<<>>, profile[u], now, Window(u, now))
  IN
  /\ job[w] # NULL
  /\ profile' = [profile EXCEPT ![u] =
       Under(settings)!CycleProfile(
         @, now, GetLatestUserEventAt(interactions[u]), Window(u, now),
         Len(sessions[u]), Len(interactions[u]))]
  /\ feed' = IF drafts = <<>> THEN feed
             ELSE CreateAlert(feed, u, now, drafts[1], ThresholdOf(settings))
  /\ job' = [job EXCEPT ![w] = NULL]
  /\ UNCHANGED <<clock, tableVars, queue, recomputes, faults, configVars, reader, patch>>

(* The transaction rolls back; nothing retries it.                         *)
FailCycle(w) ==
  /\ faults < MaxFaults
  /\ job[w] # NULL
  /\ job' = [job EXCEPT ![w] = NULL]
  /\ faults' = faults + 1
  /\ UNCHANGED <<clock, tableVars, queue, profile, recomputes, configVars, feedVars>>

(* What is only in memory is gone: scheduled tasks, overrides, requests.   *)
Restart ==
  /\ faults < MaxFaults
  /\ faults' = faults + 1
  /\ queue' = [u \in Users |-> 0]
  /\ job' = [w \in Workers |-> NULL]
  /\ ForgetOverrides
  /\ DropRequests
  /\ UNCHANGED <<clock, tableVars, profile, recomputes>>

(* One request more to an operators' endpoint; what it touches is in it.   *)
Request ==
  \/ \E w \in Workers, u \in Users : StartRecompute(w, u)
  \/ /\ \E p \in Puts, body \in Bodies : ReceivePut(p, body)
     /\ UNCHANGED <<clock, tableVars, queue, scoreVars, recomputes, faults, feedVars>>
  \/ /\ \/ \E r \in Readers, filter \in Filters : BeginListing(r, filter)
        \/ \E p \in Patches, i \in DOMAIN feed, status \in AlertStatuses :
             LoadAlert(p, i, status)
     /\ UNCHANGED <<clock, tableVars, queue, scoreVars, recomputes, faults, configVars>>

Next ==
  \/ Tick
  \/ Restart
  \/ (\E u \in Users : StoreEvent(u)) /\ WithinLoads'
  \/ \E w \in Workers :
       \/ RunCycle(w)
       \/ FailCycle(w)
       \/ \E u \in Users : StartCycle(w, u)
  \/ Request /\ WithinLoads'
  \/ /\ ConfigStep
     /\ UNCHANGED <<clock, tableVars, queue, scoreVars, recomputes, faults, feedVars>>
  \/ /\ FeedStep
     /\ UNCHANGED <<clock, tableVars, queue, scoreVars, recomputes, faults, configVars>>

Spec == Init /\ [][Next]_vars

-----------------------------------------------------------------------------
TypeOK ==
  /\ clock \in Time
  /\ sessions \in [Users -> Seq(SessionRow)]
  /\ interactions \in [Users -> Seq(InteractionRow)]
  /\ queue \in [Users -> Nat]
  /\ job \in [Workers -> Maybe(Job)]
  /\ profile \in [Users -> Maybe(Profile)]
  /\ WithinLoads
  /\ faults \in 0 .. MaxFaults
  /\ DOMAIN overrides \subseteq Fields
  /\ put \in [Puts -> PutRequest]
  /\ feed \in Seq(AlertRow)
  /\ reader \in [Readers -> ReaderState]
  /\ patch \in [Patches -> PatchRequest]

(* An alert row carries the threshold it was raised under: the score next  *)
(* to it in the same commit crossed exactly that threshold, although the   *)
(* settings may have been changed since the cycle began and other cycles   *)
(* of the user score under other settings.                                 *)
AlertsCrossTheirThreshold ==
  [][\A i \in DOMAIN feed' \ DOMAIN feed :
       LET row == feed'[i] IN
       /\ profile[row.user] = NULL \/ profile[row.user].score < row.threshold
       /\ profile'[row.user].score = row.score
       /\ row.threshold <= row.score]_vars

(* An operator who gets an answer to PUT /admin/config and then asks for a *)
(* recompute has it scored under that change or a later one, per setting,  *)
(* while the process lives.                                                *)
RecomputesSeeAnsweredPuts ==
  \A w \in Workers :
    job[w] # NULL /\ job[w].kind = "recompute" =>
      \A f \in Fields : CurrentValue(f, job[w].settings[f], job[w].known)

(* The answer of a PUT, built after the update gave its lock back, shows   *)
(* the values asked for or those of a request that ran at the same time.   *)
PutAnswersShowTheUpdate ==
  \A p \in AnsweredPuts : \A f \in DOMAIN put[p].body :
    \/ put[p].answer[f] = put[p].body[f]
    \/ \E q \in Puts : /\ Overrides(q, f, put[p].answer[f])
                       /\ p \notin put[q].after /\ q \notin put[p].after

(* Concurrent patches of an alert leave the status of one that no other    *)
(* strictly followed: an answered patch is overwritten only by a patch     *)
(* that was not over when it began, failures and restarts included.        *)
Effective(i) ==
  {p \in Patches : /\ patch[p].alert = i
                   /\ patch[p].stage \in {"committed", "answered", "unanswered"}}

LastPatchWins ==
  \A i \in DOMAIN feed :
    IF Effective(i) = {} THEN feed[i].status = "open"
    ELSE \E p \in Effective(i) :
           /\ feed[i].status = patch[p].asked
           /\ \A q \in Effective(i) : p \notin patch[q].after

(* A patch is answered with the status it asked for, or with that of a     *)
(* patch of the same alert that ran at the same time.                      *)
PatchAnswersAreRecent ==
  \A p \in Patches : patch[p].stage = "answered" =>
    \/ patch[p].answer = patch[p].asked
    \/ \E q \in Effective(patch[p].alert) :
         /\ patch[p].answer = patch[q].asked
         /\ p \notin patch[q].after /\ q \notin patch[p].after

(* A client that reads the feed page by page, without a status filter,     *)
(* sees every alert there was when it began, although cycles add alerts    *)
(* between its requests; alerts with equal times, which have no order,     *)
(* apart.                                                                  *)
Stable(r) == reader[r].stage = "done" /\ reader[r].filter.status = NULL

NoAlertSkipped ==
  \A r \in Readers : Stable(r) =>
    \A i \in reader[r].before \ reader[r].seen :
      \E j \in DOMAIN feed \ {i} : feed[j].at = feed[i].at

(* The total of a page is no promise the page does not keep: a client that *)
(* reaches the end has been given as many alerts as total said there were, *)
(* although the count and the page are two statements.                     *)
TotalsAreBacked ==
  \A r \in Readers : Stable(r) =>
    reader[r].offset + Cardinality(reader[r].page) >= reader[r].total

-----------------------------------------------------------------------------
(* "Return effective thresholds" (GET /v1/config): a cycle that begins     *)
(* when every PUT has been answered, and takes its user across the alert   *)
(* threshold in effect, raises an alert.                                   *)
ReportedThresholdAlerts ==
  [][\A w \in Workers :
       LET u == job[w].user
           threshold == EffectiveSettings["alert_threshold"]
       IN  /\ job[w] # NULL
           /\ {p \in Puts : put[p].stage # "new"} \subseteq job[w].known
           /\ profile'[u] # NULL /\ profile'[u].score >= threshold
           /\ profile[u] = NULL \/ profile[u].score < threshold
           => \E i \in DOMAIN feed' \ DOMAIN feed : feed'[i].user = u]_vars
=============================================================================
