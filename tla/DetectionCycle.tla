--------------------------- MODULE DetectionCycle ---------------------------
(***************************************************************************)
(* The per-user detection cycle under concurrency: events are committed by *)
(* the request handler on the event loop, each schedules a background      *)
(* cycle, and cycles and admin requests run as transactions on worker      *)
(* threads, serialised per user by a Postgres advisory lock.               *)
(*                                                                         *)
(* A transaction is a sequence of statements, one action each; what it     *)
(* writes is visible to the others when it commits. Isolation is READ      *)
(* COMMITTED: each statement sees the rows committed before it.            *)
(***************************************************************************)
EXTENDS InteractionTables

CONSTANTS
  Users,
  Workers,       \* threads of the server's thread pool
  LockKeys,      \* values of hashtext(user_id)
  HashText,      \* user -> lock key; two users may share one
  AdminKinds,    \* the admin requests in use
  MaxAdmin,      \* bound: admin requests
  MaxFaults      \* bound: failed transactions, lost tasks and crashes

VARIABLES
  clock,         \* the wall clock
  sessions,      \* user -> committed rows of the sessions table
  interactions,  \* user -> committed rows of the interactions table
  arriving,      \* the event in the handler, NULL between requests
  queue,         \* user -> background cycles scheduled and not started
  pc,            \* worker -> where its transaction stands
  job,           \* worker -> what it was asked to do
  view,          \* worker -> what its statements have read
  holder,        \* lock key -> worker that holds the advisory lock
  profile,       \* user -> committed row of user_risk_profiles
  patterns,      \* user -> detected_patterns rows by technique
  alerts,        \* user -> alerts rows, oldest first
  admin,         \* admin requests made so far
  faults         \* faults so far

tables == <<sessions, interactions>>
scored == <<profile, patterns, alerts>>
threads == <<pc, job, view, holder>>
vars == <<clock, tables, arriving, queue, threads, scored, admin, faults>>

Serial == INSTANCE SerialScoring

Kinds == {"detect", "recompute", "reset", "backdate"}
Cycles == {"detect", "recompute"}
Reading == {"read", "cut", "windowed", "counted", "staged"}  \* has read the row
Holding == {"locked"} \cup Reading                           \* has the lock
Stages == {"idle", "locking"} \cup Holding

Arrival == [user : Users, ts : Time, session : Ids]
Job == [user : Users, kind : Kinds, now : Time]

ASSUME CycleAssumption ==
  /\ HashText \in [Users -> LockKeys]
  /\ NULL \notin Workers \cup Job \cup Arrival
  /\ AdminKinds \subseteq {"recompute", "reset", "backdate"}
  /\ MaxAdmin \in Nat
  /\ MaxFaults \in Nat

View == [seen : Maybe(Profile), latest : Maybe(Time), cutoff : Maybe(Time),
         window : SUBSET Ids, sessions : Nat, interactions : Nat]
EmptyView == [seen |-> NULL, latest |-> NULL, cutoff |-> NULL,
              window |-> {}, sessions |-> 0, interactions |-> 0]

Init ==
  /\ clock = 0
  /\ sessions = [u \in Users |-> <<>>]
  /\ interactions = [u \in Users |-> <<>>]
  /\ arriving = NULL
  /\ queue = [u \in Users |-> 0]
  /\ pc = [w \in Workers |-> "idle"]
  /\ job = [w \in Workers |-> NULL]
  /\ view = [w \in Workers |-> EmptyView]
  /\ holder = [k \in LockKeys |-> NULL]
  /\ Serial!Init
  /\ admin = 0
  /\ faults = 0

-----------------------------------------------------------------------------
(* The environment: time passes and events arrive. create_event never      *)
(* awaits, so one event at a time is between its arrival and its commit.   *)
Tick ==
  /\ clock < MaxTime
  /\ clock' = clock + 1
  /\ UNCHANGED <<tables, arriving, queue, threads, scored, admin, faults>>

ReceiveEvent(u) ==
  /\ arriving = NULL
  /\ Len(interactions[u]) < MaxEvents
  /\ \E requested \in 0 .. Len(sessions[u]) :
       arriving' = [user |-> u, ts |-> clock,
                    session |-> ResolveOrCreateSession(sessions[u], requested, clock)]
  /\ UNCHANGED <<clock, tables, queue, threads, scored, admin, faults>>

StoreArriving ==
  LET u == arriving.user IN
  /\ arriving # NULL
  /\ arriving' = NULL
  /\ sessions' = [sessions EXCEPT ![u] = WithEvent(@, arriving.session, arriving.ts)]
  /\ interactions' = [interactions EXCEPT ![u] =
       Append(@, [ts |-> arriving.ts, session |-> arriving.session])]
  /\ UNCHANGED <<clock, threads, scored, admin>>

(* The commit, then the background task.                                   *)
CommitEvent ==
  /\ StoreArriving
  /\ queue' = [queue EXCEPT ![arriving.user] = @ + 1]
  /\ UNCHANGED faults

(* The read of the profile after the commit fails: the response is an      *)
(* error and the tasks of the request are dropped with it.                 *)
CommitEventLoseTask ==
  /\ faults < MaxFaults
  /\ StoreArriving
  /\ faults' = faults + 1
  /\ UNCHANGED queue

(* The handler fails before its commit: nothing of the event remains.      *)
RejectEvent ==
  /\ arriving # NULL
  /\ arriving' = NULL
  /\ UNCHANGED <<clock, tables, queue, threads, scored, admin, faults>>

-----------------------------------------------------------------------------
Begin(w, u, kind, now) ==
  /\ pc[w] = "idle"
  /\ pc' = [pc EXCEPT ![w] = "locking"]
  /\ job' = [job EXCEPT ![w] = [user |-> u, kind |-> kind, now |-> now]]
  /\ UNCHANGED <<clock, tables, arriving, view, holder, scored, faults>>

(* A background task reads the clock before it asks for the lock.          *)
StartDetection(w, u) ==
  /\ queue[u] > 0
  /\ queue' = [queue EXCEPT ![u] = @ - 1]
  /\ Begin(w, u, "detect", clock)
  /\ UNCHANGED admin

(* POST /admin/recompute and /admin/reset, and, with the timestamp of its  *)
(* body in the field now, POST /admin/users/{user_id}/set_last_event_at.   *)
StartAdmin(w, u, kind, now) ==
  /\ admin < MaxAdmin
  /\ admin' = admin + 1
  /\ Begin(w, u, kind, now)
  /\ UNCHANGED queue

LockAlwaysFree(w) == TRUE  \* mutant

LockFree(w) == holder[HashText[job[w].user]] = NULL

TryAdvisoryLock(w) ==  \* mutant: gives the job up when the lock is taken
  /\ pc[w] = "locking"
  /\ IF LockFree(w)
       THEN /\ holder' = [holder EXCEPT ![HashText[job[w].user]] = w]
            /\ pc' = [pc EXCEPT ![w] = "locked"]
            /\ UNCHANGED job
       ELSE /\ pc' = [pc EXCEPT ![w] = "idle"]
            /\ job' = [job EXCEPT ![w] = NULL]
            /\ UNCHANGED holder
  /\ UNCHANGED <<clock, tables, arriving, queue, view, scored, admin, faults>>

(* pg_advisory_xact_lock blocks until the key is free. Only a reset reads  *)
(* the clock after it has the lock.                                        *)
AcquireUserAdvisoryLock(w) ==
  /\ pc[w] = "locking"
  /\ LockFree(w)
  /\ holder' = [holder EXCEPT ![HashText[job[w].user]] = w]
  /\ pc' = [pc EXCEPT ![w] = "locked"]
  /\ job' = IF job[w].kind = "reset" THEN [job EXCEPT ![w].now = clock] ELSE job
  /\ UNCHANGED <<clock, tables, arriving, queue, view, scored, admin, faults>>

Advance(w, from, to) ==
  /\ pc[w] = from
  /\ pc' = [pc EXCEPT ![w] = to]
  /\ UNCHANGED <<clock, tables, arriving, queue, job, holder, scored, admin, faults>>

(* get_risk_profile and get_latest_user_event_at.                          *)
ReadProfile(w) ==
  LET u == job[w].user IN
  /\ Advance(w, "locked", "read")
  /\ view' = [view EXCEPT ![w].seen = profile[u],
                          ![w].latest = GetLatestUserEventAt(interactions[u])]

SkipsDetectors(w) ==
  job[w].kind \notin Cycles \/ MustReset(view[w].seen, job[w].now)

ReadSessionCutoff(w) ==
  /\ Advance(w, "read", "cut")
  /\ ~SkipsDetectors(w)
  /\ view' = [view EXCEPT ![w].cutoff = SessionCutoff(sessions[job[w].user])]

(* The window ends at the time the cycle took before it had the lock.      *)
SelectWindow(w) ==
  /\ Advance(w, "cut", "windowed")
  /\ view' = [view EXCEPT ![w].window =
       GetInteractionsWindow(view[w].cutoff, interactions[job[w].user], job[w].now)]

(* Only a cycle and an inserting reset use the two counts.                 *)
CountSessions(w) ==
  /\ \/ pc[w] = "windowed"
     \/ pc[w] = "read" /\ SkipsDetectors(w)
  /\ Advance(w, pc[w], "counted")
  /\ view' = [view EXCEPT ![w].sessions = Len(sessions[job[w].user])]

StageWindowCount(w) ==  \* mutant: counts the window, not the table
  /\ Advance(w, "counted", "staged")
  /\ view' = [view EXCEPT ![w].interactions = Cardinality(view[w].window)]

(* The last count, and the rows are written and flushed.                   *)
Stage(w) ==
  /\ Advance(w, "counted", "staged")
  /\ view' = [view EXCEPT ![w].interactions = Len(interactions[job[w].user])]

-----------------------------------------------------------------------------
(* The end of a transaction releases its advisory lock.                    *)
Release(w) ==
  /\ pc' = [pc EXCEPT ![w] = "idle"]
  /\ job' = [job EXCEPT ![w] = NULL]
  /\ view' = [view EXCEPT ![w] = EmptyView]
  /\ holder' = [k \in LockKeys |-> IF holder[k] = w THEN NULL ELSE holder[k]]

WriteRows(w) ==
  LET u == job[w].user
      v == view[w]
      now == job[w].now
  IN  CASE job[w].kind \in Cycles ->
             /\ profile' = [profile EXCEPT ![u] =
                  CycleProfile(v.seen, now, v.latest, v.window,
                               v.sessions, v.interactions)]
             /\ patterns' = [patterns EXCEPT ![u] =
                  CyclePatterns(@, v.seen, now, v.window)]
             /\ alerts' = [alerts EXCEPT ![u] =
                  CycleAlerts(@, v.seen, now, v.window)]
        [] job[w].kind = "reset" ->
             /\ profile' = [profile EXCEPT ![u] =
                  ResetUserRiskProfile(v.seen, now, v.latest,
                                       v.sessions, v.interactions)]
             /\ UNCHANGED <<patterns, alerts>>
        [] job[w].kind = "backdate" ->
             /\ profile' = [profile EXCEPT ![u] = SetUserLastEventAt(v.seen, now)]
             /\ UNCHANGED <<patterns, alerts>>

Commit(w) ==
  /\ pc[w] = "staged"
  /\ WriteRows(w)
  /\ Release(w)
  /\ UNCHANGED <<clock, tables, arriving, queue, admin, faults>>

AbortKeepingAlerts(w) ==  \* mutant: the alert was committed on its own
  /\ faults < MaxFaults
  /\ pc[w] = "staged"
  /\ job[w].kind \in Cycles
  /\ alerts' = [alerts EXCEPT ![job[w].user] =
       CycleAlerts(@, view[w].seen, job[w].now, view[w].window)]
  /\ Release(w)
  /\ faults' = faults + 1
  /\ UNCHANGED <<clock, tables, arriving, queue, profile, patterns, admin>>

AbortHoldingLock(w) ==  \* mutant: a session-scoped lock nobody releases
  /\ faults < MaxFaults
  /\ pc[w] # "idle"
  /\ pc' = [pc EXCEPT ![w] = "idle"]
  /\ job' = [job EXCEPT ![w] = NULL]
  /\ view' = [view EXCEPT ![w] = EmptyView]
  /\ faults' = faults + 1
  /\ UNCHANGED <<clock, tables, arriving, queue, holder, scored, admin>>

(* An exception at any point rolls the transaction back; nothing retries.  *)
Abort(w) ==
  /\ faults < MaxFaults
  /\ pc[w] # "idle"
  /\ Release(w)
  /\ faults' = faults + 1
  /\ UNCHANGED <<clock, tables, arriving, queue, scored, admin>>

(* The server process dies: open transactions roll back, the event in the  *)
(* handler and every scheduled task are gone, the tables stay.             *)
Crash ==
  /\ faults < MaxFaults
  /\ faults' = faults + 1
  /\ arriving' = NULL
  /\ queue' = [u \in Users |-> 0]
  /\ pc' = [w \in Workers |-> "idle"]
  /\ job' = [w \in Workers |-> NULL]
  /\ view' = [w \in Workers |-> EmptyView]
  /\ holder' = [k \in LockKeys |-> NULL]
  /\ UNCHANGED <<clock, tables, scored, admin>>

-----------------------------------------------------------------------------
Progress(w) ==
  \/ AcquireUserAdvisoryLock(w)
  \/ ReadProfile(w)
  \/ ReadSessionCutoff(w)
  \/ SelectWindow(w)
  \/ CountSessions(w)
  \/ Stage(w)
  \/ Commit(w)

Next ==
  \/ Tick
  \/ \E u \in Users : ReceiveEvent(u)
  \/ CommitEvent
  \/ CommitEventLoseTask
  \/ RejectEvent
  \/ Crash
  \/ \E w \in Workers :
       \/ Progress(w)
       \/ Abort(w)
       \/ \E u \in Users :
            \/ StartDetection(w, u)
            \/ \E kind \in AdminKinds \ {"backdate"} :
                 StartAdmin(w, u, kind, clock)
            \/ \E ts \in Time :
                 "backdate" \in AdminKinds /\ StartAdmin(w, u, "backdate", ts)

Spec == Init /\ [][Next]_vars

(* The thread pool keeps running the transactions it started and starts    *)
(* those that are scheduled, and the event loop finishes its handler. A    *)
(* waiter gets the lock once it stays free: the jobs of a user are finite. *)
Fairness ==
  /\ WF_vars(CommitEvent \/ RejectEvent)
  /\ \A w \in Workers :
       /\ WF_vars(Progress(w))
       /\ WF_vars(\E u \in Users : StartDetection(w, u))

FairSpec == Spec /\ Fairness

-----------------------------------------------------------------------------
TypeOK ==
  /\ clock \in Time
  /\ sessions \in [Users -> Seq(SessionRow)]
  /\ interactions \in [Users -> Seq(InteractionRow)]
  /\ arriving \in Maybe(Arrival)
  /\ queue \in [Users -> Nat]
  /\ pc \in [Workers -> Stages]
  /\ job \in [Workers -> Maybe(Job)]
  /\ view \in [Workers -> View]
  /\ holder \in [LockKeys -> Maybe(Workers)]
  /\ profile \in [Users -> Maybe(Profile)]
  /\ patterns \in [Users -> [Techniques -> Nat]]
  /\ alerts \in [Users -> Seq(Alert)]
  /\ admin \in 0 .. MaxAdmin
  /\ faults \in 0 .. MaxFaults

(* No lost update (test_concurrency.py): the row a transaction read under  *)
(* the lock is still the committed row when it writes, whatever the other  *)
(* threads do, crash or roll back in between.                              *)
NoLostUpdate ==
  \A w \in Workers :
    pc[w] \in Reading => view[w].seen = profile[job[w].user]

(* "Alert only when risk newly crosses the configured threshold": an alert *)
(* row appears only together with the score that took the committed row    *)
(* from below the threshold to it, so an excursion has at most one alert   *)
(* however many cycles overlap in it.                                      *)
AlertOnlyOnCrossing ==
  [][\A u \in Users : alerts'[u] # alerts[u] =>
       /\ profile[u] = NULL \/ profile[u].score < AlertThreshold
       /\ profile'[u].score >= AlertThreshold
       /\ profile'[u].status = "alerted"]_vars

Working(u) == queue[u] > 0 \/ \E w \in Workers : pc[w] # "idle" /\ job[w].user = u

(* Every committed event is accounted for: once a user's cycles are done   *)
(* and none was lost, the row carries the counts of the tables, although   *)
(* events commit without the lock, between the statements of a cycle.      *)
CountsComplete ==
  \A u \in Users :
    faults = 0 /\ ~Working(u) /\ interactions[u] # <<>> =>
      /\ profile[u] # NULL
      /\ profile[u].interactions = Len(interactions[u])
      /\ profile[u].sessions = Len(sessions[u])

(* The threads implement the serial specification: each commit is one      *)
(* whole transaction on the committed row and everything else, failures    *)
(* and crashes included, leaves profiles, patterns and alerts alone.       *)
ImplementsSerial == Serial!Spec

-----------------------------------------------------------------------------
(* Statements of the repository's documents that the code does not keep.   *)

(* "alert when risk crosses a threshold": a user whose status turns        *)
(* "alerted" gets an alert with it.                                        *)
AlertedUsersHaveAlerts ==
  [][\A u \in Users :
       /\ profile'[u] # NULL /\ profile'[u].status = "alerted"
       /\ profile[u] = NULL \/ profile[u].status # "alerted"
       => Len(alerts'[u]) > Len(alerts[u])]_vars

(* "Serialize per-user scoring": a cycle never overwrites the result of a  *)
(* later one, so the time of the last scoring never goes back.             *)
ScoringTimeNeverRegresses ==
  [][\A u \in Users :
       profile[u] # NULL /\ profile[u].lastScored # NULL =>
         profile'[u].lastScored >= profile[u].lastScored]_vars

(* "the window never spans [...] more than WINDOW_SESSIONS": a cycle reads *)
(* interactions of no more sessions than that, if the user's sessions      *)
(* began at different times and none began since the cut-off was read.     *)
WindowHoldsFewSessions ==
  \A w \in Workers :
    LET ses == sessions[job[w].user]
        rows == interactions[job[w].user]
    IN  /\ pc[w] = "windowed"
        /\ view[w].cutoff = SessionCutoff(ses)
        /\ \A i, j \in DOMAIN ses : i # j => ses[i].startedAt # ses[j].startedAt
        => Cardinality({rows[i].session : i \in view[w].window}) <= WindowSessions

-----------------------------------------------------------------------------
(* Every committed event is eventually scored, unless a transaction, a     *)
(* scheduled task or the process is lost.                                  *)
EventuallyScored ==
  \A u \in Users, n \in Ids :
    Len(interactions[u]) >= n ~>
      \/ faults > 0
      \/ profile[u] # NULL /\ profile[u].interactions \in n .. MaxEvents

(* "BackgroundTasks are lost if the process restarts mid-task (acceptable  *)
(* [...] detection will be re-triggered on the next event and via          *)
(* /admin/recompute)": whatever was lost, the first cycle of the user that *)
(* begins once the failures are over brings the row up to date.            *)
LostTasksAreMadeUpFor ==
  \A u \in Users, n \in Ids :
    /\ Len(interactions[u]) >= n
    /\ faults = MaxFaults
    /\ \E w \in Workers : pc[w] = "locking" /\ job[w].user = u /\ job[w].kind \in Cycles
    ~> profile[u] # NULL /\ profile[u].interactions \in n .. MaxEvents

(* A user's lock never stays taken: rollbacks and crashes free it too.     *)
LocksReleased ==
  \A k \in LockKeys : holder[k] # NULL ~> holder[k] = NULL
=============================================================================
