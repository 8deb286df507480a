------------------------ MODULE DetectionCycleProofs ------------------------
(***************************************************************************)
(* Proofs about DetectionCycle, for any number of users, threads, events,  *)
(* admin requests and faults, any lock-key function, any settings and any  *)
(* detectors: type correctness, the absence of lost updates, the alert on  *)
(* a crossing only, the implementation of SerialScoring, and that every    *)
(* committed event is counted.                                             *)
(***************************************************************************)
EXTENDS DetectionCycle, ScoringProofs, TableProofs

(* A thread has a job exactly when it is not idle.                         *)
JobsPlaced == \A w \in Workers : pc[w] # "idle" <=> job[w] # NULL

(* A user's interactions stay within the bound, with room for the event in *)
(* the handler, and no session is without an interaction.                  *)
RowsFit ==
  /\ \A u \in Users : /\ Len(sessions[u]) <= Len(interactions[u])
                      /\ Len(interactions[u]) <= MaxEvents
  /\ arriving # NULL => Len(interactions[arriving.user]) < MaxEvents

TypeInv == TypeOK /\ JobsPlaced /\ RowsFit

(* Whoever is past the lock statement is the lock's holder.                *)
LockHeld ==
  \A w \in Workers : pc[w] \in Holding => holder[HashText[job[w].user]] = w

LockInv == LockHeld /\ NoLostUpdate

-----------------------------------------------------------------------------
LEMMA InitTypeInv == Init => TypeInv
<1> SUFFICES ASSUME Init PROVE TypeInv
  OBVIOUS
<1> USE DEF Init
<1>1. 0 \in Time
  BY CommonAssumption, ScoringAssumption DEF Time
<1>2. EmptyView \in View
  BY DEF EmptyView, View, Maybe
<1>3. TypeOK
  BY <1>1, <1>2, CycleAssumption
  DEF TypeOK, Serial!Init, Serial!Techniques, Techniques, Stages, Maybe
<1>4. JobsPlaced
  BY DEF JobsPlaced
<1>5. RowsFit
  BY CommonAssumption, ProfileAssumption DEF RowsFit
<1>6. QED
  BY <1>3, <1>4, <1>5 DEF TypeInv

(* What a thread that is not idle works with.                              *)
LEMMA BusyTypes ==
  ASSUME TypeInv, NEW w \in Workers, pc[w] # "idle"
  PROVE  /\ job[w] \in Job
         /\ job[w].user \in Users
         /\ job[w].kind \in Kinds
         /\ job[w].now \in Time
         /\ view[w] \in View
         /\ view[w].seen \in Maybe(Profile)
         /\ view[w].latest \in Maybe(Time)
         /\ view[w].window \in SUBSET Ids
         /\ view[w].sessions \in Nat
         /\ view[w].interactions \in Nat
         /\ HashText[job[w].user] \in LockKeys
<1>1. job[w] \in Job
  BY DEF TypeInv, TypeOK, JobsPlaced, Maybe
<1>2. job[w].user \in Users /\ job[w].kind \in Kinds /\ job[w].now \in Time
  BY <1>1 DEF Job
<1>3. view[w] \in View
  BY DEF TypeInv, TypeOK
<1>4. QED
  BY <1>1, <1>2, <1>3, CycleAssumption DEF View

(* What a commit writes, by the kind of the transaction.                   *)
LEMMA CommitCases ==
  ASSUME TypeInv, NEW w \in Workers, Commit(w)
  PROVE  LET u == job[w].user
             v == view[w]
             now == job[w].now
         IN  \/ /\ profile' = [profile EXCEPT ![u] =
                     CycleProfile(v.seen, now, v.latest, v.window,
                                  v.sessions, v.interactions)]
                /\ patterns' = [patterns EXCEPT ![u] =
                     CyclePatterns(@, v.seen, now, v.window)]
                /\ alerts' = [alerts EXCEPT ![u] =
                     CycleAlerts(@, v.seen, now, v.window)]
             \/ /\ profile' = [profile EXCEPT ![u] =
                     ResetUserRiskProfile(v.seen, now, v.latest,
                                          v.sessions, v.interactions)]
                /\ UNCHANGED <<patterns, alerts>>
             \/ /\ profile' = [profile EXCEPT ![u] = SetUserLastEventAt(v.seen, now)]
                /\ UNCHANGED <<patterns, alerts>>
<1>1. pc[w] = "staged" /\ WriteRows(w)
  BY DEF Commit
<1>2. job[w].kind \in Kinds
  BY <1>1, BusyTypes
<1>3. CASE job[w].kind \in Cycles
  BY <1>1, <1>3 DEF WriteRows, Cycles
<1>4. CASE job[w].kind = "reset"
  BY <1>1, <1>4 DEF WriteRows, Cycles
<1>5. CASE job[w].kind = "backdate"
  BY <1>1, <1>5 DEF WriteRows, Cycles
<1>6. QED
  BY <1>2, <1>3, <1>4, <1>5 DEF Kinds, Cycles

-----------------------------------------------------------------------------
(* Storing the event in the handler keeps the tables well formed.          *)
LEMMA StoreArrivingTypes ==
  ASSUME TypeInv, StoreArriving
  PROVE  /\ sessions' \in [Users -> Seq(SessionRow)]
         /\ interactions' \in [Users -> Seq(InteractionRow)]
         /\ arriving' \in Maybe(Arrival)
         /\ RowsFit'
<1> DEFINE u == arriving.user
           e == arriving
           row == [ts |-> e.ts, session |-> e.session]
           new == [startedAt |-> e.ts, lastEventAt |-> e.ts, interactionCount |-> 1]
<1>1. arriving # NULL /\ arriving' = NULL
  BY DEF StoreArriving
<1>2. e \in Arrival
  BY <1>1 DEF TypeInv, TypeOK, Maybe
<1>3. u \in Users /\ e.ts \in Time /\ e.session \in Ids
  BY <1>2 DEF Arrival
<1>4. sessions[u] \in Seq(SessionRow) /\ interactions[u] \in Seq(InteractionRow)
  BY <1>3 DEF TypeInv, TypeOK
<1>5. row \in InteractionRow /\ new \in SessionRow
  BY <1>3 DEF InteractionRow, SessionRow
<1>6. /\ WithEvent(sessions[u], e.session, e.ts) \in Seq(SessionRow)
      /\ Len(WithEvent(sessions[u], e.session, e.ts)) <= Len(sessions[u]) + 1
  <2>1. CASE e.session \in DOMAIN sessions[u]
    <3> DEFINE i == e.session
               old == sessions[u][i]
               n == old.interactionCount + 1
               upd == [old EXCEPT !.lastEventAt = e.ts, !.interactionCount = n]
    <3>1. old \in SessionRow
      BY <1>4, <2>1
    <3>2. upd \in SessionRow
      <4>1. n \in Nat
        BY <3>1 DEF SessionRow
      <4> HIDE DEF n, old
      <4>2. QED
        BY <1>3, <3>1, <4>1 DEF SessionRow
    <3>3. WithEvent(sessions[u], e.session, e.ts) = [sessions[u] EXCEPT ![i] = upd]
      BY <2>1 DEF WithEvent
    <3> HIDE DEF upd
    <3>4. QED
      BY <1>4, <2>1, <3>2, <3>3
  <2>2. CASE e.session \notin DOMAIN sessions[u]
    <3>1. WithEvent(sessions[u], e.session, e.ts) = Append(sessions[u], new)
      BY <2>2 DEF WithEvent
    <3>2. QED
      BY <1>4, <1>5, <3>1
  <2>3. QED
    BY <2>1, <2>2
<1>7. /\ sessions' = [sessions EXCEPT ![u] = WithEvent(sessions[u], e.session, e.ts)]
      /\ interactions' = [interactions EXCEPT ![u] = Append(interactions[u], row)]
  BY DEF StoreArriving
<1>8. /\ Append(interactions[u], row) \in Seq(InteractionRow)
      /\ Len(Append(interactions[u], row)) = Len(interactions[u]) + 1
  BY <1>4, <1>5
<1> HIDE DEF row, new
<1>9. sessions' \in [Users -> Seq(SessionRow)]
  BY <1>6, <1>7 DEF TypeInv, TypeOK
<1>10. interactions' \in [Users -> Seq(InteractionRow)]
  BY <1>7, <1>8 DEF TypeInv, TypeOK
<1>11. ASSUME NEW v \in Users
       PROVE  Len(sessions'[v]) <= Len(interactions'[v])
              /\ Len(interactions'[v]) <= MaxEvents
  <2>1. Len(sessions[v]) <= Len(interactions[v]) /\ Len(interactions[v]) <= MaxEvents
    BY DEF TypeInv, RowsFit
  <2>2. CASE v = u
    <3>1. sessions'[v] = WithEvent(sessions[u], e.session, e.ts)
          /\ interactions'[v] = Append(interactions[u], row)
      BY <1>7, <2>2 DEF TypeInv, TypeOK
    <3>2. Len(interactions[u]) < MaxEvents
      BY <1>1 DEF TypeInv, RowsFit
    <3>3. Len(sessions[u]) \in Nat /\ Len(interactions[u]) \in Nat
          /\ Len(WithEvent(sessions[u], e.session, e.ts)) \in Nat
      BY <1>4, <1>6
    <3>4. QED
      BY <1>6, <1>8, <2>1, <2>2, <3>1, <3>2, <3>3, CommonAssumption, ProfileAssumption
  <2>3. CASE v # u
    <3>1. sessions'[v] = sessions[v] /\ interactions'[v] = interactions[v]
      BY <1>7, <2>3 DEF TypeInv, TypeOK
    <3>2. QED
      BY <2>1, <3>1
  <2>4. QED
    BY <2>2, <2>3
<1>12. QED
  BY <1>1, <1>9, <1>10, <1>11 DEF RowsFit, Maybe

(* A statement that only reads changes a thread's place and what it saw.   *)
LEMMA StatementTypes ==
  ASSUME TypeInv, NEW w \in Workers, NEW from \in Stages \ {"idle"},
         NEW to \in Stages \ {"idle"}, Advance(w, from, to),
         view' \in [Workers -> View]
  PROVE  TypeInv'
<1>1. TypeOK'
  BY DEF TypeInv, TypeOK, Advance, tables, scored
<1>2. JobsPlaced'
  BY DEF TypeInv, TypeOK, JobsPlaced, Advance
<1>3. RowsFit'
  BY DEF TypeInv, RowsFit, Advance, tables
<1>4. QED
  BY <1>1, <1>2, <1>3 DEF TypeInv

(* The end of a transaction leaves its thread idle and without a job.      *)
LEMMA ReleaseTypes ==
  ASSUME TypeInv, NEW w \in Workers, Release(w)
  PROVE  /\ pc' \in [Workers -> Stages]
         /\ job' \in [Workers -> Maybe(Job)]
         /\ view' \in [Workers -> View]
         /\ holder' \in [LockKeys -> Maybe(Workers)]
         /\ JobsPlaced'
<1>1. EmptyView \in View
  BY DEF EmptyView, View, Maybe
<1>2. pc' \in [Workers -> Stages] /\ job' \in [Workers -> Maybe(Job)]
  BY DEF TypeInv, TypeOK, Release, Stages, Maybe
<1>3. view' \in [Workers -> View]
  BY <1>1 DEF TypeInv, TypeOK, Release
<1>4. holder' \in [LockKeys -> Maybe(Workers)]
  BY DEF TypeInv, TypeOK, Release, Maybe
<1>5. JobsPlaced'
  BY DEF TypeInv, TypeOK, JobsPlaced, Release
<1>6. QED
  BY <1>2, <1>3, <1>4, <1>5

(* What a commit writes is well formed.                                    *)
LEMMA CommitTypes ==
  ASSUME TypeInv, NEW w \in Workers, Commit(w)
  PROVE  /\ profile' \in [Users -> Maybe(Profile)]
         /\ patterns' \in [Users -> [Techniques -> Nat]]
         /\ alerts' \in [Users -> Seq(Alert)]
<1> DEFINE u == job[w].user
           v == view[w]
           now == job[w].now
<1>1. pc[w] = "staged"
  BY DEF Commit
<1>2. u \in Users /\ now \in Time /\ v.seen \in Maybe(Profile)
      /\ v.latest \in Maybe(Time) /\ v.window \in SUBSET Ids
      /\ v.sessions \in Nat /\ v.interactions \in Nat
  BY <1>1, BusyTypes
<1>3. profile \in [Users -> Maybe(Profile)]
      /\ patterns \in [Users -> [Techniques -> Nat]]
      /\ alerts \in [Users -> Seq(Alert)]
  BY DEF TypeInv, TypeOK
<1>4. CycleProfile(v.seen, now, v.latest, v.window, v.sessions, v.interactions)
        \in Profile
  BY <1>2, CycleProfileType
<1>5. CyclePatterns(patterns[u], v.seen, now, v.window) \in [Techniques -> Nat]
  BY <1>2, <1>3, CyclePatternsType
<1>6. CycleAlerts(alerts[u], v.seen, now, v.window) \in Seq(Alert)
  BY <1>2, <1>3, CycleAlertsType
<1>7. ResetUserRiskProfile(v.seen, now, v.latest, v.sessions, v.interactions)
        \in Profile
  BY <1>2, ResetProfileType
<1>8. SetUserLastEventAt(v.seen, now) \in Profile
  BY <1>2, BackdateProfileType
<1>9. \/ /\ profile' = [profile EXCEPT ![u] =
              CycleProfile(v.seen, now, v.latest, v.window,
                           v.sessions, v.interactions)]
         /\ patterns' = [patterns EXCEPT ![u] =
              CyclePatterns(patterns[u], v.seen, now, v.window)]
         /\ alerts' = [alerts EXCEPT ![u] =
              CycleAlerts(alerts[u], v.seen, now, v.window)]
      \/ /\ profile' = [profile EXCEPT ![u] =
              ResetUserRiskProfile(v.seen, now, v.latest,
                                   v.sessions, v.interactions)]
         /\ UNCHANGED <<patterns, alerts>>
      \/ /\ profile' = [profile EXCEPT ![u] = SetUserLastEventAt(v.seen, now)]
         /\ UNCHANGED <<patterns, alerts>>
  BY CommitCases
<1> HIDE DEF u, v, now
<1>10. QED
  BY <1>3, <1>4, <1>5, <1>6, <1>7, <1>8, <1>9 DEF Maybe

-----------------------------------------------------------------------------
(* Every step keeps the state well formed.                                 *)
LEMMA TypeInvStep == TypeInv /\ [Next]_vars => TypeInv'
<1> SUFFICES ASSUME TypeInv, [Next]_vars PROVE TypeInv'
  OBVIOUS
<1> USE DEF tables, scored, threads
<1>1. CASE Tick
  <2>1. clock' \in Time
    <3>1. clock \in 0 .. MaxTime /\ clock < MaxTime /\ clock' = clock + 1
      BY <1>1 DEF Tick, TypeInv, TypeOK, Time
    <3>2. QED
      BY <3>1, CommonAssumption, ScoringAssumption DEF Time
  <2>2. TypeOK'
    BY <1>1, <2>1 DEF Tick, TypeInv, TypeOK
  <2>3. JobsPlaced' /\ RowsFit'
    BY <1>1 DEF Tick, TypeInv, JobsPlaced, RowsFit
  <2>4. QED
    BY <2>2, <2>3 DEF TypeInv
<1>2. ASSUME NEW u \in Users, ReceiveEvent(u)
      PROVE  TypeInv'
  <2>1. PICK requested \in 0 .. Len(sessions[u]) :
          arriving' = [user |-> u, ts |-> clock,
                       session |-> ResolveOrCreateSession(sessions[u], requested, clock)]
    BY <1>2 DEF ReceiveEvent
  <2>2. sessions[u] \in Seq(SessionRow) /\ interactions[u] \in Seq(InteractionRow)
        /\ clock \in Time
    BY DEF TypeInv, TypeOK
  <2>3. Len(interactions[u]) < MaxEvents /\ Len(sessions[u]) <= Len(interactions[u])
    BY <1>2 DEF ReceiveEvent, TypeInv, RowsFit
  <2>4. ResolveOrCreateSession(sessions[u], requested, clock) \in Ids
    <3>1. ResolveOrCreateSession(sessions[u], requested, clock)
            \in 1 .. Len(sessions[u]) + 1
      BY <2>1, <2>2, SessionOfEventType
    <3>2. QED
      BY <2>2, <2>3, <3>1, CommonAssumption, ProfileAssumption DEF Ids
  <2>5. arriving' \in Arrival
    BY <2>1, <2>2, <2>4 DEF Arrival
  <2>6. TypeOK'
    BY <1>2, <2>5 DEF ReceiveEvent, TypeInv, TypeOK, Maybe
  <2>7. JobsPlaced'
    BY <1>2 DEF ReceiveEvent, TypeInv, JobsPlaced
  <2>8. RowsFit'
    BY <1>2, <2>1, <2>3 DEF ReceiveEvent, TypeInv, RowsFit
  <2>9. QED
    BY <2>6, <2>7, <2>8 DEF TypeInv
<1>3. ASSUME StoreArriving, queue' \in [Users -> Nat], faults' \in 0 .. MaxFaults
      PROVE  TypeInv'
  <2>1. /\ sessions' \in [Users -> Seq(SessionRow)]
        /\ interactions' \in [Users -> Seq(InteractionRow)]
        /\ arriving' \in Maybe(Arrival)
        /\ RowsFit'
    BY <1>3, StoreArrivingTypes
  <2>2. TypeOK'
    BY <1>3, <2>1 DEF StoreArriving, TypeInv, TypeOK
  <2>3. JobsPlaced'
    BY <1>3 DEF StoreArriving, TypeInv, JobsPlaced
  <2>4. QED
    BY <2>1, <2>2, <2>3 DEF TypeInv
<1>4. CASE CommitEvent
  <2>1. arriving # NULL
    BY <1>4 DEF CommitEvent, StoreArriving
  <2>2. arriving.user \in Users
    BY <2>1 DEF TypeInv, TypeOK, Maybe, Arrival
  <2>3. queue' \in [Users -> Nat]
    BY <1>4, <2>2 DEF CommitEvent, TypeInv, TypeOK
  <2>4. QED
    BY <1>3, <1>4, <2>3 DEF CommitEvent, TypeInv, TypeOK
<1>5. CASE CommitEventLoseTask
  BY <1>3, <1>5, CycleAssumption DEF CommitEventLoseTask, TypeInv, TypeOK
<1>6. CASE RejectEvent
  BY <1>6 DEF RejectEvent, TypeInv, TypeOK, JobsPlaced, RowsFit, Maybe
<1>7. ASSUME NEW w \in Workers, NEW u \in Users, NEW kind \in Kinds, NEW now \in Time,
             Begin(w, u, kind, now),
             queue' \in [Users -> Nat], admin' \in 0 .. MaxAdmin
      PROVE  TypeInv'
  <2> DEFINE j == [user |-> u, kind |-> kind, now |-> now]
  <2>1. j \in Job /\ j # NULL
    BY CycleAssumption DEF Job
  <2>2. job' = [job EXCEPT ![w] = j] /\ pc' = [pc EXCEPT ![w] = "locking"]
    BY <1>7 DEF Begin
  <2> HIDE DEF j
  <2>3. TypeOK'
    BY <1>7, <2>1, <2>2 DEF Begin, TypeInv, TypeOK, Stages, Maybe
  <2>4. JobsPlaced'
    BY <2>1, <2>2 DEF TypeInv, TypeOK, JobsPlaced
  <2>5. RowsFit'
    BY <1>7 DEF Begin, TypeInv, RowsFit
  <2>6. QED
    BY <2>3, <2>4, <2>5 DEF TypeInv
<1>8. ASSUME NEW w \in Workers, NEW u \in Users, StartDetection(w, u)
      PROVE  TypeInv'
  <2>1. queue' \in [Users -> Nat] /\ admin' \in 0 .. MaxAdmin
    BY <1>8 DEF StartDetection, TypeInv, TypeOK
  <2>2. clock \in Time /\ "detect" \in Kinds
    BY DEF TypeInv, TypeOK, Kinds
  <2>3. QED
    BY <1>7, <1>8, <2>1, <2>2 DEF StartDetection
<1>9. ASSUME NEW w \in Workers, NEW u \in Users, NEW kind \in Kinds, NEW now \in Time,
             StartAdmin(w, u, kind, now)
      PROVE  TypeInv'
  <2>1. queue' \in [Users -> Nat] /\ admin' \in 0 .. MaxAdmin
    BY <1>9, CycleAssumption DEF StartAdmin, TypeInv, TypeOK
  <2>2. QED
    BY <1>7, <1>9, <2>1 DEF StartAdmin
<1>10. ASSUME NEW w \in Workers, AcquireUserAdvisoryLock(w)
       PROVE  TypeInv'
  <2>1. pc[w] = "locking"
    BY <1>10 DEF AcquireUserAdvisoryLock
  <2>2. job[w] \in Job /\ clock \in Time /\ HashText[job[w].user] \in LockKeys
    BY <2>1, BusyTypes DEF TypeInv, TypeOK
  <2>3. [job[w] EXCEPT !.now = clock] \in Job
    BY <2>2 DEF Job
  <2>4. job' \in [Workers -> Maybe(Job)] /\ \A v \in Workers : job[v] # NULL <=> job'[v] # NULL
    BY <1>10, <2>2, <2>3, CycleAssumption DEF AcquireUserAdvisoryLock, TypeInv, TypeOK, Maybe
  <2>5. TypeOK'
    BY <1>10, <2>2, <2>4
    DEF AcquireUserAdvisoryLock, TypeInv, TypeOK, Stages, Holding, Maybe
  <2>6. JobsPlaced'
    BY <1>10, <2>1, <2>4 DEF AcquireUserAdvisoryLock, TypeInv, TypeOK, JobsPlaced
  <2>7. RowsFit'
    BY <1>10 DEF AcquireUserAdvisoryLock, TypeInv, RowsFit
  <2>8. QED
    BY <2>5, <2>6, <2>7 DEF TypeInv
<1> DEFINE mid == Stages \ {"idle"}
<1>11. ASSUME NEW w \in Workers, ReadProfile(w)
       PROVE  TypeInv'
  <2> DEFINE u == job[w].user
  <2>1. pc[w] = "locked"
    BY <1>11 DEF ReadProfile, Advance
  <2>2. u \in Users /\ view[w] \in View
    BY <2>1, BusyTypes
  <2>3. GetLatestUserEventAt(interactions[u]) \in Maybe(Time)
    BY <2>2, LatestEventType DEF TypeInv, TypeOK
  <2>4. profile[u] \in Maybe(Profile)
    BY <2>2 DEF TypeInv, TypeOK
  <2>5. view' \in [Workers -> View]
    BY <1>11, <2>2, <2>3, <2>4 DEF ReadProfile, TypeInv, TypeOK, View
  <2>6. QED
    BY <1>11, <2>5, StatementTypes DEF ReadProfile, Stages, Holding, Reading
<1>12. ASSUME NEW w \in Workers, ReadSessionCutoff(w)
       PROVE  TypeInv'
  <2> DEFINE u == job[w].user
  <2>1. pc[w] = "read"
    BY <1>12 DEF ReadSessionCutoff, Advance
  <2>2. u \in Users /\ view[w] \in View
    BY <2>1, BusyTypes
  <2>3. SessionCutoff(sessions[u]) \in Maybe(Time)
    BY <2>2, SessionCutoffType DEF TypeInv, TypeOK
  <2>4. view' \in [Workers -> View]
    BY <1>12, <2>2, <2>3 DEF ReadSessionCutoff, TypeInv, TypeOK, View
  <2>5. QED
    BY <1>12, <2>4, StatementTypes DEF ReadSessionCutoff, Stages, Holding, Reading
<1>13. ASSUME NEW w \in Workers, SelectWindow(w)
       PROVE  TypeInv'
  <2> DEFINE u == job[w].user
             window == GetInteractionsWindow(view[w].cutoff, interactions[u], job[w].now)
  <2>1. pc[w] = "cut"
    BY <1>13 DEF SelectWindow, Advance
  <2>2. u \in Users /\ view[w] \in View
    BY <2>1, BusyTypes
  <2>3. interactions[u] \in Seq(InteractionRow) /\ Len(interactions[u]) <= MaxEvents
    BY <2>2 DEF TypeInv, TypeOK, RowsFit
  <2>4. window \in SUBSET Ids
    BY <2>3, WindowType
  <2>5. view' = [view EXCEPT ![w].window = window]
    BY <1>13 DEF SelectWindow
  <2> HIDE DEF window
  <2>6. view' \in [Workers -> View]
    BY <2>2, <2>4, <2>5 DEF TypeInv, TypeOK, View
  <2>7. QED
    BY <1>13, <2>6, StatementTypes DEF SelectWindow, Stages, Holding, Reading
<1>14. ASSUME NEW w \in Workers, CountSessions(w)
       PROVE  TypeInv'
  <2> DEFINE n == Len(sessions[job[w].user])
  <2>1. pc[w] \in {"windowed", "read"} /\ Advance(w, pc[w], "counted")
    BY <1>14 DEF CountSessions
  <2>2. job[w].user \in Users /\ view[w] \in View
    BY <2>1, BusyTypes
  <2>3. n \in Nat
    BY <2>2 DEF TypeInv, TypeOK
  <2>4. view' = [view EXCEPT ![w].sessions = n]
    BY <1>14 DEF CountSessions
  <2> HIDE DEF n
  <2>5. view' \in [Workers -> View]
    BY <2>2, <2>3, <2>4 DEF TypeInv, TypeOK, View
  <2>6. QED
    BY <2>1, <2>5, StatementTypes DEF Stages, Holding, Reading
<1>15. ASSUME NEW w \in Workers, Stage(w)
       PROVE  TypeInv'
  <2> DEFINE n == Len(interactions[job[w].user])
  <2>1. pc[w] = "counted"
    BY <1>15 DEF Stage, Advance
  <2>2. job[w].user \in Users /\ view[w] \in View
    BY <2>1, BusyTypes
  <2>3. n \in Nat
    BY <2>2 DEF TypeInv, TypeOK
  <2>4. view' = [view EXCEPT ![w].interactions = n]
    BY <1>15 DEF Stage
  <2> HIDE DEF n
  <2>5. view' \in [Workers -> View]
    BY <2>2, <2>3, <2>4 DEF TypeInv, TypeOK, View
  <2>6. QED
    BY <1>15, <2>5, StatementTypes DEF Stage, Stages, Holding, Reading
<1>16. ASSUME NEW w \in Workers, Commit(w)
       PROVE  TypeInv'
  <2>1. /\ profile' \in [Users -> Maybe(Profile)]
        /\ patterns' \in [Users -> [Techniques -> Nat]]
        /\ alerts' \in [Users -> Seq(Alert)]
    BY <1>16, CommitTypes
  <2>2. /\ pc' \in [Workers -> Stages]
        /\ job' \in [Workers -> Maybe(Job)]
        /\ view' \in [Workers -> View]
        /\ holder' \in [LockKeys -> Maybe(Workers)]
        /\ JobsPlaced'
    BY <1>16, ReleaseTypes DEF Commit
  <2>3. TypeOK'
    BY <1>16, <2>1, <2>2 DEF Commit, TypeInv, TypeOK
  <2>4. RowsFit'
    BY <1>16 DEF Commit, TypeInv, RowsFit
  <2>5. QED
    BY <2>2, <2>3, <2>4 DEF TypeInv
<1>17. ASSUME NEW w \in Workers, Abort(w)
       PROVE  TypeInv'
  <2>1. /\ pc' \in [Workers -> Stages]
        /\ job' \in [Workers -> Maybe(Job)]
        /\ view' \in [Workers -> View]
        /\ holder' \in [LockKeys -> Maybe(Workers)]
        /\ JobsPlaced'
    BY <1>17, ReleaseTypes DEF Abort
  <2>2. TypeOK'
    BY <1>17, <2>1, CycleAssumption DEF Abort, TypeInv, TypeOK
  <2>3. RowsFit'
    BY <1>17 DEF Abort, TypeInv, RowsFit
  <2>4. QED
    BY <2>1, <2>2, <2>3 DEF TypeInv
<1>18. CASE Crash
  <2>1. EmptyView \in View
    BY DEF EmptyView, View, Maybe
  <2>2. TypeOK'
    BY <1>18, <2>1, CycleAssumption DEF Crash, TypeInv, TypeOK, Stages, Maybe
  <2>3. JobsPlaced' /\ RowsFit'
    BY <1>18 DEF Crash, TypeInv, JobsPlaced, RowsFit
  <2>4. QED
    BY <2>2, <2>3 DEF TypeInv
<1>19. CASE UNCHANGED vars
  BY <1>19 DEF vars, TypeInv, TypeOK, JobsPlaced, RowsFit
<1>20. ASSUME NEW w \in Workers, NEW u \in Users, NEW kind \in AdminKinds \ {"backdate"},
              StartAdmin(w, u, kind, clock)
       PROVE  TypeInv'
  <2>1. kind \in Kinds /\ clock \in Time
    BY CycleAssumption DEF Kinds, TypeInv, TypeOK
  <2>2. QED
    BY <1>9, <1>20, <2>1
<1>21. ASSUME NEW w \in Workers, NEW u \in Users, NEW ts \in Time,
              StartAdmin(w, u, "backdate", ts)
       PROVE  TypeInv'
  BY <1>9, <1>21 DEF Kinds
<1>22. QED
  BY <1>1, <1>2, <1>4, <1>5, <1>6, <1>8, <1>10, <1>11, <1>12, <1>13, <1>14, <1>15,
     <1>16, <1>17, <1>18, <1>19, <1>20, <1>21
  DEF Next, Progress

(* Type correctness.                                                       *)
THEOREM TypeCorrect == Spec => []TypeOK
<1>1. TypeInv => TypeOK
  BY DEF TypeInv
<1>2. QED
  BY InitTypeInv, TypeInvStep, <1>1, PTL DEF Spec

-----------------------------------------------------------------------------
(* Mutual exclusion: two threads past the lock statement work on different *)
(* users, as the lock has one holder.                                      *)
LEMMA OneHolder ==
  ASSUME LockHeld, NEW w \in Workers, NEW v \in Workers,
         pc[w] \in Holding, pc[v] \in Holding, job[w].user = job[v].user
  PROVE  w = v
BY DEF LockHeld

LEMMA InitLockInv == Init => LockInv
BY DEF Init, LockInv, LockHeld, NoLostUpdate, Holding, Reading

(* A step that leaves the lock, the profiles and the jobs under the lock   *)
(* alone, and takes no thread into a stage under the lock, keeps the       *)
(* locking invariant.                                                      *)
LEMMA BystanderStep ==
  ASSUME LockInv, UNCHANGED <<holder, profile>>,
         \A w \in Workers : pc'[w] \in Holding =>
           pc'[w] = pc[w] /\ job'[w] = job[w] /\ view'[w] = view[w]
  PROVE  LockInv'
<1>1. LockHeld'
  BY DEF LockInv, LockHeld
<1>2. NoLostUpdate'
  BY DEF LockInv, NoLostUpdate, Holding
<1>3. QED
  BY <1>1, <1>2 DEF LockInv

(* A statement between two stages that keeps the row a thread has seen.    *)
LEMMA StatementKeepsLock ==
  ASSUME TypeInv, LockInv, NEW w \in Workers, NEW from \in Reading,
         NEW to \in Reading, Advance(w, from, to),
         view'[w].seen = view[w].seen,
         \A v \in Workers \ {w} : view'[v] = view[v]
  PROVE  LockInv'
<1> USE DEF scored
<1>1. /\ \A v \in Workers : job'[v] = job[v]
      /\ \A v \in Workers \ {w} : pc'[v] = pc[v]
      /\ holder' = holder /\ profile' = profile
      /\ pc[w] \in Reading /\ pc'[w] \in Reading
  BY DEF Advance, TypeInv, TypeOK
<1>2. LockHeld'
  BY <1>1 DEF LockInv, LockHeld, Holding
<1>3. NoLostUpdate'
  BY <1>1 DEF LockInv, NoLostUpdate
<1>4. QED
  BY <1>2, <1>3 DEF LockInv

(* A thread that ends its transaction takes no other thread's lock away.   *)
LEMMA ReleaseKeepsLock ==
  ASSUME TypeInv, LockInv, NEW w \in Workers, Release(w)
  PROVE  /\ LockHeld'
         /\ \A v \in Workers : pc'[v] \in Holding =>
              v # w /\ pc'[v] = pc[v] /\ job'[v] = job[v] /\ view'[v] = view[v]
<1>1. \A v \in Workers : pc'[v] \in Holding =>
        v # w /\ pc'[v] = pc[v] /\ job'[v] = job[v] /\ view'[v] = view[v]
  BY DEF Release, TypeInv, TypeOK, Holding, Reading
<1>2. ASSUME NEW v \in Workers, pc'[v] \in Holding
      PROVE  holder'[HashText[job'[v].user]] = v
  <2>1. v # w /\ pc[v] \in Holding /\ job'[v] = job[v]
    BY <1>1, <1>2
  <2>2. HashText[job[v].user] \in LockKeys
    BY <2>1, BusyTypes DEF Holding, Reading
  <2>3. holder[HashText[job[v].user]] = v
    BY <2>1 DEF LockInv, LockHeld
  <2>4. QED
    BY <2>1, <2>2, <2>3 DEF Release
<1>3. QED
  BY <1>1, <1>2 DEF LockHeld

(* Every step keeps the locking invariant.                                 *)
LEMMA LockInvStep == TypeInv /\ LockInv /\ [Next]_vars => LockInv'
<1> SUFFICES ASSUME TypeInv, LockInv, [Next]_vars PROVE LockInv'
  OBVIOUS
<1> USE DEF tables, scored, threads
<1>1. CASE Tick \/ CommitEvent \/ CommitEventLoseTask \/ RejectEvent
  BY <1>1, BystanderStep
  DEF Tick, CommitEvent, CommitEventLoseTask, RejectEvent, StoreArriving
<1>2. ASSUME NEW u \in Users, ReceiveEvent(u)
      PROVE  LockInv'
  BY <1>2, BystanderStep DEF ReceiveEvent
<1>3. ASSUME NEW w \in Workers, NEW u, NEW kind, NEW now, Begin(w, u, kind, now)
      PROVE  LockInv'
  BY <1>3, BystanderStep DEF Begin, TypeInv, TypeOK, Holding, Reading
<1>4. ASSUME NEW w \in Workers, AcquireUserAdvisoryLock(w)
      PROVE  LockInv'
  <2> DEFINE k == HashText[job[w].user]
  <2>1. pc[w] = "locking" /\ holder[k] = NULL
    BY <1>4 DEF AcquireUserAdvisoryLock, LockFree
  <2>2. k \in LockKeys /\ job[w] \in Job
    BY <2>1, BusyTypes
  <2>3. /\ holder' = [holder EXCEPT ![k] = w]
        /\ pc' = [pc EXCEPT ![w] = "locked"]
        /\ job'[w].user = job[w].user
        /\ \A v \in Workers \ {w} : job'[v] = job[v]
        /\ profile' = profile /\ view' = view
    BY <1>4, <2>2 DEF AcquireUserAdvisoryLock, TypeInv, TypeOK, Job
  <2>4. \A v \in Workers \ {w} : pc'[v] = pc[v]
    BY <2>3 DEF TypeInv, TypeOK
  <2>5. ASSUME NEW v \in Workers, pc'[v] \in Holding
        PROVE  holder'[HashText[job'[v].user]] = v
    <3>1. CASE v = w
      BY <2>2, <2>3, <3>1 DEF TypeInv, TypeOK
    <3>2. CASE v # w
      <4>1. pc[v] \in Holding /\ job'[v] = job[v]
        BY <2>3, <2>4, <2>5, <3>2
      <4>2. holder[HashText[job[v].user]] = v /\ v # NULL
        BY <4>1, CycleAssumption DEF LockInv, LockHeld
      <4>3. HashText[job[v].user] # k
        BY <2>1, <4>2
      <4>4. QED
        BY <2>3, <4>1, <4>2, <4>3 DEF TypeInv, TypeOK
    <3>3. QED
      BY <3>1, <3>2
  <2>6. NoLostUpdate'
    BY <2>1, <2>3, <2>4 DEF LockInv, NoLostUpdate, Reading, TypeInv, TypeOK
  <2>7. QED
    BY <2>5, <2>6 DEF LockInv, LockHeld
<1>5. ASSUME NEW w \in Workers, ReadProfile(w)
      PROVE  LockInv'
  <2>1. /\ \A v \in Workers : job'[v] = job[v]
        /\ \A v \in Workers \ {w} : pc'[v] = pc[v] /\ view'[v] = view[v]
        /\ holder' = holder /\ profile' = profile
        /\ pc[w] = "locked"
        /\ view'[w].seen = profile[job[w].user]
    BY <1>5 DEF ReadProfile, Advance, TypeInv, TypeOK, View
  <2>2. LockHeld'
    BY <2>1 DEF LockInv, LockHeld, Holding
  <2>3. NoLostUpdate'
    BY <2>1 DEF LockInv, NoLostUpdate
  <2>4. QED
    BY <2>2, <2>3 DEF LockInv
<1>6. ASSUME NEW w \in Workers,
             ReadSessionCutoff(w) \/ SelectWindow(w) \/ CountSessions(w) \/ Stage(w)
      PROVE  LockInv'
  <2>1. \E from, to \in Reading : Advance(w, from, to)
    BY <1>6 DEF ReadSessionCutoff, SelectWindow, CountSessions, Stage, Reading
  <2>2. /\ view'[w].seen = view[w].seen
        /\ \A v \in Workers \ {w} : view'[v] = view[v]
    BY <1>6 DEF ReadSessionCutoff, SelectWindow, CountSessions, Stage,
                TypeInv, TypeOK, View
  <2>3. QED
    BY <2>1, <2>2, StatementKeepsLock
<1>7. ASSUME NEW w \in Workers, Commit(w)
      PROVE  LockInv'
  <2> DEFINE u == job[w].user
  <2>1. pc[w] \in Holding /\ Release(w) /\ u \in Users
    BY <1>7, BusyTypes DEF Commit, Holding, Reading
  <2>2. \A x \in Users \ {u} : profile'[x] = profile[x]
    BY <1>7, CommitCases DEF TypeInv, TypeOK
  <2>3. ASSUME NEW v \in Workers, pc'[v] \in Reading
        PROVE  view'[v].seen = profile'[job'[v].user]
    <3>1. v # w /\ pc[v] \in Reading /\ job'[v] = job[v] /\ view'[v] = view[v]
      BY <2>1, <2>3, ReleaseKeepsLock DEF Holding
    <3>2. job[v].user # u
      BY <2>1, <3>1, OneHolder DEF LockInv, Holding
    <3>3. job[v].user \in Users
      BY <3>1, BusyTypes DEF Reading
    <3>4. view[v].seen = profile[job[v].user]
      BY <3>1 DEF LockInv, NoLostUpdate
    <3>5. QED
      BY <2>2, <3>1, <3>2, <3>3, <3>4
  <2>4. QED
    BY <2>1, <2>3, ReleaseKeepsLock DEF LockInv, NoLostUpdate
<1>8. ASSUME NEW w \in Workers, Abort(w)
      PROVE  LockInv'
  <2>1. Release(w) /\ profile' = profile
    BY <1>8 DEF Abort
  <2>2. NoLostUpdate'
    BY <2>1, ReleaseKeepsLock DEF LockInv, NoLostUpdate, Holding
  <2>3. QED
    BY <2>1, <2>2, ReleaseKeepsLock DEF LockInv
<1>9. CASE Crash
  BY <1>9 DEF Crash, LockInv, LockHeld, NoLostUpdate, Holding, Reading
<1>10. CASE UNCHANGED vars
  BY <1>10, BystanderStep DEF vars
<1>11. QED
  BY <1>1, <1>2, <1>3, <1>4, <1>5, <1>6, <1>7, <1>8, <1>9, <1>10
  DEF Next, Progress, StartDetection, StartAdmin

IInv == TypeInv /\ LockInv

LEMMA IInvAlways == Spec => []IInv
<1>1. Init => IInv
  BY InitTypeInv, InitLockInv DEF IInv
<1>2. IInv /\ [Next]_vars => IInv'
  BY TypeInvStep, LockInvStep DEF IInv
<1>3. QED
  BY <1>1, <1>2, PTL DEF Spec

(* No lost update, for any number of threads, users and lock keys: the row *)
(* a transaction read under the lock is the committed row when it writes.  *)
THEOREM NoUpdateIsLost == Spec => []NoLostUpdate
<1>1. IInv => NoLostUpdate
  BY DEF IInv, LockInv
<1>2. QED
  BY IInvAlways, <1>1, PTL

-----------------------------------------------------------------------------
(* A commit applies a whole transaction to the committed row.              *)
LEMMA CommitIsSerial ==
  ASSUME IInv, NEW w \in Workers, Commit(w)
  PROVE  /\ job[w].user \in Users
         /\ view[w].seen = profile[job[w].user]
<1>1. pc[w] = "staged"
  BY DEF Commit
<1>2. QED
  BY <1>1, BusyTypes DEF IInv, LockInv, NoLostUpdate, Reading

(* Only a commit touches profiles, patterns or alerts.                     *)
LEMMA OnlyCommitsScore ==
  ASSUME [Next]_vars
  PROVE  UNCHANGED scored \/ \E w \in Workers : Commit(w)
<1> USE DEF scored
<1>1. ASSUME NEW w \in Workers, Progress(w)
      PROVE  UNCHANGED scored \/ Commit(w)
  BY <1>1 DEF Progress, AcquireUserAdvisoryLock, ReadProfile, ReadSessionCutoff,
              SelectWindow, CountSessions, Stage, Advance
<1>2. ASSUME NEW w \in Workers, NEW u, NEW kind, NEW now, Begin(w, u, kind, now)
      PROVE  UNCHANGED scored
  BY <1>2 DEF Begin
<1>3. QED
  BY <1>1, <1>2
  DEF Next, Tick, ReceiveEvent, CommitEvent, CommitEventLoseTask, StoreArriving,
      RejectEvent, Crash, Abort, StartDetection, StartAdmin, vars

LEMMA AlertStep ==
  ASSUME IInv, [Next]_vars, NEW u \in Users, alerts'[u] # alerts[u]
  PROVE  /\ profile[u] = NULL \/ profile[u].score < AlertThreshold
         /\ profile'[u].score >= AlertThreshold
         /\ profile'[u].status = "alerted"
<1>1. PICK w \in Workers : Commit(w)
  BY OnlyCommitsScore DEF scored
<1> DEFINE v == view[w]
           now == job[w].now
<1>2. /\ job[w].user \in Users /\ v.seen = profile[job[w].user]
      /\ v.seen \in Maybe(Profile) /\ now \in Time /\ v.window \in SUBSET Ids
  <2>1. pc[w] = "staged"
    BY <1>1 DEF Commit
  <2>2. QED
    BY <1>1, <2>1, BusyTypes, CommitIsSerial DEF IInv
<1>3. /\ profile \in [Users -> Maybe(Profile)]
      /\ alerts \in [Users -> Seq(Alert)]
  BY DEF IInv, TypeInv, TypeOK
<1>4. /\ u = job[w].user
      /\ profile'[u] = CycleProfile(v.seen, now, v.latest, v.window,
                                    v.sessions, v.interactions)
      /\ alerts'[u] = CycleAlerts(alerts[u], v.seen, now, v.window)
  <2>1. /\ profile' = [profile EXCEPT ![job[w].user] =
              CycleProfile(v.seen, now, v.latest, v.window,
                           v.sessions, v.interactions)]
        /\ alerts' = [alerts EXCEPT ![job[w].user] =
              CycleAlerts(alerts[job[w].user], v.seen, now, v.window)]
    BY <1>1, CommitCases DEF IInv
  <2> HIDE DEF v, now
  <2>2. u = job[w].user
    BY <1>2, <1>3, <2>1
  <2>3. QED
    BY <1>2, <1>3, <2>1, <2>2
<1>5. alerts[u] \in Seq(Alert)
  BY <1>3
<1> HIDE DEF v, now
<1>6. QED
  BY <1>2, <1>4, <1>5, CycleAlertMeansCrossing

(* An alert appears only with the score that takes the committed row from  *)
(* below the threshold to it, however many cycles of a user overlap.       *)
THEOREM AlertsMarkCrossings == Spec => AlertOnlyOnCrossing
<1> DEFINE Crossing ==
      \A u \in Users : alerts'[u] # alerts[u] =>
        /\ profile[u] = NULL \/ profile[u].score < AlertThreshold
        /\ profile'[u].score >= AlertThreshold
        /\ profile'[u].status = "alerted"
<1>1. IInv /\ [Next]_vars => [Crossing]_vars
  BY AlertStep
<1>2. QED
  BY IInvAlways, <1>1, PTL DEF Spec, AlertOnlyOnCrossing

-----------------------------------------------------------------------------
(* SerialScoring computes with the same profile updates: what INSTANCE     *)
(* renames is the same operator.                                           *)
LEMMA SameSets ==
  /\ Serial!Techniques = Techniques
  /\ Serial!Time = Time
  /\ Serial!Ids = Ids
  /\ Serial!NoSignals = NoSignals
  /\ \A S : Serial!Maybe(S) = Maybe(S)
BY DEF Serial!Techniques, Serial!Time, Serial!Ids, Serial!NoSignals, Serial!Maybe,
       Techniques, Time, Ids, NoSignals, Maybe

LEMMA SameRounding == \A s : Serial!Rounded(s) = Rounded(s)
BY DEF Serial!Rounded, Serial!Nearest, Serial!Distance, Rounded, Nearest, Distance

LEMMA SameScore ==
  /\ \A p, x, y : Serial!Accumulate(p, x, y) = Accumulate(p, x, y)
  /\ \A sig : Serial!ComputeInstantaneousScore(sig) = ComputeInstantaneousScore(sig)
  /\ \A sig : Serial!DominantPattern(sig) = DominantPattern(sig)
  /\ \A x : Serial!DetermineStatus(x) = DetermineStatus(x)
  /\ \A x, y : Serial!ShouldCreateAlert(x, y) = ShouldCreateAlert(x, y)
BY Zenon
DEF Serial!Accumulate, Serial!DecayFactor, Serial!ComputeInstantaneousScore,
    Serial!DominantPattern, Serial!DetermineStatus, Serial!ShouldCreateAlert,
    Accumulate, DecayFactor, ComputeInstantaneousScore, DominantPattern,
    DetermineStatus, ShouldCreateAlert

LEMMA SameOutcome ==
  /\ \A now : Serial!ResetOutcome(now) = ResetOutcome(now)
  /\ \A p, sig, now : Serial!ScoredOutcome(p, sig, now) = ScoredOutcome(p, sig, now)
  /\ \A p, now : Serial!MustReset(p, now) = MustReset(p, now)
<1>1. \A now : Serial!ResetOutcome(now) = ResetOutcome(now)
  BY SameSets, Zenon DEF Serial!ResetOutcome, ResetOutcome
<1>2. ASSUME NEW p, NEW sig, NEW now
      PROVE  Serial!ScoredOutcome(p, sig, now) = ScoredOutcome(p, sig, now)
  BY SameScore, Zenon DEF Serial!ScoredOutcome, ScoredOutcome
<1>3. \A p, now : Serial!MustReset(p, now) = MustReset(p, now)
  BY Zenon DEF Serial!MustReset, MustReset, Serial!IsInactivityResetNeeded, IsInactivityResetNeeded
<1>4. QED
  BY <1>1, <1>2, <1>3

LEMMA SameUpdates ==
  /\ \A p, now, latest, window, n, m :
       Serial!CycleProfile(p, now, latest, window, n, m)
         = CycleProfile(p, now, latest, window, n, m)
  /\ \A x, p, now, window :
       /\ Serial!CyclePatterns(x, p, now, window) = CyclePatterns(x, p, now, window)
       /\ Serial!CycleAlerts(x, p, now, window) = CycleAlerts(x, p, now, window)
  /\ \A p, now, latest, n, m :
       Serial!ResetUserRiskProfile(p, now, latest, n, m)
         = ResetUserRiskProfile(p, now, latest, n, m)
  /\ \A p, ts : Serial!SetUserLastEventAt(p, ts) = SetUserLastEventAt(p, ts)
<1>1. \A p, now, window :
        Serial!CycleVerdict(p, now, window) = CycleVerdict(p, now, window)
  BY SameSets, SameOutcome, Zenon DEF Serial!CycleVerdict, CycleVerdict
<1>2. \A p, sig, now : Serial!Evaluate(p, sig, now) = Evaluate(p, sig, now)
  BY SameOutcome, Zenon DEF Serial!Evaluate, Evaluate
<1>3. \A p, now, window :
        Serial!CycleOutcome(p, now, window) = CycleOutcome(p, now, window)
  BY <1>1, <1>2, Zenon DEF Serial!CycleOutcome, CycleOutcome
<1>4. \A p : Serial!NextVersion(p) = NextVersion(p)
  BY Zenon DEF Serial!NextVersion, NextVersion
<1>5. ASSUME NEW p, NEW outcome, NEW last, NEW n, NEW m
      PROVE  Serial!UpsertRiskProfile(p, outcome, last, n, m)
               = UpsertRiskProfile(p, outcome, last, n, m)
  BY <1>4, SameRounding, Zenon DEF Serial!UpsertRiskProfile, UpsertRiskProfile
<1>6. \A p, latest : Serial!LastEventAfter(p, latest) = LastEventAfter(p, latest)
  BY Zenon DEF Serial!LastEventAfter, LastEventAfter
<1>7. ASSUME NEW p, NEW now, NEW latest, NEW window, NEW n, NEW m
      PROVE  Serial!CycleProfile(p, now, latest, window, n, m)
               = CycleProfile(p, now, latest, window, n, m)
  BY <1>3, <1>5, <1>6, Zenon DEF Serial!CycleProfile, CycleProfile
<1>8. ASSUME NEW x, NEW p, NEW now, NEW window
      PROVE  Serial!CyclePatterns(x, p, now, window) = CyclePatterns(x, p, now, window)
  BY <1>1, SameSets DEF Serial!CyclePatterns, CyclePatterns
<1>9. ASSUME NEW x, NEW p, NEW now, NEW window
      PROVE  Serial!CycleAlerts(x, p, now, window) = CycleAlerts(x, p, now, window)
  BY <1>3, SameRounding, Zenon DEF Serial!CycleAlerts, CycleAlerts
<1>10. ASSUME NEW p, NEW now, NEW latest, NEW n, NEW m
       PROVE  Serial!ResetUserRiskProfile(p, now, latest, n, m)
                = ResetUserRiskProfile(p, now, latest, n, m)
  BY <1>4, <1>5, SameSets, SameOutcome, Zenon
  DEF Serial!ResetUserRiskProfile, ResetUserRiskProfile
<1>11. ASSUME NEW p, NEW ts
       PROVE  Serial!SetUserLastEventAt(p, ts) = SetUserLastEventAt(p, ts)
  BY <1>4, SameSets, Zenon DEF Serial!SetUserLastEventAt, SetUserLastEventAt
<1>12. QED
  BY <1>7, <1>8, <1>9, <1>10, <1>11

(* The row counts are the only part of a write the specification leaves    *)
(* open.                                                                   *)
UpToCounts(q, row) ==
  q = [row EXCEPT !.sessions = q.sessions, !.interactions = q.interactions]

LEMMA CountsAside ==
  ASSUME NEW p \in Maybe(Profile), NEW now, NEW latest, NEW window, NEW n, NEW m
  PROVE  /\ UpToCounts(CycleProfile(p, now, latest, window, n, m),
                       CycleProfile(p, now, latest, window, NULL, NULL))
         /\ UpToCounts(ResetUserRiskProfile(p, now, latest, n, m),
                       ResetUserRiskProfile(p, now, latest, NULL, NULL))
         /\ UpToCounts(SetUserLastEventAt(p, now), SetUserLastEventAt(p, now))
<1>1. ASSUME NEW outcome, NEW last
      PROVE  UpToCounts(UpsertRiskProfile(p, outcome, last, n, m),
                        UpsertRiskProfile(p, outcome, last, NULL, NULL))
  <2>1. ASSUME NEW a, NEW b, NEW c, NEW d, NEW e, NEW f
        PROVE  UpToCounts(
                 [score |-> a, signals |-> b, status |-> c, lastEvent |-> d,
                  lastScored |-> e, sessions |-> n, interactions |-> m, version |-> f],
                 [score |-> a, signals |-> b, status |-> c, lastEvent |-> d,
                  lastScored |-> e, sessions |-> NULL, interactions |-> NULL, version |-> f])
    <3> DEFINE row(x, y) ==
                 [score |-> a, signals |-> b, status |-> c, lastEvent |-> d,
                  lastScored |-> e, sessions |-> x, interactions |-> y, version |-> f]
               half == row(n, NULL)
    <3>1. half = [row(NULL, NULL) EXCEPT !.sessions = n]
      OBVIOUS
    <3>2. row(n, m) = [half EXCEPT !.interactions = m]
      OBVIOUS
    <3>3. row(n, m).sessions = n /\ row(n, m).interactions = m
      OBVIOUS
    <3> HIDE DEF row, half
    <3>4. UpToCounts(row(n, m), row(NULL, NULL))
      BY <3>1, <3>2, <3>3, Zenon DEF UpToCounts
    <3>5. QED
      BY <3>4, Zenon DEF row
  <2>2. QED
    BY <2>1, Zenon DEF UpsertRiskProfile
<1>2. p # NULL => p \in Profile
  BY DEF Maybe
<1>3. UpToCounts(CycleProfile(p, now, latest, window, n, m),
                 CycleProfile(p, now, latest, window, NULL, NULL))
  BY <1>1 DEF CycleProfile
<1>4. UpToCounts(ResetUserRiskProfile(p, now, latest, n, m),
                 ResetUserRiskProfile(p, now, latest, NULL, NULL))
  <2>1. CASE p = NULL
    BY <1>1, <2>1 DEF ResetUserRiskProfile
  <2>2. CASE p # NULL
    BY <1>2, <2>2 DEF ResetUserRiskProfile, Profile, UpToCounts
  <2>3. QED
    BY <2>1, <2>2
<1>5. UpToCounts(SetUserLastEventAt(p, now), SetUserLastEventAt(p, now))
  <2>1. CASE p = NULL
    BY <2>1 DEF SetUserLastEventAt, UpToCounts
  <2>2. CASE p # NULL
    BY <1>2, <2>2 DEF SetUserLastEventAt, Profile, UpToCounts
  <2>3. QED
    BY <2>1, <2>2
<1>6. QED
  BY <1>3, <1>4, <1>5

(* Every write makes the next version, so it changes the row.              *)
LEMMA WritesChangeTheRow ==
  ASSUME NEW p \in Maybe(Profile), NEW now \in Time, NEW latest \in Maybe(Time),
         NEW window \in SUBSET Ids, NEW n \in Nat, NEW m \in Nat
  PROVE  /\ CycleProfile(p, now, latest, window, n, m) \notin {p, NULL}
         /\ ResetUserRiskProfile(p, now, latest, n, m) \notin {p, NULL}
         /\ SetUserLastEventAt(p, now) \notin {p, NULL}
<1> DEFINE q1 == CycleProfile(p, now, latest, window, n, m)
           q2 == ResetUserRiskProfile(p, now, latest, n, m)
           q3 == SetUserLastEventAt(p, now)
<1>1. q1 # NULL /\ q2 # NULL /\ q3 # NULL
  BY CycleProfileType, ResetProfileType, BackdateProfileType, CommonAssumption, ProfileAssumption
<1>2. ASSUME p # NULL
      PROVE  q1 # p /\ q2 # p /\ q3 # p
  <2>1. p \in Profile
    BY <1>2 DEF Maybe
  <2>2. NextVersion(p) # p.version
    BY <1>2, <2>1 DEF NextVersion, Profile
  <2>3. q1.version = NextVersion(p)
    BY DEF CycleProfile, UpsertRiskProfile
  <2>4. q2.version = NextVersion(p)
    BY <1>2, <2>1 DEF ResetUserRiskProfile, Profile
  <2>5. q3.version = NextVersion(p)
    BY <1>2, <2>1 DEF SetUserLastEventAt, Profile
  <2>6. QED
    BY <2>2, <2>3, <2>4, <2>5
<1>3. QED
  BY <1>1, <1>2

-----------------------------------------------------------------------------
LEMMA CommitImplementsSerial ==
  ASSUME IInv, NEW w \in Workers, Commit(w)
  PROVE  Serial!Next
<1> DEFINE u == job[w].user
           v == view[w]
           p == profile[u]
           now == job[w].now
           q1 == CycleProfile(p, now, v.latest, v.window, v.sessions, v.interactions)
           q2 == ResetUserRiskProfile(p, now, v.latest, v.sessions, v.interactions)
           q3 == SetUserLastEventAt(p, now)
<1>1. /\ u \in Users /\ v.seen = p /\ p \in Maybe(Profile)
      /\ now \in Time /\ v.latest \in Maybe(Time) /\ v.window \in SUBSET Ids
      /\ v.sessions \in Nat /\ v.interactions \in Nat
  <2>1. pc[w] = "staged"
    BY DEF Commit
  <2>2. QED
    BY <2>1, BusyTypes, CommitIsSerial DEF IInv
<1>2. \/ /\ profile' = [profile EXCEPT ![u] = q1]
         /\ patterns' = [patterns EXCEPT ![u] =
              CyclePatterns(patterns[u], p, now, v.window)]
         /\ alerts' = [alerts EXCEPT ![u] =
              CycleAlerts(alerts[u], p, now, v.window)]
      \/ /\ profile' = [profile EXCEPT ![u] = q2]
         /\ UNCHANGED <<patterns, alerts>>
      \/ /\ profile' = [profile EXCEPT ![u] = q3]
         /\ UNCHANGED <<patterns, alerts>>
  BY <1>1, CommitCases DEF IInv
<1>3. profile \in [Users -> Maybe(Profile)]
  BY DEF IInv, TypeInv, TypeOK
<1>4. q1 \notin {p, NULL} /\ q2 \notin {p, NULL} /\ q3 \notin {p, NULL}
  BY <1>1, WritesChangeTheRow
<1>5. /\ UpToCounts(q1, CycleProfile(p, now, v.latest, v.window, NULL, NULL))
      /\ UpToCounts(q2, ResetUserRiskProfile(p, now, v.latest, NULL, NULL))
      /\ UpToCounts(q3, q3)
  BY <1>1, CountsAside
<1> HIDE DEF q1, q2, q3
<1>6. ASSUME NEW q, NEW row, profile' = [profile EXCEPT ![u] = q], q \notin {p, NULL},
             UpToCounts(q, row)
      PROVE  Serial!Becomes(u, row) /\ profile'[u] # profile[u]
  <2>1. profile'[u] = q /\ \A x \in Users \ {u} : profile'[x] = profile[x]
    BY <1>1, <1>3, <1>6
  <2>2. QED
    BY <1>6, <2>1 DEF Serial!Becomes, UpToCounts
<1>7. CASE /\ profile' = [profile EXCEPT ![u] = q1]
           /\ patterns' = [patterns EXCEPT ![u] =
                CyclePatterns(patterns[u], p, now, v.window)]
           /\ alerts' = [alerts EXCEPT ![u] =
                CycleAlerts(alerts[u], p, now, v.window)]
  <2>1. /\ Serial!Becomes(u, CycleProfile(p, now, v.latest, v.window, NULL, NULL))
        /\ profile'[u] # profile[u]
    BY <1>4, <1>5, <1>6, <1>7
  <2>2. Serial!ScoreOnce(u, now, v.latest, v.window)
    BY <1>7, <2>1, SameUpdates DEF Serial!ScoreOnce
  <2>3. QED
    BY <1>1, <2>1, <2>2, SameSets DEF Serial!Next
<1>8. CASE /\ profile' = [profile EXCEPT ![u] = q2]
           /\ UNCHANGED <<patterns, alerts>>
  <2>1. /\ Serial!Becomes(u, ResetUserRiskProfile(p, now, v.latest, NULL, NULL))
        /\ profile'[u] # profile[u]
    BY <1>4, <1>5, <1>6, <1>8
  <2>2. Serial!ResetOnce(u, now, v.latest)
    BY <1>8, <2>1, SameUpdates DEF Serial!ResetOnce
  <2>3. QED
    BY <1>1, <2>1, <2>2, SameSets DEF Serial!Next
<1>9. CASE /\ profile' = [profile EXCEPT ![u] = q3]
           /\ UNCHANGED <<patterns, alerts>>
  <2>1. Serial!Becomes(u, q3) /\ profile'[u] # profile[u]
    BY <1>4, <1>5, <1>6, <1>9
  <2>2. Serial!BackdateOnce(u, now)
    BY <1>9, <2>1, SameUpdates DEF Serial!BackdateOnce, q3
  <2>3. QED
    BY <1>1, <2>1, <2>2, SameSets DEF Serial!Next
<1>10. QED
  BY <1>2, <1>7, <1>8, <1>9

(* The threads, their locks, failures and crashes implement the serial     *)
(* specification: every commit is one whole transaction on the committed   *)
(* row, every other step a stutter.                                        *)
THEOREM CyclesAreSerial == Spec => ImplementsSerial
<1>1. Init => Serial!Init
  BY DEF Init
<1>2. IInv /\ [Next]_vars => [Serial!Next]_(Serial!serialVars)
  BY OnlyCommitsScore, CommitImplementsSerial DEF scored, Serial!serialVars
<1>3. QED
  BY IInvAlways, <1>1, <1>2, PTL DEF Spec, ImplementsSerial, Serial!Spec

-----------------------------------------------------------------------------
(* Every committed event is counted (CountsComplete), although events      *)
(* commit without the lock between the statements of a cycle. A cycle of   *)
(* the user is due: scheduled, or started and not yet counting; or the     *)
(* cycle that counts has counted what there is; or the row carries the     *)
(* counts. An event that commits makes a cycle due, so a stale count is    *)
(* never the last word.                                                    *)
Early == {"locking", "locked", "read", "cut", "windowed"}

Runs(w, u) == pc[w] # "idle" /\ job[w].user = u /\ job[w].kind \in Cycles
Starting(w, u) == Runs(w, u) /\ pc[w] \in Early
Counting(w, u) == Runs(w, u) /\ pc[w] \in {"counted", "staged"}

Due(u) == queue[u] > 0 \/ \E w \in Workers : Starting(w, u)

Fresh(w, u) ==
  /\ view[w].sessions = Len(sessions[u])
  /\ pc[w] = "staged" => view[w].interactions = Len(interactions[u])

RowComplete(u) ==
  /\ profile[u] # NULL
  /\ profile[u].interactions = Len(interactions[u])
  /\ profile[u].sessions = Len(sessions[u])

CountsOf(u) ==
  faults = 0 /\ interactions[u] # <<>> /\ ~Due(u) =>
    /\ \A w \in Workers : Counting(w, u) => Fresh(w, u)
    /\ (\E w \in Workers : Counting(w, u)) \/ RowComplete(u)

CountsInv == \A u \in Users : CountsOf(u)

-----------------------------------------------------------------------------
(* A step that leaves the rows of a user, and the cycles of that user      *)
(* where they are or among the early stages, changes nothing for the user. *)
LEMMA NothingForUser ==
  ASSUME NEW u \in Users, CountsOf(u), faults' = faults,
         sessions'[u] = sessions[u], interactions'[u] = interactions[u],
         queue'[u] = queue[u], profile'[u] = profile[u],
         \A w \in Workers : Starting(w, u)' <=> Starting(w, u),
         \A w \in Workers : Counting(w, u)' =>
           /\ Counting(w, u) /\ pc'[w] = pc[w]
           /\ view'[w].sessions = view[w].sessions
           /\ view'[w].interactions = view[w].interactions,
         \A w \in Workers : Counting(w, u) => Counting(w, u)'
  PROVE  CountsOf(u)'
<1>1. Due(u)' <=> Due(u)
  BY DEF Due
<1>2. RowComplete(u)' <=> RowComplete(u)
  BY DEF RowComplete
<1>3. \A w \in Workers : Counting(w, u)' /\ Fresh(w, u) => Fresh(w, u)'
  BY DEF Fresh
<1>4. QED
  BY <1>1, <1>2, <1>3 DEF CountsOf

(* The threads other than w stay as they are.                              *)
LEMMA OtherThreads ==
  ASSUME NEW w \in Workers, NEW u \in Users,
         \A v \in Workers \ {w} :
           pc'[v] = pc[v] /\ job'[v] = job[v] /\ view'[v] = view[v]
  PROVE  \A v \in Workers \ {w} :
           /\ Starting(v, u)' <=> Starting(v, u)
           /\ Counting(v, u)' <=> Counting(v, u)
           /\ Fresh(v, u)' <=>
                /\ view[v].sessions = Len(sessions'[u])
                /\ pc[v] = "staged" => view[v].interactions = Len(interactions'[u])
BY DEF Starting, Counting, Runs, Fresh

(* A step of the thread w that stays in, or stays out of, what matters to  *)
(* the user u.                                                             *)
LEMMA ThreadAside ==
  ASSUME NEW w \in Workers, NEW u \in Users, CountsOf(u), faults' = faults,
         sessions'[u] = sessions[u], interactions'[u] = interactions[u],
         queue'[u] = queue[u], profile'[u] = profile[u],
         \A v \in Workers \ {w} :
           pc'[v] = pc[v] /\ job'[v] = job[v] /\ view'[v] = view[v],
         Starting(w, u)' <=> Starting(w, u),
         ~Counting(w, u), ~Counting(w, u)'
  PROVE  CountsOf(u)'
<1>1. \A v \in Workers : Starting(v, u)' <=> Starting(v, u)
  BY OtherThreads
<1>2. \A v \in Workers : Counting(v, u)' <=> Counting(v, u)
  BY OtherThreads
<1>3. \A v \in Workers : Counting(v, u)' =>
        /\ pc'[v] = pc[v]
        /\ view'[v].sessions = view[v].sessions
        /\ view'[v].interactions = view[v].interactions
  <2> SUFFICES ASSUME NEW v \in Workers, Counting(v, u)'
               PROVE  pc'[v] = pc[v] /\ view'[v] = view[v]
    OBVIOUS
  <2>1. v # w
    OBVIOUS
  <2>2. QED
    BY <2>1
<1>4. QED
  BY <1>1, <1>2, <1>3, NothingForUser

-----------------------------------------------------------------------------
LEMMA InitCountsInv == Init => CountsInv
BY DEF Init, CountsInv, CountsOf

(* An event that commits makes a cycle of its user due.                    *)
LEMMA CommitEventKeepsCounts ==
  ASSUME TypeInv, CountsInv, CommitEvent
  PROVE  CountsInv'
<1>1. PICK a \in Users : arriving.user = a
  BY DEF CommitEvent, StoreArriving, TypeInv, TypeOK, Maybe, Arrival
<1>2. queue'[a] = queue[a] + 1 /\ queue[a] \in Nat
  BY <1>1 DEF CommitEvent, TypeInv, TypeOK
<1>3. Due(a)'
  BY <1>2 DEF Due
<1>4. ASSUME NEW u \in Users \ {a} PROVE CountsOf(u)'
  <2>1. /\ sessions'[u] = sessions[u] /\ interactions'[u] = interactions[u]
        /\ queue'[u] = queue[u]
    BY <1>1, <1>4 DEF CommitEvent, StoreArriving, TypeInv, TypeOK
  <2>2. UNCHANGED <<pc, job, view, profile, faults>>
    BY DEF CommitEvent, StoreArriving, threads, scored
  <2>3. CountsOf(u)
    BY DEF CountsInv
  <2>4. \A w \in Workers :
          (Starting(w, u)' <=> Starting(w, u)) /\ (Counting(w, u)' <=> Counting(w, u))
    BY <2>2 DEF Starting, Counting, Runs
  <2>5. QED
    BY <2>1, <2>2, <2>3, <2>4, NothingForUser
<1>5. QED
  BY <1>3, <1>4 DEF CountsInv, CountsOf

(* A transaction that begins: the cycle that was scheduled is started.     *)
LEMMA BeginKeepsCounts ==
  ASSUME TypeInv, CountsInv, NEW w \in Workers, NEW a \in Users,
         NEW kind \in Kinds, NEW now, Begin(w, a, kind, now),
         \/ kind \in Cycles /\ \A u \in Users \ {a} : queue'[u] = queue[u]
         \/ queue' = queue
  PROVE  CountsInv'
<1>1. /\ pc[w] = "idle" /\ pc'[w] = "locking"
      /\ job'[w].user = a /\ job'[w].kind = kind
      /\ \A v \in Workers \ {w} :
           pc'[v] = pc[v] /\ job'[v] = job[v] /\ view'[v] = view[v]
  BY DEF Begin, TypeInv, TypeOK
<1>2. UNCHANGED <<sessions, interactions, profile, faults>>
  BY DEF Begin, tables, scored
<1>3. ASSUME NEW u \in Users PROVE CountsOf(u)'
  <2>1. CASE u = a /\ kind \in Cycles
    <3>1. Starting(w, u)'
      BY <1>1, <2>1 DEF Starting, Runs, Early
    <3>2. QED
      BY <3>1 DEF CountsOf, Due
  <2>2. CASE ~(u = a /\ kind \in Cycles)
    <3>1. ~Runs(w, u) /\ ~Runs(w, u)'
      BY <1>1, <2>2 DEF Runs
    <3>2. queue'[u] = queue[u]
      BY <2>2
    <3>3. QED
      BY <1>1, <1>2, <3>1, <3>2, ThreadAside DEF CountsInv, Starting, Counting
  <2>3. QED
    BY <2>1, <2>2
<1>4. QED
  BY <1>3 DEF CountsInv

(* A statement before the counts leaves the cycle among the early stages.  *)
LEMMA EarlyStatement ==
  ASSUME TypeInv, CountsInv, NEW w \in Workers,
         \/ AcquireUserAdvisoryLock(w)
         \/ ReadProfile(w)
         \/ ReadSessionCutoff(w)
         \/ SelectWindow(w)
  PROVE  CountsInv'
<1>1. /\ pc[w] \in Early /\ pc'[w] \in Early
      /\ job'[w].user = job[w].user /\ job'[w].kind = job[w].kind
  <2>1. CASE AcquireUserAdvisoryLock(w)
    <3>1. pc[w] = "locking" /\ job[w] \in Job
      BY <2>1, BusyTypes DEF AcquireUserAdvisoryLock
    <3>2. QED
      BY <2>1, <3>1 DEF AcquireUserAdvisoryLock, TypeInv, TypeOK, Job, Early
  <2>2. CASE ~AcquireUserAdvisoryLock(w)
    BY <2>2 DEF ReadProfile, ReadSessionCutoff, SelectWindow, Advance,
                TypeInv, TypeOK, Early
  <2>3. QED
    BY <2>1, <2>2
<1>2. \A v \in Workers \ {w} :
        pc'[v] = pc[v] /\ job'[v] = job[v] /\ view'[v] = view[v]
  BY DEF AcquireUserAdvisoryLock, ReadProfile, ReadSessionCutoff, SelectWindow,
         Advance, TypeInv, TypeOK
<1>3. UNCHANGED <<sessions, interactions, queue, profile, faults>>
  BY DEF AcquireUserAdvisoryLock, ReadProfile, ReadSessionCutoff, SelectWindow,
         Advance, tables, scored
<1>4. ASSUME NEW u \in Users PROVE CountsOf(u)'
  <2>1. /\ Starting(w, u)' <=> Starting(w, u)
        /\ ~Counting(w, u) /\ ~Counting(w, u)'
    BY <1>1 DEF Starting, Counting, Runs, Early
  <2>2. QED
    BY <1>2, <1>3, <2>1, ThreadAside DEF CountsInv
<1>5. QED
  BY <1>4 DEF CountsInv

(* Under the lock of a user, no other thread counts for that user.         *)
LEMMA CountsAlone ==
  ASSUME LockInv, NEW w \in Workers, pc[w] \in Holding
  PROVE  \A v \in Workers \ {w} : ~Counting(v, job[w].user)
BY OneHolder DEF LockInv, Counting, Runs, Holding, Reading

(* The two counting statements: what they count is there, or an event that *)
(* came in between makes a cycle due.                                      *)
LEMMA CountStatement ==
  ASSUME TypeInv, LockInv, CountsInv, NEW w \in Workers,
         CountSessions(w) \/ Stage(w)
  PROVE  CountsInv'
<1>1. /\ pc[w] \in Reading /\ pc'[w] \in {"counted", "staged"}
      /\ CountSessions(w) => pc'[w] = "counted"
      /\ Stage(w) => pc[w] = "counted"
  BY DEF CountSessions, Stage, Advance, TypeInv, TypeOK, Reading
<1>2. \A v \in Workers \ {w} :
        pc'[v] = pc[v] /\ job'[v] = job[v] /\ view'[v] = view[v]
  BY DEF CountSessions, Stage, Advance, TypeInv, TypeOK
<1>3. UNCHANGED <<sessions, interactions, queue, profile, faults, job>>
  BY DEF CountSessions, Stage, Advance, tables, scored
<1>4. /\ CountSessions(w) => view'[w].sessions = Len(sessions[job[w].user])
      /\ Stage(w) => /\ view'[w].sessions = view[w].sessions
                     /\ view'[w].interactions = Len(interactions[job[w].user])
  BY DEF CountSessions, Stage, TypeInv, TypeOK, View
<1>5. ASSUME NEW u \in Users PROVE CountsOf(u)'
  <2>1. CASE Runs(w, u)
    <3>1. Counting(w, u)' /\ job[w].user = u
      BY <1>1, <1>3, <2>1 DEF Counting, Runs
    <3>2. \A v \in Workers \ {w} : ~Counting(v, u)'
      BY <1>1, <1>2, <3>1, CountsAlone, OtherThreads DEF Holding
    <3>3. SUFFICES ASSUME faults' = 0, interactions'[u] # <<>>, ~Due(u)'
                   PROVE  Fresh(w, u)'
      BY <3>1, <3>2 DEF CountsOf
    <3>4. CASE CountSessions(w)
      BY <1>1, <1>3, <1>4, <3>1, <3>4 DEF Fresh
    <3>5. CASE Stage(w)
      <4>1. ~Starting(w, u)
        BY <1>1, <3>5 DEF Starting, Early
      <4>2. ~Due(u)
        BY <1>2, <1>3, <3>3, <4>1, OtherThreads DEF Due
      <4>3. Counting(w, u)
        BY <1>1, <2>1, <3>5 DEF Counting
      <4>4. Fresh(w, u)
        BY <1>3, <3>3, <4>2, <4>3 DEF CountsInv, CountsOf
      <4>5. QED
        BY <1>3, <1>4, <3>1, <3>5, <4>4 DEF Fresh
    <3>6. QED
      BY <3>4, <3>5
  <2>2. CASE ~Runs(w, u)
    <3>1. ~Runs(w, u)'
      BY <1>1, <1>3, <2>2 DEF Runs, Reading
    <3>2. QED
      BY <1>2, <1>3, <2>2, <3>1, ThreadAside DEF CountsInv, Starting, Counting
  <2>3. QED
    BY <2>1, <2>2
<1>6. QED
  BY <1>5 DEF CountsInv

(* What a commit leaves in the counts of the row.                          *)
LEMMA CommittedCounts ==
  ASSUME TypeInv, NEW w \in Workers, Commit(w), NEW u, u = job[w].user
  PROVE  /\ job[w].kind \in Cycles =>
              /\ profile'[u] # NULL
              /\ profile'[u].sessions = view[w].sessions
              /\ profile'[u].interactions = view[w].interactions
         /\ job[w].kind \notin Cycles /\ view[w].seen # NULL =>
              /\ profile'[u] # NULL
              /\ profile'[u].sessions = view[w].seen.sessions
              /\ profile'[u].interactions = view[w].seen.interactions
         /\ \A x \in Users \ {u} : profile'[x] = profile[x]
<1> DEFINE v == view[w]
           now == job[w].now
           p1 == CycleProfile(v.seen, now, v.latest, v.window, v.sessions, v.interactions)
           p2 == ResetUserRiskProfile(v.seen, now, v.latest, v.sessions, v.interactions)
           p3 == SetUserLastEventAt(v.seen, now)
<1>1. /\ pc[w] = "staged" /\ WriteRows(w)
      /\ u \in Users /\ job[w].kind \in Kinds
      /\ v \in View /\ v.seen \in Maybe(Profile)
      /\ now \in Time /\ v.window \in SUBSET Ids /\ v.latest \in Maybe(Time)
  BY BusyTypes DEF Commit
<1>2. profile \in [Users -> Maybe(Profile)]
  BY DEF TypeInv, TypeOK
<1>3. p1.sessions = v.sessions /\ p1.interactions = v.interactions
  BY DEF CycleProfile, UpsertRiskProfile
<1>4. v.seen # NULL =>
        /\ p2.sessions = v.seen.sessions /\ p2.interactions = v.seen.interactions
        /\ p3.sessions = v.seen.sessions /\ p3.interactions = v.seen.interactions
  BY <1>1 DEF ResetUserRiskProfile, SetUserLastEventAt, Maybe, Profile
<1>5. p1 # NULL /\ p2 # NULL /\ p3 # NULL
  BY <1>1, WritesChangeTheRow DEF View
<1> HIDE DEF p1, p2, p3
<1>6. /\ job[w].kind \in Cycles => profile' = [profile EXCEPT ![u] = p1]
      /\ job[w].kind \notin Cycles =>
           \/ profile' = [profile EXCEPT ![u] = p2]
           \/ profile' = [profile EXCEPT ![u] = p3]
  BY <1>1 DEF WriteRows, Kinds, Cycles, p1, p2, p3
<1>7. QED
  BY <1>1, <1>2, <1>3, <1>4, <1>5, <1>6

(* A commit writes fresh counts, or leaves those of the row alone.         *)
LEMMA CommitKeepsCounts ==
  ASSUME TypeInv, LockInv, CountsInv, NEW w \in Workers, Commit(w)
  PROVE  CountsInv'
<1>1. PICK a \in Users : job[w].user = a
  BY BusyTypes DEF Commit
<1>2. /\ pc[w] = "staged" /\ pc'[w] = "idle"
      /\ \A v \in Workers \ {w} :
           pc'[v] = pc[v] /\ job'[v] = job[v] /\ view'[v] = view[v]
  BY DEF Commit, Release, TypeInv, TypeOK
<1>3. UNCHANGED <<sessions, interactions, queue, faults>>
  BY DEF Commit, tables
<1>4. ASSUME NEW u \in Users \ {a} PROVE CountsOf(u)'
  <2>1. profile'[u] = profile[u]
    BY <1>1, CommittedCounts
  <2>2. ~Runs(w, u) /\ ~Runs(w, u)'
    BY <1>1, <1>2 DEF Runs
  <2>3. QED
    BY <1>2, <1>3, <2>1, <2>2, ThreadAside DEF CountsInv, Starting, Counting
<1>5. CountsOf(a)'
  <2>1. SUFFICES ASSUME faults = 0, interactions[a] # <<>>, ~Due(a)'
                 PROVE  /\ \A v \in Workers : ~Counting(v, a)'
                        /\ RowComplete(a)'
    BY <1>3 DEF CountsOf
  <2>2. \A v \in Workers \ {w} : ~Counting(v, a) /\ ~Counting(v, a)'
    BY <1>1, <1>2, CountsAlone, OtherThreads DEF Holding, Reading
  <2>3. ~Counting(w, a)'
    BY <1>2 DEF Counting
  <2>4. ~Starting(w, a)
    BY <1>2 DEF Starting, Early
  <2>5. ~Due(a)
    BY <1>2, <1>3, <2>1, <2>4, OtherThreads DEF Due
  <2>6. RowComplete(a)'
    <3>1. CASE job[w].kind \in Cycles
      <4>1. Counting(w, a)
        BY <1>1, <1>2, <3>1 DEF Counting, Runs
      <4>2. Fresh(w, a)
        BY <2>1, <2>5, <4>1 DEF CountsInv, CountsOf
      <4>3. QED
        BY <1>1, <1>2, <1>3, <3>1, <4>2, CommittedCounts DEF Fresh, RowComplete
    <3>2. CASE job[w].kind \notin Cycles
      <4>1. ~Counting(w, a)
        BY <3>2 DEF Counting, Runs
      <4>2. RowComplete(a)
        BY <2>1, <2>2, <2>5, <4>1 DEF CountsInv, CountsOf
      <4>3. view[w].seen = profile[a]
        BY <1>1, <1>2 DEF LockInv, NoLostUpdate, Reading
      <4>4. QED
        BY <1>1, <1>3, <3>2, <4>2, <4>3, CommittedCounts DEF RowComplete
    <3>3. QED
      BY <3>1, <3>2
  <2>7. QED
    BY <2>2, <2>3, <2>6
<1>6. QED
  BY <1>4, <1>5 DEF CountsInv

-----------------------------------------------------------------------------
(* Every step keeps the counts.                                            *)
LEMMA CountsInvStep == IInv /\ CountsInv /\ [Next]_vars => CountsInv'
<1> SUFFICES ASSUME TypeInv, LockInv, CountsInv, [Next]_vars PROVE CountsInv'
  BY DEF IInv
<1> USE DEF tables, scored, threads
<1>1. ASSUME UNCHANGED <<sessions, interactions, queue, threads, scored, faults>>
      PROVE  CountsInv'
  BY <1>1 DEF CountsInv, CountsOf, Due, Starting, Counting, Runs, Fresh, RowComplete
<1>2. ASSUME faults' = faults + 1
      PROVE  CountsInv'
  BY <1>2 DEF CountsInv, CountsOf, TypeInv, TypeOK
<1>3. CASE Tick \/ RejectEvent \/ UNCHANGED vars
  BY <1>1, <1>3 DEF Tick, RejectEvent, vars
<1>4. ASSUME NEW u \in Users, ReceiveEvent(u)
      PROVE  CountsInv'
  BY <1>1, <1>4 DEF ReceiveEvent
<1>5. CASE CommitEvent
  BY <1>5, CommitEventKeepsCounts
<1>6. CASE CommitEventLoseTask \/ Crash
  BY <1>2, <1>6 DEF CommitEventLoseTask, Crash
<1>7. ASSUME NEW w \in Workers, Progress(w)
      PROVE  CountsInv'
  BY <1>7, EarlyStatement, CountStatement, CommitKeepsCounts DEF Progress
<1>8. ASSUME NEW w \in Workers, Abort(w)
      PROVE  CountsInv'
  BY <1>2, <1>8 DEF Abort
<1>9. ASSUME NEW w \in Workers, NEW u \in Users, StartDetection(w, u)
      PROVE  CountsInv'
  BY <1>9, BeginKeepsCounts DEF StartDetection, TypeInv, TypeOK, Kinds, Cycles
<1>10. ASSUME NEW w \in Workers, NEW u \in Users,
              NEW kind \in Kinds, NEW now, StartAdmin(w, u, kind, now)
       PROVE  CountsInv'
  BY <1>10, BeginKeepsCounts DEF StartAdmin
<1>11. AdminKinds \subseteq Kinds
  BY CycleAssumption DEF Kinds
<1>12. QED
  BY <1>3, <1>4, <1>5, <1>6, <1>7, <1>8, <1>9, <1>10, <1>11 DEF Next

(* Every committed event is counted, for any number of users, threads and  *)
(* events: when a user's cycles are done and none was lost, the row of the *)
(* user carries the counts of the tables.                                  *)
THEOREM EveryEventIsCounted == Spec => []CountsComplete
<1>1. CountsInv /\ TypeInv => CountsComplete
  <2> SUFFICES ASSUME CountsInv, TypeInv, NEW u \in Users,
                      faults = 0, ~Working(u), interactions[u] # <<>>
               PROVE  RowComplete(u)
    BY DEF CountsComplete, RowComplete
  <2>1. ~Due(u) /\ \A w \in Workers : ~Counting(w, u)
    BY DEF Working, Due, Starting, Counting, Runs
  <2>2. QED
    BY <2>1 DEF CountsInv, CountsOf
<1>2. IInv => TypeInv
  BY DEF IInv
<1>3. QED
  BY IInvAlways, InitCountsInv, CountsInvStep, <1>1, <1>2, PTL DEF Spec
=============================================================================
