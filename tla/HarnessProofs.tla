---------------------------- MODULE HarnessProofs ----------------------------
(***************************************************************************)
(* Proofs about Harness, for any personas, plans, settings, detectors and  *)
(* numbers of failures: its verdicts are about all of a persona's traffic, *)
(* the reset test is wrong only where a cycle comes in between, the bursts *)
(* are the sessions, exit code 0 means that whole plans were stored, and   *)
(* the timing of the cycles moves a score between two bounds only.         *)
(***************************************************************************)
EXTENDS Harness, ScoringProofs, SequenceTheorems

Row == [prompt : Ids, session : Nat]

(* Only while it sends is the harness inside a plan.                       *)
AtStart ==
  /\ pc \notin {"sending", "aborted"} => burst = 1 /\ next = 1
  /\ pc = "polling" => persona = 1

(* The verdict on k will be about all of its traffic.                      *)
Covered(k) ==
  \/ <<k, "admin recompute">> \in failed
  \/ profile[k] # NULL /\ profile[k].interactions = Len(rows[k])

Sending == {"sending", "recompute"}
Verifying == {"risk", "dominant", "alert", "backdate", "reset", "reset_answer", "done"}

Through(k) == pc \in Verifying \/ (pc \in Sending /\ k < persona)

ThroughMeansCovered == \A k \in Personas : Through(k) => Covered(k)

(* While the reset test runs and no cycle was due when it began.           *)
ResetTest ==
  /\ pc \in {"reset", "reset_answer"} /\ ~raced => queue[1] = 0
  /\ pc = "reset" => profile[1] # NULL
  /\ pc = "reset" /\ ~raced => profile[1].lastEvent = LongAgo
  /\ pc = "reset_answer" /\ ~raced => Score(1) = 0 /\ profile[1].status = "normal"
  /\ <<1, "reset">> \in failed => pc = "done" /\ raced

HInv == TypeOK /\ AtStart /\ ThroughMeansCovered /\ ResetTest

-----------------------------------------------------------------------------
LEMMA PlanTypes ==
  /\ 1 \in Personas /\ Len(Plans) \in Nat /\ Personas = 1 .. Len(Plans)
  /\ \A k \in Personas :
       /\ 1 \in DOMAIN Plans[k] /\ Len(Plans[k]) \in Nat
       /\ DOMAIN Plans[k] = 1 .. Len(Plans[k])
       /\ \A b \in DOMAIN Plans[k] :
            /\ 1 \in DOMAIN Plans[k][b] /\ Len(Plans[k][b]) \in Nat
            /\ DOMAIN Plans[k][b] = 1 .. Len(Plans[k][b])
            /\ \A i \in DOMAIN Plans[k][b] : Plans[k][b][i] \in Ids
<1>1. Plans \in Seq(Seq(Seq(Ids))) /\ Len(Plans) > 0
  BY HarnessAssumption
<1>2. 1 \in Personas /\ Len(Plans) \in Nat /\ Personas = 1 .. Len(Plans)
  BY <1>1 DEF Personas
<1>3. ASSUME NEW k \in Personas
      PROVE  /\ 1 \in DOMAIN Plans[k] /\ Len(Plans[k]) \in Nat
             /\ DOMAIN Plans[k] = 1 .. Len(Plans[k])
             /\ Plans[k] \in Seq(Seq(Ids))
  <2>1. Plans[k] \in Seq(Seq(Ids))
    BY <1>1 DEF Personas
  <2>2. Len(Plans[k]) > 0
    BY HarnessAssumption
  <2>3. QED
    BY <2>1, <2>2
<1>4. ASSUME NEW k \in Personas, NEW b \in DOMAIN Plans[k]
      PROVE  /\ 1 \in DOMAIN Plans[k][b] /\ Len(Plans[k][b]) \in Nat
             /\ DOMAIN Plans[k][b] = 1 .. Len(Plans[k][b])
             /\ \A i \in DOMAIN Plans[k][b] : Plans[k][b][i] \in Ids
  <2>1. Plans[k][b] \in Seq(Ids)
    BY <1>3
  <2>2. Len(Plans[k][b]) > 0
    BY HarnessAssumption
  <2>3. QED
    BY <2>1, <2>2
<1>5. QED
  BY <1>2, <1>3, <1>4

LEMMA NowIsTime == Now \in Time /\ LongAgo \in Time
BY CommonAssumption DEF Now, LongAgo, Time

LEMMA InitInv == Init => HInv
<1> SUFFICES ASSUME Init PROVE HInv
  OBVIOUS
<1> USE DEF Init
<1>1. TypeOK
  <2>1. burst \in DOMAIN Plans[persona] /\ next \in DOMAIN Plans[persona][burst]
    BY PlanTypes
  <2>2. polls \in 0 .. MaxPolls /\ faults \in 0 .. MaxFaults
    BY HarnessAssumption
  <2>3. /\ sessions \in [Personas -> Seq(SessionRow)]
        /\ rows \in [Personas -> Seq([prompt : Ids, session : Nat])]
        /\ alerts \in [Personas -> Seq(Alert)]
    OBVIOUS
  <2>4. queue \in [Personas -> Nat] /\ profile \in [Personas -> Maybe(Profile)]
    BY DEF Maybe
  <2>5. pc \in Stages /\ persona \in Personas
    BY PlanTypes DEF Stages
  <2>6. QED
    BY <2>1, <2>2, <2>3, <2>4, <2>5 DEF TypeOK
<1>2. AtStart /\ ThroughMeansCovered /\ ResetTest
  BY DEF AtStart, ThroughMeansCovered, Through, Verifying, Sending, ResetTest
<1>3. QED
  BY <1>1, <1>2 DEF HInv

-----------------------------------------------------------------------------
(* A cycle of k, whoever runs it, gives the row types and covers the rows. *)
LEMMA CycleTypes ==
  ASSUME TypeOK, NEW k \in Personas, Cycle(k)
  PROVE  /\ profile' \in [Personas -> Maybe(Profile)]
         /\ alerts' \in [Personas -> Seq(Alert)]
         /\ profile'[k] \in Profile
         /\ profile'[k].interactions = Len(rows[k])
         /\ \A j \in Personas \ {k} : profile'[j] = profile[j]
<1>1. /\ profile \in [Personas -> Maybe(Profile)] /\ alerts \in [Personas -> Seq(Alert)]
      /\ rows[k] \in Seq(Row) /\ sessions[k] \in Seq(SessionRow)
  BY DEF TypeOK, Row
<1>2. Prompts(k) \in SUBSET Ids
  <2>1. \A i \in DOMAIN rows[k] : rows[k][i] \in Row
    BY <1>1
  <2>2. WindowRows(k) \subseteq DOMAIN rows[k]
    BY DEF WindowRows
  <2>3. QED
    BY <2>1, <2>2 DEF Prompts, Row
<1>3. LatestEvent(k) \in Maybe(Time)
  BY NowIsTime DEF LatestEvent, Maybe
<1>4. Len(rows[k]) \in Nat /\ Len(sessions[k]) \in Nat
  BY <1>1
<1>5. PICK row : row = CycleProfile(profile[k], Now, LatestEvent(k), Prompts(k),
                                    Len(sessions[k]), Len(rows[k]))
  OBVIOUS
<1>6. row \in Profile
  BY <1>1, <1>2, <1>3, <1>4, <1>5, NowIsTime, CycleProfileType
<1>7. row.interactions = Len(rows[k])
  BY <1>5 DEF CycleProfile, UpsertRiskProfile
<1>8. CycleAlerts(alerts[k], profile[k], Now, Prompts(k)) \in Seq(Alert)
  BY <1>1, <1>2, NowIsTime, CycleAlertsType
<1>9. /\ profile' = [profile EXCEPT ![k] = row]
      /\ alerts' = [alerts EXCEPT ![k] = CycleAlerts(@, profile[k], Now, Prompts(k))]
  BY <1>5 DEF Cycle
<1>10. alerts' \in [Personas -> Seq(Alert)]
  BY <1>1, <1>8, <1>9
<1>11. QED
  BY <1>1, <1>6, <1>7, <1>9, <1>10 DEF Maybe

(* A cycle over a row whose last event is long ago resets it.              *)
LEMMA CycleResets ==
  ASSUME TypeOK, NEW k \in Personas, Cycle(k), profile[k] # NULL,
         profile[k].lastEvent = LongAgo
  PROVE  profile'[k].score = 0 /\ profile'[k].status = "normal"
<1>1. MustReset(profile[k], Now)
  BY HarnessAssumption, CommonAssumption
  DEF MustReset, IsInactivityResetNeeded, LongAgo, Now
<1>2. CycleOutcome(profile[k], Now, Prompts(k)) = ResetOutcome(Now)
  BY <1>1 DEF CycleOutcome, Evaluate
<1>3. Rounded(0) = 0
  <2>1. 0 \in 0 .. Cap
    BY ScoringAssumption
  <2>2. Rounded(0) \in Stored /\ Nearest(Rounded(0), 0)
    BY <2>1, RoundedIsNearest
  <2>3. Rounded(0) \in 0 .. Cap /\ 0 \in Stored
    BY <2>2, ScoringAssumption
  <2>4. Distance(Rounded(0), 0) <= Distance(0, 0)
    BY <2>2, <2>3 DEF Nearest
  <2>5. QED
    BY <2>3, <2>4, ScoringAssumption DEF Distance
<1>4. profile'[k] = CycleProfile(profile[k], Now, LatestEvent(k), Prompts(k),
                                 Len(sessions[k]), Len(rows[k]))
  BY DEF Cycle, TypeOK
<1>5. QED
  BY <1>2, <1>3, <1>4 DEF CycleProfile, UpsertRiskProfile, ResetOutcome

-----------------------------------------------------------------------------
LEMMA StoredSessions ==
  ASSUME NEW ses \in Seq(SessionRow), NEW s
  PROVE  WithEvent(ses, s, Now) \in Seq(SessionRow)
<1>1. Now \in Time
  BY NowIsTime
<1>2. CASE s \in DOMAIN ses
  <2>1. PICK old : old = ses[s]
    OBVIOUS
  <2>2. old \in SessionRow /\ old.interactionCount \in Nat /\ old.startedAt \in Time
    <3>1. old \in SessionRow
      BY <1>2, <2>1
    <3>2. QED
      BY <3>1 DEF SessionRow
  <2>3. PICK n \in Nat : n = old.interactionCount + 1
    BY <2>2
  <2>4. PICK row : row = [ses[s] EXCEPT !.lastEventAt = Now, !.interactionCount = @ + 1]
    OBVIOUS
  <2>5. row \in SessionRow
    <3>1. row = [old EXCEPT !.lastEventAt = Now, !.interactionCount = n]
      BY <2>1, <2>2, <2>3, <2>4 DEF SessionRow
    <3>2. QED
      BY <1>1, <2>2, <3>1 DEF SessionRow
  <2>6. WithEvent(ses, s, Now) = [ses EXCEPT ![s] = row]
    <3>1. s \in 1 .. Len(ses) /\ ses[s] \in SessionRow
      BY <1>2
    <3>2. QED
      BY <1>2, <2>4, <3>1 DEF WithEvent, SessionRow
  <2>7. QED
    BY <1>2, <2>5, <2>6
<1>3. CASE s \notin DOMAIN ses
  <2>1. PICK row : row = [startedAt |-> Now, lastEventAt |-> Now, interactionCount |-> 1]
    OBVIOUS
  <2>2. row \in SessionRow
    BY <1>1, <2>1 DEF SessionRow
  <2>3. WithEvent(ses, s, Now) = Append(ses, row)
    BY <1>3, <2>1 DEF WithEvent
  <2>4. QED
    BY <2>2, <2>3
<1>4. QED
  BY <1>2, <1>3

LEMMA ServerSessionType ==
  ASSUME TypeOK
  PROVE  ServerSession \in Nat
<1>1. sessions[persona] \in Seq(SessionRow) /\ sessionId \in Nat
  BY DEF TypeOK
<1>2. Len(sessions[persona]) \in Nat
  BY <1>1
<1>3. QED
  BY <1>1, <1>2 DEF ServerSession, ResolveOrCreateSession

LEMMA StoreTypes ==
  ASSUME TypeOK, StorePrompt(ServerSession)
  PROVE  /\ sessions' \in [Personas -> Seq(SessionRow)]
         /\ rows' \in [Personas -> Seq(Row)]
         /\ \A k \in Personas \ {persona} : rows'[k] = rows[k]
<1>1. PICK s \in Nat : s = ServerSession
  BY ServerSessionType
<1>2. /\ persona \in Personas /\ sessions \in [Personas -> Seq(SessionRow)]
      /\ rows \in [Personas -> Seq(Row)]
      /\ burst \in DOMAIN Plans[persona] /\ next \in DOMAIN Plans[persona][burst]
  BY DEF TypeOK, Row
<1>3. /\ sessions' = [sessions EXCEPT ![persona] = WithEvent(@, s, Now)]
      /\ rows' = [rows EXCEPT ![persona] =
           Append(@, [prompt |-> Plans[persona][burst][next], session |-> s])]
  BY <1>1 DEF StorePrompt
<1>4. WithEvent(sessions[persona], s, Now) \in Seq(SessionRow)
  BY <1>2, StoredSessions
<1>5. [prompt |-> Plans[persona][burst][next], session |-> s] \in Row
  BY <1>2, PlanTypes DEF Row
<1>6. Append(rows[persona], [prompt |-> Plans[persona][burst][next], session |-> s])
        \in Seq(Row)
  BY <1>2, <1>5
<1>7. QED
  BY <1>2, <1>3, <1>4, <1>6

LEMMA MoveOnTypes ==
  ASSUME TypeOK, pc = "sending", NEW s \in Nat, MoveOn(s)
  PROVE  /\ pc' \in {"sending", "recompute"} /\ persona' = persona /\ sessionId' \in Nat
         /\ burst' \in DOMAIN Plans[persona] /\ next' \in DOMAIN Plans[persona][burst']
         /\ AtStart'
<1>1. persona \in Personas /\ burst \in DOMAIN Plans[persona]
      /\ next \in DOMAIN Plans[persona][burst]
  BY DEF TypeOK
<1>2. PICK plan : plan = Plans[persona]
  OBVIOUS
<1>3. /\ 1 \in DOMAIN plan /\ Len(plan) \in Nat /\ DOMAIN plan = 1 .. Len(plan)
      /\ \A b \in DOMAIN plan : /\ 1 \in DOMAIN plan[b] /\ Len(plan[b]) \in Nat
                                /\ DOMAIN plan[b] = 1 .. Len(plan[b])
  BY <1>1, <1>2, PlanTypes
<1>4. CASE next < Len(plan[burst])
  <2>1. /\ next' = next + 1 /\ sessionId' = s /\ UNCHANGED <<burst, pc, persona>>
    BY <1>2, <1>4 DEF MoveOn
  <2>2. next + 1 \in 1 .. Len(plan[burst])
    BY <1>1, <1>2, <1>3, <1>4
  <2>3. QED
    BY <1>1, <1>2, <1>3, <2>1, <2>2 DEF AtStart
<1>5. CASE ~(next < Len(plan[burst]))
  <2>1. /\ next' = 1 /\ sessionId' = 0 /\ persona' = persona
        /\ IF burst < Len(plan) THEN burst' = burst + 1 /\ pc' = pc
                                ELSE burst' = 1 /\ pc' = "recompute"
    BY <1>2, <1>5 DEF MoveOn
  <2>2. burst < Len(plan) => burst + 1 \in DOMAIN plan
    BY <1>1, <1>2, <1>3
  <2>3. burst' \in DOMAIN plan /\ next' \in DOMAIN plan[burst']
    BY <1>3, <2>1, <2>2
  <2>4. QED
    BY <1>2, <2>1, <2>3 DEF AtStart
<1>6. QED
  BY <1>4, <1>5

-----------------------------------------------------------------------------
(* What is said of the personas that are through, and of the reset test,   *)
(* while neither their rows nor their profiles are written.                *)
LEMMA ProfilesStay ==
  ASSUME HInv, UNCHANGED profile,
         \A k \in Personas : Through(k)' => Through(k) /\ rows'[k] = rows[k],
         failed \subseteq failed'
  PROVE  ThroughMeansCovered'
BY DEF HInv, ThroughMeansCovered, Covered

LEMMA BeforeTheTest ==
  ASSUME HInv, pc' \in {"polling", "sending", "recompute", "risk", "dominant", "alert",
                        "backdate"},
         <<1, "reset">> \notin failed'
  PROVE  ResetTest'
BY DEF ResetTest

LEMMA SendStep ==
  ASSUME HInv, SendAccepted \/ SendRefused \/ SendFailed
  PROVE  HInv'
<1>1. TypeOK /\ pc = "sending" /\ <<1, "reset">> \notin failed
  BY DEF HInv, SendAccepted, SendRefused, SendFailed, ResetTest
<1>2. PICK s \in Nat : MoveOn(s)
  <2>1. ServerSession \in Nat /\ sessionId \in Nat
    BY <1>1, ServerSessionType DEF TypeOK
  <2>2. QED
    BY <2>1 DEF SendAccepted, SendRefused, SendFailed
<1>3. /\ pc' \in {"sending", "recompute"} /\ persona' = persona /\ sessionId' \in Nat
      /\ burst' \in DOMAIN Plans[persona] /\ next' \in DOMAIN Plans[persona][burst']
      /\ AtStart'
  BY <1>1, <1>2, MoveOnTypes
<1>4. UNCHANGED <<profile, alerts, failed, polls, raced>>
  BY DEF SendAccepted, SendRefused, SendFailed, scored
<1>5. /\ sessions' \in [Personas -> Seq(SessionRow)]
      /\ rows' \in [Personas -> Seq(Row)]
      /\ \A k \in Personas \ {persona} : rows'[k] = rows[k]
  <2>1. CASE SendRefused
    BY <1>1, <2>1 DEF SendRefused, store, TypeOK, Row
  <2>2. CASE SendAccepted \/ SendFailed
    BY <1>1, <2>2, StoreTypes DEF SendAccepted, SendFailed
  <2>3. QED
    BY <2>1, <2>2
<1>6. queue' \in [Personas -> Nat]
  BY <1>1 DEF SendAccepted, SendRefused, SendFailed, ScheduleDetection, store, TypeOK
<1>7. errors' \in Nat /\ faults' \in 0 .. MaxFaults
  <2>1. errors \in Nat /\ faults \in 0 .. MaxFaults
    BY <1>1 DEF TypeOK
  <2>2. CASE SendAccepted
    BY <2>1, <2>2 DEF SendAccepted
  <2>3. CASE SendRefused \/ SendFailed
    <3>1. errors' = errors + 1 /\ faults < MaxFaults /\ faults' = faults + 1
      BY <2>3 DEF SendRefused, SendFailed, CountError, Fault
    <3>2. QED
      BY <2>1, <3>1, HarnessAssumption
  <2>4. QED
    BY <2>2, <2>3
<1>8. TypeOK'
  BY <1>1, <1>3, <1>4, <1>5, <1>6, <1>7 DEF TypeOK, Row, Stages
<1>9. \A k \in Personas : Through(k)' => Through(k) /\ rows'[k] = rows[k]
  <2>1. persona \in Int
    BY <1>1, PlanTypes DEF TypeOK
  <2>2. QED
    BY <1>1, <1>3, <1>5, <2>1 DEF Through, Sending, Verifying
<1>10. ThroughMeansCovered' /\ ResetTest'
  BY <1>1, <1>3, <1>4, <1>9, ProfilesStay, BeforeTheTest
<1>11. QED
  BY <1>3, <1>8, <1>10 DEF HInv

-----------------------------------------------------------------------------
(* Background cycles.                                                      *)
LEMMA BackgroundStep ==
  ASSUME HInv, NEW k \in Personas, BackgroundCycle(k)
  PROVE  HInv'
<1>1. /\ TypeOK /\ queue[k] > 0 /\ queue' = [queue EXCEPT ![k] = @ - 1] /\ Cycle(k)
      /\ UNCHANGED <<sessions, rows, pc, position, failed, polls, faults, raced>>
  BY DEF HInv, BackgroundCycle
<1>2. /\ profile' \in [Personas -> Maybe(Profile)] /\ alerts' \in [Personas -> Seq(Alert)]
      /\ profile'[k] \in Profile /\ profile'[k].interactions = Len(rows[k])
      /\ \A j \in Personas \ {k} : profile'[j] = profile[j]
  BY <1>1, CycleTypes
<1>3. profile'[k] # NULL
  BY <1>2, ProfileAssumption
<1>4. queue' \in [Personas -> Nat] /\ \A j \in Personas \ {k} : queue'[j] = queue[j]
  <2>1. queue \in [Personas -> Nat]
    BY <1>1 DEF TypeOK
  <2>2. queue[k] - 1 \in Nat
    BY <1>1, <2>1
  <2>3. QED
    BY <1>1, <2>1, <2>2
<1>5. TypeOK' /\ AtStart'
  BY <1>1, <1>2, <1>4 DEF TypeOK, position, HInv, AtStart
<1>6. ThroughMeansCovered'
  BY <1>1, <1>2, <1>3 DEF HInv, ThroughMeansCovered, Through, Covered, position
<1>7. ResetTest'
  <2>1. CASE k = 1
    <3>1. ~(pc \in {"reset", "reset_answer"} /\ ~raced)
      BY <1>1, <2>1 DEF HInv, ResetTest
    <3>2. QED
      BY <1>1, <1>3, <2>1, <3>1 DEF HInv, ResetTest
  <2>2. CASE k # 1
    <3>1. profile'[1] = profile[1] /\ queue'[1] = queue[1]
      BY <1>2, <1>4, <2>2, PlanTypes
    <3>2. QED
      BY <1>1, <3>1 DEF HInv, ResetTest, Score
  <2>3. QED
    BY <2>1, <2>2
<1>8. QED
  BY <1>5, <1>6, <1>7 DEF HInv

LEMMA FailBackgroundStep ==
  ASSUME HInv, NEW k \in Personas, FailBackgroundCycle(k)
  PROVE  HInv'
<1>1. /\ TypeOK /\ queue[k] > 0 /\ queue' = [queue EXCEPT ![k] = @ - 1]
      /\ faults < MaxFaults /\ faults' = faults + 1
      /\ UNCHANGED <<sessions, rows, profile, alerts, pc, position, failed, polls, raced>>
  BY DEF HInv, FailBackgroundCycle, Fault, scored
<1>2. queue \in [Personas -> Nat] /\ faults \in 0 .. MaxFaults
  BY <1>1 DEF TypeOK
<1>3. queue[k] - 1 \in Nat /\ faults' \in 0 .. MaxFaults
  BY <1>1, <1>2, HarnessAssumption
<1>4. queue' \in [Personas -> Nat] /\ (k # 1 => queue'[1] = queue[1])
  BY <1>1, <1>2, <1>3, PlanTypes
<1>5. TypeOK' /\ AtStart'
  BY <1>1, <1>3, <1>4 DEF TypeOK, position, HInv, AtStart
<1>6. ThroughMeansCovered'
  BY <1>1 DEF HInv, ThroughMeansCovered, Through, Covered, position
<1>7. k = 1 => ~(pc \in {"reset", "reset_answer"} /\ ~raced)
  BY <1>1 DEF HInv, ResetTest
<1>8. ResetTest'
  BY <1>1, <1>4, <1>7 DEF HInv, ResetTest, Score
<1>9. QED
  BY <1>5, <1>6, <1>8 DEF HInv

-----------------------------------------------------------------------------
(* The recomputes.                                                         *)
LEMMA NextPersonaTypes ==
  ASSUME HInv, pc = "recompute", NextPersona
  PROVE  /\ pc' \in {"sending", "risk"} /\ persona' \in Personas
         /\ burst' \in DOMAIN Plans[persona'] /\ next' \in DOMAIN Plans[persona'][burst']
         /\ burst' = 1 /\ next' = 1 /\ sessionId' \in Nat /\ errors' = 0
         /\ \A k \in Personas : Through(k)' => Through(k) \/ k = persona
<1>1. persona \in Personas /\ sessionId \in Nat /\ burst = 1 /\ next = 1
  BY DEF HInv, TypeOK, AtStart
<1>2. /\ errors' = 0 /\ burst' = 1 /\ next' = 1 /\ sessionId' = sessionId
      /\ IF persona < Len(Plans) THEN persona' = persona + 1 /\ pc' = "sending"
                                 ELSE persona' = 1 /\ pc' = "risk"
  BY <1>1 DEF NextPersona
<1>3. persona' \in Personas /\ persona \in 1 .. Len(Plans) /\ Len(Plans) \in Nat
  BY <1>1, <1>2, PlanTypes
<1>4. burst' \in DOMAIN Plans[persona'] /\ next' \in DOMAIN Plans[persona'][burst']
  BY <1>2, <1>3, PlanTypes
<1>5. ASSUME NEW k \in Personas, Through(k)'
      PROVE  Through(k) \/ k = persona
  <2>1. k \in 1 .. Len(Plans)
    BY PlanTypes
  <2>2. CASE persona < Len(Plans)
    BY <1>2, <1>3, <1>5, <2>1, <2>2 DEF Through, Sending, Verifying
  <2>3. CASE ~(persona < Len(Plans))
    BY <1>3, <2>1, <2>3 DEF Through, Sending
  <2>4. QED
    BY <2>2, <2>3
<1>6. QED
  BY <1>1, <1>2, <1>3, <1>4, <1>5

(* Results without a verdict of the reset test.                            *)
Untested(results) == results \subseteq Personas \X Criteria /\ <<1, "reset">> \notin results

LEMMA StillUntested ==
  ASSUME NEW results, Untested(results), NEW k \in Personas,
         NEW criterion \in Criteria \ {"reset"}
  PROVE  Untested(results \cup {<<k, criterion>>})
<1>1. <<k, criterion>> \in Personas \X Criteria /\ <<k, criterion>> # <<1, "reset">>
  OBVIOUS
<1>2. QED
  BY <1>1 DEF Untested

LEMMA RecomputeStep ==
  ASSUME HInv, Recompute
  PROVE  HInv'
<1>1. /\ TypeOK /\ pc = "recompute" /\ Cycle(persona) /\ NextPersona
      /\ failed' \in {failed, failed \cup {<<persona, "all requests accepted">>}}
      /\ UNCHANGED <<sessions, rows, queue, polls, faults, raced>>
  BY DEF HInv, Recompute, Check, store
<1>2. persona \in Personas /\ failed \subseteq Personas \X Criteria
  BY <1>1 DEF TypeOK
<1>3. /\ profile' \in [Personas -> Maybe(Profile)] /\ alerts' \in [Personas -> Seq(Alert)]
      /\ profile'[persona] \in Profile /\ profile'[persona].interactions = Len(rows[persona])
      /\ \A j \in Personas \ {persona} : profile'[j] = profile[j]
  BY <1>1, <1>2, CycleTypes
<1>4. profile'[persona] # NULL
  BY <1>3, ProfileAssumption
<1>5. /\ pc' \in {"sending", "risk"} /\ persona' \in Personas
      /\ burst' \in DOMAIN Plans[persona'] /\ next' \in DOMAIN Plans[persona'][burst']
      /\ burst' = 1 /\ next' = 1 /\ sessionId' \in Nat /\ errors' = 0
      /\ \A k \in Personas : Through(k)' => Through(k) \/ k = persona
  BY <1>1, NextPersonaTypes
<1>6. failed' \subseteq Personas \X Criteria /\ failed \subseteq failed'
      /\ <<1, "reset">> \notin failed'
  <2>1. Untested(failed)
    BY <1>1, <1>2 DEF HInv, ResetTest, Untested
  <2>2. "all requests accepted" \in Criteria \ {"reset"}
    BY DEF Criteria
  <2>3. Untested(failed \cup {<<persona, "all requests accepted">>})
    BY <1>2, <2>1, <2>2, StillUntested
  <2>4. Untested(failed')
    BY <1>1, <2>1, <2>3
  <2>5. QED
    BY <1>1, <2>4 DEF Untested
<1>7. TypeOK' /\ AtStart'
  BY <1>1, <1>3, <1>5, <1>6 DEF TypeOK, AtStart, Stages
<1>8. ThroughMeansCovered'
  BY <1>1, <1>3, <1>4, <1>5, <1>6 DEF HInv, ThroughMeansCovered, Covered
<1>9. QED
  BY <1>5, <1>6, <1>7, <1>8, BeforeTheTest DEF HInv

LEMMA RecomputeRefusedStep ==
  ASSUME HInv, RecomputeRefused
  PROVE  HInv'
<1>1. /\ TypeOK /\ pc = "recompute" /\ NextPersona
      /\ faults < MaxFaults /\ faults' = faults + 1
      /\ failed' = failed \cup {<<persona, "admin recompute">>}
           \cup IF errors > 0 THEN {<<persona, "all requests accepted">>} ELSE {}
      /\ UNCHANGED <<sessions, rows, queue, profile, alerts, polls, raced>>
  BY DEF HInv, RecomputeRefused, Fault, store, scored
<1>2. /\ persona \in Personas /\ failed \subseteq Personas \X Criteria
      /\ faults \in 0 .. MaxFaults
  BY <1>1 DEF TypeOK
<1>3. /\ pc' \in {"sending", "risk"} /\ persona' \in Personas
      /\ burst' \in DOMAIN Plans[persona'] /\ next' \in DOMAIN Plans[persona'][burst']
      /\ burst' = 1 /\ next' = 1 /\ sessionId' \in Nat /\ errors' = 0
      /\ \A k \in Personas : Through(k)' => Through(k) \/ k = persona
  BY <1>1, NextPersonaTypes
<1>4. /\ failed' \subseteq Personas \X Criteria /\ failed \subseteq failed'
      /\ <<persona, "admin recompute">> \in failed' /\ <<1, "reset">> \notin failed'
  <2>1. Untested(failed)
    BY <1>1, <1>2 DEF HInv, ResetTest, Untested
  <2>2. "all requests accepted" \in Criteria \ {"reset"}
        /\ "admin recompute" \in Criteria \ {"reset"}
    BY DEF Criteria
  <2>3. PICK more : more = failed \cup {<<persona, "admin recompute">>}
    OBVIOUS
  <2>4. Untested(more)
    BY <1>2, <2>1, <2>2, <2>3, StillUntested
  <2>5. Untested(more \cup {<<persona, "all requests accepted">>})
    BY <1>2, <2>2, <2>4, StillUntested
  <2>6. /\ failed' = more \/ failed' = more \cup {<<persona, "all requests accepted">>}
        /\ more \subseteq failed'
    BY <1>1, <2>3
  <2>7. Untested(failed')
    BY <2>4, <2>5, <2>6
  <2>8. QED
    BY <2>3, <2>6, <2>7 DEF Untested
<1>5. faults' \in 0 .. MaxFaults
  <2>1. faults < MaxFaults /\ faults' = faults + 1
    BY <1>1
  <2>2. QED
    BY <1>2, <2>1, HarnessAssumption
<1>6. TypeOK' /\ AtStart'
  BY <1>1, <1>3, <1>4, <1>5 DEF TypeOK, AtStart, Stages
<1>7. ThroughMeansCovered'
  BY <1>1, <1>3, <1>4 DEF HInv, ThroughMeansCovered, Covered
<1>8. QED
  BY <1>3, <1>4, <1>6, <1>7, BeforeTheTest DEF HInv

-----------------------------------------------------------------------------
(* The steps that only fetch, or end the run.                              *)
LEMMA PollStep ==
  ASSUME HInv, Poll
  PROVE  HInv'
<1>1. /\ TypeOK /\ pc = "polling" /\ pc' \in {"polling", "sending", "not_ready"}
      /\ polls' = polls \/ (polls < MaxPolls /\ polls' = polls + 1)
      /\ UNCHANGED <<sessions, rows, queue, profile, alerts, position, failed, faults, raced>>
  BY DEF HInv, Poll, store, scored
<1>2. persona = 1 /\ burst = 1 /\ next = 1
  BY <1>1 DEF HInv, AtStart
<1>3. polls' \in 0 .. MaxPolls
  <2>1. polls \in 0 .. MaxPolls
    BY <1>1 DEF TypeOK
  <2>2. polls' = polls \/ (polls < MaxPolls /\ polls' = polls + 1)
    BY <1>1
  <2>3. QED
    BY <2>1, <2>2, HarnessAssumption
<1>4. TypeOK' /\ AtStart'
  BY <1>1, <1>2, <1>3 DEF TypeOK, AtStart, Stages, position
<1>5. ASSUME NEW k \in Personas
      PROVE  ~Through(k)'
  <2>1. ~(k < 1)
    BY PlanTypes
  <2>2. QED
    BY <1>1, <1>2, <2>1 DEF Through, Sending, Verifying, position
<1>6. ThroughMeansCovered' /\ ResetTest'
  BY <1>1, <1>5 DEF ThroughMeansCovered, ResetTest, HInv
<1>7. QED
  BY <1>4, <1>6 DEF HInv

LEMMA AbortStep ==
  ASSUME HInv, AbortRun
  PROVE  HInv'
<1>1. /\ TypeOK /\ pc \notin {"done"} /\ pc' = "aborted"
      /\ faults < MaxFaults /\ faults' = faults + 1
      /\ UNCHANGED <<sessions, rows, queue, profile, alerts, position, failed, polls, raced>>
  BY DEF HInv, AbortRun, Fault, store, scored
<1>2. faults' \in 0 .. MaxFaults
  <2>1. faults \in 0 .. MaxFaults
    BY <1>1 DEF TypeOK
  <2>2. faults < MaxFaults /\ faults' = faults + 1
    BY <1>1
  <2>3. QED
    BY <2>1, <2>2, HarnessAssumption
<1>3. TypeOK' /\ AtStart'
  BY <1>1, <1>2 DEF TypeOK, AtStart, Stages, position
<1>4. ThroughMeansCovered' /\ ResetTest'
  BY <1>1 DEF ThroughMeansCovered, ResetTest, HInv, Through, Sending, Verifying
<1>5. QED
  BY <1>3, <1>4 DEF HInv

(* A fetch writes a row of the results table other than the reset's.       *)
LEMMA FetchStep ==
  ASSUME HInv, FetchRisk \/ FetchDominant \/ FetchTotal
  PROVE  HInv'
<1>1. /\ TypeOK /\ pc \in {"risk", "dominant", "alert"}
      /\ UNCHANGED <<sessions, rows, queue, profile, alerts, burst, next, sessionId,
                     errors, polls, faults, raced>>
  BY DEF HInv, FetchRisk, FetchDominant, FetchTotal, NextVerdict, store, scored, position
<1>2. persona \in Personas /\ failed \subseteq Personas \X Criteria
      /\ burst = 1 /\ next = 1
  BY <1>1 DEF TypeOK, HInv, AtStart
<1>3. PICK criterion \in Criteria \ {"reset"} :
        failed' \in {failed, failed \cup {<<persona, criterion>>}}
  <2>1. {"risk_score", "dominant_pattern", "alert raised", "no alert"}
          \subseteq Criteria \ {"reset"}
    BY DEF Criteria
  <2>2. \E criterion \in {"risk_score", "dominant_pattern", "alert raised", "no alert"} :
          failed' \in {failed, failed \cup {<<persona, criterion>>}}
    BY DEF FetchRisk, FetchDominant, FetchTotal, Check
  <2>3. QED
    BY <2>1, <2>2
<1>4. failed' \subseteq Personas \X Criteria /\ failed \subseteq failed'
      /\ <<1, "reset">> \notin failed'
  <2>1. Untested(failed)
    BY <1>1, <1>2 DEF HInv, ResetTest, Untested
  <2>2. Untested(failed \cup {<<persona, criterion>>})
    BY <1>2, <1>3, <2>1, StillUntested
  <2>3. Untested(failed')
    BY <1>3, <2>1, <2>2
  <2>4. QED
    BY <1>3, <2>3 DEF Untested
<1>5. persona' \in Personas /\ pc' \in {"risk", "dominant", "alert", "backdate"}
  <2>1. CASE FetchRisk \/ FetchDominant
    BY <1>2, <2>1 DEF FetchRisk, FetchDominant, position
  <2>2. CASE FetchTotal
    <3>1. IF persona < Len(Plans) THEN persona' = persona + 1 /\ pc' = "risk"
                                  ELSE persona' = 1 /\ pc' = "backdate"
      BY <2>2 DEF FetchTotal, NextVerdict
    <3>2. QED
      BY <1>2, <3>1, PlanTypes
  <2>3. QED
    BY <2>1, <2>2
<1>6. burst' \in DOMAIN Plans[persona'] /\ next' \in DOMAIN Plans[persona'][burst']
  BY <1>1, <1>2, <1>5, PlanTypes
<1>7. TypeOK' /\ AtStart'
  BY <1>1, <1>2, <1>4, <1>5, <1>6 DEF TypeOK, AtStart, Stages
<1>8. \A k \in Personas : Through(k)' => Through(k) /\ rows'[k] = rows[k]
  BY <1>1 DEF Through, Verifying
<1>9. ThroughMeansCovered' /\ ResetTest'
  BY <1>1, <1>4, <1>5, <1>8, ProfilesStay, BeforeTheTest
<1>10. QED
  BY <1>7, <1>9 DEF HInv

-----------------------------------------------------------------------------
(* The reset test.                                                         *)
LEMMA BackdateStep ==
  ASSUME HInv, Backdate
  PROVE  HInv'
<1>1. /\ TypeOK /\ pc = "backdate" /\ pc' = "reset" /\ raced' = (queue[1] > 0)
      /\ profile' = [profile EXCEPT ![1] = SetUserLastEventAt(@, LongAgo)]
      /\ UNCHANGED <<sessions, rows, queue, alerts, position, failed, polls, faults>>
  BY DEF HInv, Backdate, store
<1>2. profile \in [Personas -> Maybe(Profile)] /\ queue \in [Personas -> Nat]
      /\ 1 \in Personas
  BY <1>1, PlanTypes DEF TypeOK
<1>3. PICK row : row = SetUserLastEventAt(profile[1], LongAgo)
  OBVIOUS
<1>4. row \in Profile /\ row # NULL
  BY <1>2, <1>3, NowIsTime, BackdateProfileType, ProfileAssumption
<1>5. /\ row.lastEvent = LongAgo
      /\ profile[1] # NULL => row.interactions = profile[1].interactions
  <2>1. CASE profile[1] = NULL
    BY <1>3, <2>1 DEF SetUserLastEventAt
  <2>2. CASE profile[1] # NULL
    <3>1. profile[1] \in Profile
      BY <1>2, <2>2 DEF Maybe
    <3>2. QED
      BY <1>3, <2>2, <3>1 DEF SetUserLastEventAt, Profile
  <2>3. QED
    BY <2>1, <2>2
<1>6. profile' = [profile EXCEPT ![1] = row]
  BY <1>1, <1>3
<1>7. /\ profile' \in [Personas -> Maybe(Profile)] /\ profile'[1] = row
      /\ \A k \in Personas \ {1} : profile'[k] = profile[k]
  BY <1>2, <1>4, <1>6 DEF Maybe
<1>8. TypeOK' /\ AtStart'
  <2>1. raced' \in BOOLEAN
    BY <1>1
  <2>2. /\ profile' \in [Personas -> Maybe(Profile)] /\ pc' = "reset"
        /\ UNCHANGED <<sessions, rows, queue, alerts, position, failed, polls, faults>>
    BY <1>1, <1>7
  <2>3. TypeOK /\ AtStart /\ pc = "backdate"
    BY <1>1 DEF HInv
  <2>4. QED
    BY <2>1, <2>2, <2>3 DEF TypeOK, AtStart, Stages, position
<1>9. ASSUME NEW k \in Personas
      PROVE  Covered(k)'
  <2>1. Covered(k)
    BY <1>1 DEF HInv, ThroughMeansCovered, Through, Verifying
  <2>2. CASE k = 1
    BY <1>1, <1>4, <1>5, <1>7, <2>1, <2>2 DEF Covered
  <2>3. CASE k # 1
    BY <1>1, <1>7, <2>1, <2>3 DEF Covered
  <2>4. QED
    BY <2>2, <2>3
<1>10. ThroughMeansCovered'
  BY <1>9 DEF ThroughMeansCovered
<1>11. ResetTest'
  <2>1. <<1, "reset">> \notin failed'
    BY <1>1 DEF HInv, ResetTest
  <2>2. ~raced' => queue'[1] = 0
    <3>1. queue[1] \in Nat /\ (raced' = (queue[1] > 0)) /\ queue' = queue
      BY <1>1, <1>2
    <3>2. CASE queue[1] > 0
      BY <3>1, <3>2
    <3>3. CASE ~(queue[1] > 0)
      <4>1. queue[1] = 0
        BY <3>1, <3>3
      <4>2. QED
        BY <3>1, <4>1
    <3>4. QED
      BY <3>2, <3>3
  <2>3. QED
    BY <1>1, <1>4, <1>5, <1>7, <2>1, <2>2 DEF ResetTest
<1>12. QED
  BY <1>8, <1>10, <1>11 DEF HInv

LEMMA ResetRecomputeStep ==
  ASSUME HInv, ResetRecompute
  PROVE  HInv'
<1>1. /\ TypeOK /\ pc = "reset" /\ pc' = "reset_answer" /\ Cycle(1) /\ 1 \in Personas
      /\ UNCHANGED <<sessions, rows, queue, position, failed, polls, faults, raced>>
  BY PlanTypes DEF HInv, ResetRecompute, store
<1>2. /\ profile' \in [Personas -> Maybe(Profile)] /\ alerts' \in [Personas -> Seq(Alert)]
      /\ profile'[1] \in Profile /\ profile'[1].interactions = Len(rows[1])
      /\ \A j \in Personas \ {1} : profile'[j] = profile[j]
  BY <1>1, CycleTypes
<1>3. profile'[1] # NULL
  BY <1>2, ProfileAssumption
<1>4. TypeOK' /\ AtStart'
  BY <1>1, <1>2 DEF TypeOK, AtStart, HInv, Stages, position
<1>5. ThroughMeansCovered'
  BY <1>1, <1>2, <1>3 DEF HInv, ThroughMeansCovered, Through, Verifying, Covered
<1>6. ~raced => profile'[1].score = 0 /\ profile'[1].status = "normal"
  <2>1. profile[1] # NULL /\ (~raced => profile[1].lastEvent = LongAgo)
    BY <1>1 DEF HInv, ResetTest
  <2>2. QED
    BY <1>1, <2>1, CycleResets
<1>7. ResetTest'
  <2>1. <<1, "reset">> \notin failed' /\ (~raced' => queue'[1] = 0)
    BY <1>1 DEF HInv, ResetTest
  <2>2. ~raced' => Score(1)' = 0 /\ profile'[1].status = "normal"
    BY <1>1, <1>3, <1>6 DEF Score
  <2>3. QED
    BY <1>1, <2>1, <2>2 DEF ResetTest
<1>8. QED
  BY <1>4, <1>5, <1>7 DEF HInv

LEMMA ResetAnswerStep ==
  ASSUME HInv, ResetAnswer
  PROVE  HInv'
<1>1. /\ TypeOK /\ pc = "reset_answer" /\ pc' = "done"
      /\ Check("reset", Score(1) = 0 /\ profile[1].status = "normal")
      /\ UNCHANGED <<sessions, rows, queue, profile, alerts, position, polls, faults, raced>>
  BY DEF HInv, ResetAnswer, store, scored
<1>2. /\ failed' \in {failed, failed \cup {<<persona, "reset">>}} /\ failed \subseteq failed'
      /\ ~raced => failed' = failed
  BY <1>1 DEF Check, HInv, ResetTest
<1>3. failed' \subseteq Personas \X Criteria
  <2>1. persona \in Personas /\ failed \subseteq Personas \X Criteria
    BY <1>1 DEF TypeOK
  <2>2. <<persona, "reset">> \in Personas \X Criteria
    BY <2>1 DEF Criteria
  <2>3. QED
    BY <1>2, <2>1, <2>2
<1>4. TypeOK' /\ AtStart'
  BY <1>1, <1>3 DEF TypeOK, AtStart, HInv, Stages, position
<1>5. \A k \in Personas : Through(k)' => Through(k) /\ rows'[k] = rows[k]
  BY <1>1 DEF Through, Verifying
<1>6. ThroughMeansCovered'
  BY <1>1, <1>2, <1>5, ProfilesStay
<1>7. ResetTest'
  <2>1. <<1, "reset">> \notin failed
    BY <1>1 DEF HInv, ResetTest
  <2>2. <<1, "reset">> \in failed' => raced
    BY <1>2, <2>1
  <2>3. QED
    BY <1>1, <2>2 DEF ResetTest
<1>8. QED
  BY <1>4, <1>6, <1>7 DEF HInv

-----------------------------------------------------------------------------
LEMMA StutterStep == HInv /\ UNCHANGED vars => HInv'
<1> SUFFICES ASSUME HInv, UNCHANGED vars PROVE HInv'
  OBVIOUS
<1>1. UNCHANGED <<sessions, rows, queue, profile, alerts, pc, persona, burst, next,
                  sessionId, errors, failed, polls, faults, raced>>
  BY DEF vars, store, scored, position
<1>2. TypeOK' /\ AtStart'
  BY <1>1 DEF HInv, TypeOK, AtStart
<1>3. ThroughMeansCovered'
  BY <1>1 DEF HInv, ThroughMeansCovered, Through, Covered
<1>4. ResetTest'
  BY <1>1 DEF HInv, ResetTest, Score
<1>5. QED
  BY <1>2, <1>3, <1>4 DEF HInv

LEMMA NextStep == HInv /\ [Next]_vars => HInv'
<1> SUFFICES ASSUME HInv, [Next]_vars PROVE HInv'
  OBVIOUS
<1>1. CASE Poll
  BY <1>1, PollStep
<1>2. CASE SendAccepted \/ SendRefused \/ SendFailed
  BY <1>2, SendStep
<1>3. CASE Recompute \/ RecomputeRefused
  BY <1>3, RecomputeStep, RecomputeRefusedStep
<1>4. CASE FetchRisk \/ FetchDominant \/ FetchTotal
  BY <1>4, FetchStep
<1>5. CASE Backdate \/ ResetRecompute \/ ResetAnswer
  BY <1>5, BackdateStep, ResetRecomputeStep, ResetAnswerStep
<1>6. CASE AbortRun
  BY <1>6, AbortStep
<1>7. CASE \E k \in Personas : BackgroundCycle(k) \/ FailBackgroundCycle(k)
  BY <1>7, BackgroundStep, FailBackgroundStep
<1>8. CASE UNCHANGED vars
  BY <1>8, StutterStep
<1>9. QED
  BY <1>1, <1>2, <1>3, <1>4, <1>5, <1>6, <1>7, <1>8 DEF Next, Step, Failure

LEMMA AlwaysHInv == Spec => []HInv
<1>1. Init => HInv
  BY InitInv
<1>2. HInv /\ [Next]_vars => HInv'
  BY NextStep
<1>3. QED
  BY <1>1, <1>2, PTL DEF Spec

(* Types: the harness is always at a prompt of its plans.                  *)
THEOREM HarnessTypes == Spec => []TypeOK
<1>1. HInv => TypeOK
  BY DEF HInv
<1>2. QED
  BY <1>1, AlwaysHInv, PTL

(* The risk a verdict looks at covers all of the persona's traffic, in     *)
(* whatever order background cycles come, and whichever of them are lost.  *)
THEOREM VerdictsCover == Spec => []VerdictsCoverTheTraffic
<1>1. HInv => VerdictsCoverTheTraffic
  BY DEF HInv, ThroughMeansCovered, Through, Verifying, Covered, VerdictsCoverTheTraffic
<1>2. QED
  BY <1>1, AlwaysHInv, PTL

(* The reset test is only wrong when a background cycle of the same user   *)
(* was due when the test began.                                            *)
THEOREM ResetTestIsRight == Spec => []ResetTestFailsOnlyWhenRaced
<1>1. HInv => ResetTestFailsOnlyWhenRaced
  BY DEF HInv, ResetTest, ResetTestFailsOnlyWhenRaced
<1>2. QED
  BY <1>1, AlwaysHInv, PTL

-----------------------------------------------------------------------------
(* What the harness has sent, and how the service has grouped it.          *)
PastPlace(b, n) == b < burst \/ (b = burst /\ n < next)

Current(k) == k = persona /\ pc = "sending"

(* A request of persona k was not answered with 202.                       *)
Erred(k) == <<k, "all requests accepted">> \in failed \/ (k = persona /\ errors > 0)

Placed(k, i) ==
  \E b \in DOMAIN Plans[k] : \E n \in DOMAIN Plans[k][b] :
    rows[k][i].prompt = Plans[k][b][n] /\ (Current(k) => PastPlace(b, n))

(* A row alone in its session, that no event will join any more.           *)
Split(k, i) ==
  /\ AloneInSession(k, i)
  /\ Erred(k)
  /\ k = persona => rows[k][i].session # sessionId

InBurst(k, i) ==
  /\ rows[k][i].session = sessionId => BurstOf(k, rows[k][i].prompt) = burst
  /\ BurstOf(k, rows[k][i].prompt) = burst =>
       rows[k][i].session = sessionId \/ Split(k, i)

SessionsHold(k) ==
  /\ \A s \in DOMAIN sessions[k] : sessions[k][s].lastEventAt = Now
  /\ \A i \in DOMAIN rows[k] : rows[k][i].session \in DOMAIN sessions[k]

Grouped(k) ==
  /\ \A i \in DOMAIN rows[k] : Placed(k, i) /\ (Current(k) => InBurst(k, i))
  /\ \A i, j \in DOMAIN rows[k] :
       /\ SameSession(k, i, j) => SameBurst(k, i, j)
       /\ SameBurst(k, i, j) /\ i < j => SameSession(k, i, j) \/ Split(k, i)

(* Nothing is stored ahead of the harness; between bursts no session is    *)
(* open, and errors are counted per persona and come of faults.            *)
Position ==
  /\ pc = "polling" => \A k \in Personas : rows[k] = <<>>
  /\ pc \in Sending => \A k \in Personas : k > persona => rows[k] = <<>>
  /\ pc \notin {"sending", "aborted"} => sessionId = 0
  /\ pc = "sending" => sessionId = 0 \/ sessionId \in DOMAIN sessions[persona]
  /\ pc \notin {"sending", "recompute", "aborted"} => errors = 0
  /\ \A k \in Personas : Erred(k) => faults > 0

(* Without an error, what is stored is the plan as far as it was sent.     *)
Prompted(k) == [i \in DOMAIN rows[k] |-> rows[k][i].prompt]

PlanFollowed(k) ==
  ~Erred(k) =>
    /\ Through(k) \/ (k = persona /\ pc = "recompute") => Prompted(k) = FlatPlan(k)
    /\ Current(k) =>
         Prompted(k) = FlatBursts(k)[burst - 1] \o SubSeq(Plans[k][burst], 1, next - 1)

BInv ==
  /\ Position
  /\ \A k \in Personas : SessionsHold(k) /\ Grouped(k) /\ PlanFollowed(k)

-----------------------------------------------------------------------------
(* A prompt tells its burst.                                               *)
LEMMA BurstOfPlace ==
  ASSUME NEW k \in Personas, NEW b \in DOMAIN Plans[k], NEW n \in DOMAIN Plans[k][b]
  PROVE  BurstOf(k, Plans[k][b][n]) = b
<1>1. \A c \in DOMAIN Plans[k] :
        (\E i \in DOMAIN Plans[k][c] : Plans[k][c][i] = Plans[k][b][n]) => c = b
  BY PlacesAssumption
<1>2. \E i \in DOMAIN Plans[k][b] : Plans[k][b][i] = Plans[k][b][n]
  OBVIOUS
<1>3. QED
  BY <1>1, <1>2 DEF BurstOf

(* The bursts one after the other, defined by recursion.                   *)
LEMMA FlatBurstsExist ==
  ASSUME NEW k \in Personas
  PROVE  \E f : f = [b \in 0 .. Len(Plans[k]) |->
                       IF b = 0 THEN <<>> ELSE f[b - 1] \o Plans[k][b]]
<1> DEFINE Sol(f, m) == f = [b \in 0 .. m |-> IF b = 0 THEN <<>> ELSE f[b - 1] \o Plans[k][b]]
           T == {m \in Nat : ~\E f : Sol(f, m)}
<1>1. CASE T = {}
  <2>1. Len(Plans[k]) \in Nat
    BY PlanTypes
  <2>2. \E f : Sol(f, Len(Plans[k]))
    BY <1>1, <2>1
  <2>3. QED
    BY <2>2
<1>2. CASE T # {}
  <2>1. PICK m \in T : \A t \in T : m <= t
    <3> HIDE DEF T
    <3>1. T \subseteq Nat
      BY DEF T
    <3>2. QED
      BY <1>2, <3>1, LeastExists
  <2>2. \A t \in Nat : t < m => t \notin T
    <3>1. m \in Nat
      OBVIOUS
    <3> HIDE DEF T
    <3>2. QED
      BY <2>1, <3>1
  <2>3. m \in Nat /\ ~\E f : Sol(f, m)
    OBVIOUS
  <2>4. CASE m = 0
    <3>1. Sol([b \in 0 .. 0 |-> <<>>], m)
      BY <2>4
    <3>2. QED
      BY <2>3, <3>1
  <2>5. CASE m # 0
    <3>1. m - 1 \in Nat /\ m - 1 < m
      BY <2>3, <2>5
    <3>2. PICK f : Sol(f, m - 1)
      BY <2>2, <3>1
    <3>3. PICK g : g = [b \in 0 .. m |-> IF b = m THEN f[m - 1] \o Plans[k][m] ELSE f[b]]
      OBVIOUS
    <3>4. \A b \in 0 .. m - 1 : g[b] = f[b]
      BY <2>3, <3>3
    <3>5. \A b \in 0 .. m - 1 : f[b] = IF b = 0 THEN <<>> ELSE f[b - 1] \o Plans[k][b]
      BY <3>2
    <3>6. \A b \in 0 .. m : g[b] = IF b = 0 THEN <<>> ELSE g[b - 1] \o Plans[k][b]
      <4> SUFFICES ASSUME NEW b \in 0 .. m
                   PROVE  g[b] = IF b = 0 THEN <<>> ELSE g[b - 1] \o Plans[k][b]
        OBVIOUS
      <4>1. CASE b = m
        <5>1. g[m] = f[m - 1] \o Plans[k][m] /\ m - 1 \in 0 .. m - 1
          BY <2>3, <2>5, <3>1, <3>3
        <5>2. QED
          BY <2>5, <3>4, <4>1, <5>1
      <4>2. CASE b = 0
        <5>1. 0 \in 0 .. m - 1
          BY <3>1
        <5>2. QED
          BY <3>4, <3>5, <4>2, <5>1
      <4>3. CASE b # m /\ b # 0
        <5>1. b \in 0 .. m - 1 /\ b - 1 \in 0 .. m - 1
          BY <2>3, <4>3
        <5>2. QED
          BY <3>4, <3>5, <4>3, <5>1
      <4>4. QED
        BY <4>1, <4>2, <4>3
    <3>7. Sol(g, m)
      BY <3>3, <3>6
    <3>8. QED
      BY <2>3, <3>7
  <2>6. QED
    BY <2>4, <2>5
<1>3. QED
  BY <1>1, <1>2

LEMMA FlatBurstsSteps ==
  ASSUME NEW k \in Personas
  PROVE  /\ FlatBursts(k)[0] = <<>>
         /\ \A b \in DOMAIN Plans[k] : FlatBursts(k)[b] = FlatBursts(k)[b - 1] \o Plans[k][b]
<1> DEFINE S == 0 .. Len(Plans[k])
<1>1. Len(Plans[k]) \in Nat /\ DOMAIN Plans[k] = 1 .. Len(Plans[k])
  BY PlanTypes
<1>2. FlatBursts(k) = CHOOSE f : f = [b \in S |->
                         IF b = 0 THEN <<>> ELSE f[b - 1] \o Plans[k][b]]
  BY DEF FlatBursts
<1>3. FlatBursts(k) = [b \in S |->
                         IF b = 0 THEN <<>> ELSE FlatBursts(k)[b - 1] \o Plans[k][b]]
  BY <1>2, FlatBurstsExist
<1>4. 0 \in S /\ \A b \in DOMAIN Plans[k] : b \in S /\ b # 0
  BY <1>1
<1> HIDE DEF S
<1>5. QED
  BY <1>3, <1>4

-----------------------------------------------------------------------------
LEMMA InitBursts == Init => BInv
<1> SUFFICES ASSUME Init PROVE BInv
  OBVIOUS
<1>1. Position
  BY DEF Init, Position, Erred, Sending
<1>2. ASSUME NEW k \in Personas
      PROVE  SessionsHold(k) /\ Grouped(k) /\ PlanFollowed(k)
  BY DEF Init, SessionsHold, Grouped, PlanFollowed, Through, Current, Sending, Verifying
<1>3. QED
  BY <1>1, <1>2 DEF BInv

(* Steps that send nothing: the grouping of a persona's rows stays, also   *)
(* when the harness goes on to the next persona.                           *)
LEMMA GroupsStay ==
  ASSUME NEW k \in Personas, SessionsHold(k), Grouped(k),
         rows'[k] = rows[k], sessions'[k] = sessions[k],
         sessions[k] \in Seq(SessionRow),
         Erred(k) => Erred(k)',
         k = persona' => sessionId' = 0 \/ (k = persona /\ sessionId' = sessionId),
         Current(k)' => \/ rows[k] = <<>>
                        \/ Current(k) /\ UNCHANGED <<burst, next, sessionId>>
  PROVE  SessionsHold(k)' /\ Grouped(k)'
<1>1. SessionsHold(k)'
  BY DEF SessionsHold
<1>2. ASSUME NEW i \in DOMAIN rows[k], Split(k, i)
      PROVE  Split(k, i)'
  <2>1. rows[k][i].session # 0
    BY DEF SessionsHold
  <2>2. AloneInSession(k, i)'
    BY <1>2 DEF Split, AloneInSession, SameSession
  <2>3. QED
    BY <1>2, <2>1, <2>2 DEF Split
<1>3. ASSUME NEW i \in DOMAIN rows'[k]
      PROVE  Placed(k, i)' /\ (Current(k)' => InBurst(k, i)')
  <2>1. i \in DOMAIN rows[k] /\ rows'[k][i] = rows[k][i]
    BY <1>3
  <2>2. CASE ~Current(k)'
    BY <2>1, <2>2 DEF Grouped, Placed
  <2>3. CASE Current(k)'
    <3>1. Current(k) /\ UNCHANGED <<burst, next, sessionId>>
      BY <2>1, <2>3
    <3>2. Placed(k, i) /\ InBurst(k, i)
      BY <2>1, <3>1 DEF Grouped
    <3>3. Placed(k, i)'
      BY <2>1, <3>1, <3>2 DEF Placed, PastPlace
    <3>4. InBurst(k, i)'
      BY <1>2, <2>1, <3>1, <3>2 DEF InBurst
    <3>5. QED
      BY <3>3, <3>4
  <2>4. QED
    BY <2>2, <2>3
<1>4. ASSUME NEW i \in DOMAIN rows'[k], NEW j \in DOMAIN rows'[k]
      PROVE  (/\ SameSession(k, i, j) => SameBurst(k, i, j)
              /\ SameBurst(k, i, j) /\ i < j => SameSession(k, i, j) \/ Split(k, i))'
  BY <1>2 DEF Grouped, SameSession, SameBurst
<1>5. QED
  BY <1>1, <1>3, <1>4 DEF Grouped

(* The session an event is stored in is the open one, or a new one.        *)
LEMMA SessionOfEvent ==
  ASSUME TypeOK, BInv, pc = "sending"
  PROVE  LET s == ServerSession ses == sessions[persona] IN
         /\ s \in Nat \ {0}
         /\ \/ s = sessionId /\ s \in DOMAIN ses
            \/ sessionId = 0 /\ s \notin DOMAIN ses
         /\ DOMAIN ses \subseteq DOMAIN WithEvent(ses, s, Now)
         /\ s \in DOMAIN WithEvent(ses, s, Now)
         /\ \A x \in DOMAIN WithEvent(ses, s, Now) :
              WithEvent(ses, s, Now)[x].lastEventAt = Now
<1>1. PICK ses : ses = sessions[persona]
  OBVIOUS
<1>2. PICK s : s = ServerSession
  OBVIOUS
<1>3. ses \in Seq(SessionRow) /\ Len(ses) \in Nat /\ DOMAIN ses = 1 .. Len(ses)
      /\ persona \in Personas
  BY <1>1 DEF TypeOK
<1>4. \A x \in DOMAIN ses : ses[x].lastEventAt = Now
  BY <1>1, <1>3 DEF BInv, SessionsHold
<1>5. sessionId = 0 \/ sessionId \in DOMAIN ses
  BY <1>1 DEF BInv, Position
<1>6. Now - Now <= InactivityLimit
  BY NowIsTime, CommonAssumption DEF Now
<1>7. s = IF sessionId \in DOMAIN ses THEN sessionId ELSE Len(ses) + 1
  BY <1>1, <1>2, <1>4, <1>6 DEF ServerSession, ResolveOrCreateSession
<1>8. /\ s \in Nat \ {0}
      /\ \/ s = sessionId /\ s \in DOMAIN ses
         \/ sessionId = 0 /\ s \notin DOMAIN ses
      /\ s \notin DOMAIN ses => s = Len(ses) + 1
  BY <1>3, <1>5, <1>7
<1>9. CASE s \in DOMAIN ses
  <2>1. PICK t : t = WithEvent(ses, s, Now)
    OBVIOUS
  <2>2. t = [ses EXCEPT ![s].lastEventAt = Now, ![s].interactionCount = @ + 1]
    BY <1>9, <2>1 DEF WithEvent
  <2>3. DOMAIN t = DOMAIN ses /\ \A x \in DOMAIN ses \ {s} : t[x] = ses[x]
    BY <2>2
  <2>4. t[s].lastEventAt = Now
    <3>1. ses[s] \in SessionRow
      BY <1>3, <1>9
    <3>2. QED
      BY <1>9, <2>2, <3>1 DEF SessionRow
  <2>5. QED
    BY <1>1, <1>2, <1>4, <1>8, <1>9, <2>1, <2>3, <2>4
<1>10. CASE s \notin DOMAIN ses
  <2>1. PICK t : t = WithEvent(ses, s, Now)
    OBVIOUS
  <2>2. PICK row : row = [startedAt |-> Now, lastEventAt |-> Now, interactionCount |-> 1]
    OBVIOUS
  <2>3. t = Append(ses, row) /\ s = Len(ses) + 1
    BY <1>8, <1>10, <2>1, <2>2 DEF WithEvent
  <2>4. /\ DOMAIN t = 1 .. Len(ses) + 1
        /\ \A x \in DOMAIN ses : t[x] = ses[x]
        /\ t[s] = row
    BY <1>3, <2>3
  <2>5. row.lastEventAt = Now
    BY <2>2
  <2>6. DOMAIN ses \subseteq DOMAIN t /\ s \in DOMAIN t
    BY <1>3, <2>3, <2>4
  <2>7. ASSUME NEW x \in DOMAIN t
        PROVE  t[x].lastEventAt = Now
    <3>1. x \in DOMAIN ses \/ x = s
      BY <1>3, <2>3, <2>4
    <3>2. QED
      BY <1>4, <2>4, <2>5, <3>1
  <2>8. QED
    BY <1>1, <1>2, <1>8, <2>1, <2>6, <2>7
<1>11. QED
  BY <1>9, <1>10

(* The place of the prompt just sent, and of all before it, is past.       *)
LEMMA PlacesPass ==
  ASSUME TypeOK, pc = "sending", NEW s, MoveOn(s), pc' = "sending",
         NEW b \in DOMAIN Plans[persona], NEW n \in DOMAIN Plans[persona][b],
         PastPlace(b, n) \/ (b = burst /\ n = next)
  PROVE  PastPlace(b, n)'
<1>1. persona \in Personas /\ burst \in DOMAIN Plans[persona]
      /\ next \in DOMAIN Plans[persona][burst]
  BY DEF TypeOK
<1>2. burst \in Int /\ next \in Int /\ b \in Int /\ n \in Int
      /\ n <= Len(Plans[persona][b]) /\ next <= Len(Plans[persona][burst])
  BY <1>1, PlanTypes
<1>3. CASE next < Len(Plans[persona][burst])
  <2>1. next' = next + 1 /\ burst' = burst
    BY <1>3 DEF MoveOn
  <2>2. QED
    BY <1>2, <2>1 DEF PastPlace
<1>4. CASE ~(next < Len(Plans[persona][burst]))
  <2>1. burst' = burst + 1
    BY <1>4 DEF MoveOn
  <2>2. QED
    BY <1>2, <2>1 DEF PastPlace
<1>5. QED
  BY <1>3, <1>4

(* The session that is sent with the next prompt.                          *)
LEMMA NextSession ==
  ASSUME TypeOK, pc = "sending", NEW t, MoveOn(t)
  PROVE  /\ persona' = persona /\ pc' \in {"sending", "recompute"}
         /\ \/ pc' = "sending" /\ burst' = burst /\ next' = next + 1 /\ sessionId' = t
            \/ pc' = "sending" /\ burst' = burst + 1 /\ next' = 1 /\ sessionId' = 0
            \/ pc' = "recompute" /\ sessionId' = 0
BY DEF MoveOn, TypeOK

(* A prompt that is stored: by an answered request, or by one that failed  *)
(* after the commit.                                                       *)
LEMMA StoredGroups ==
  ASSUME TypeOK, BInv, pc = "sending", NEW s, s = ServerSession, StorePrompt(s),
         NEW t, MoveOn(t), t = s \/ (t = sessionId /\ errors' > 0),
         errors' \in {errors, errors + 1}, failed' = failed,
         NEW p, p = persona
  PROVE  SessionsHold(p)' /\ Grouped(p)'
<1>1. PICK old, new : p = persona /\ old = rows[p] /\ new = rows'[p]
  OBVIOUS
<1>2. /\ p \in Personas /\ burst \in DOMAIN Plans[p] /\ next \in DOMAIN Plans[p][burst]
      /\ sessions \in [Personas -> Seq(SessionRow)] /\ old \in Seq(Row)
      /\ rows \in [Personas -> Seq(Row)]
      /\ errors \in Nat /\ errors' \in Nat /\ (errors > 0 => errors' > 0)
  <2>1. errors \in Nat
    BY DEF TypeOK
  <2>2. errors' \in Nat /\ (errors > 0 => errors' > 0)
    BY <2>1
  <2>3. QED
    BY <1>1, <2>1, <2>2 DEF TypeOK, Row
<1>3. PICK r, m : r = [prompt |-> Plans[p][burst][next], session |-> s] /\ m = Len(old) + 1
  OBVIOUS
<1>4. new = Append(old, r)
  BY <1>1, <1>2, <1>3 DEF StorePrompt
<1>5. /\ DOMAIN new = DOMAIN old \cup {m} /\ new[m] = r /\ m \notin DOMAIN old
      /\ \A i \in DOMAIN old : new[i] = old[i] /\ i < m
      /\ DOMAIN new \subseteq Nat
  <2>1. Len(old) \in Nat /\ DOMAIN old = 1 .. Len(old)
    BY <1>2
  <2>2. DOMAIN new = 1 .. m /\ new[m] = r /\ \A i \in DOMAIN old : new[i] = old[i]
    BY <1>2, <1>3, <1>4
  <2>3. QED
    BY <1>3, <2>1, <2>2
<1>6. /\ s \in Nat \ {0}
      /\ s = sessionId \/ (sessionId = 0 /\ s \notin DOMAIN sessions[p])
      /\ sessions'[p] = WithEvent(sessions[p], s, Now)
      /\ DOMAIN sessions[p] \subseteq DOMAIN sessions'[p] /\ s \in DOMAIN sessions'[p]
      /\ \A x \in DOMAIN sessions'[p] : sessions'[p][x].lastEventAt = Now
  BY <1>1, <1>2, SessionOfEvent DEF StorePrompt
<1>7. /\ persona' = p /\ pc' \in {"sending", "recompute"}
      /\ sessionId' \in {0, t}
      /\ pc' = "sending" =>
           \/ burst' = burst /\ sessionId' = t
           \/ burst' = burst + 1 /\ sessionId' = 0
  BY <1>1, NextSession
<1>8. SessionsHold(p) /\ Grouped(p)
  BY <1>2 DEF BInv
<1>9. \A i \in DOMAIN old : old[i].session \in DOMAIN sessions[p] /\ old[i].session # 0
  <2>1. 0 \notin DOMAIN sessions[p]
    BY <1>2
  <2>2. QED
    BY <1>1, <1>8, <2>1 DEF SessionsHold
<1>10. SessionsHold(p)'
  <2>1. \A i \in DOMAIN new : new[i].session \in DOMAIN sessions'[p]
    BY <1>3, <1>5, <1>6, <1>9
  <2>2. QED
    BY <1>1, <1>6, <2>1 DEF SessionsHold
<1>11. BurstOf(p, new[m].prompt) = burst /\ new[m].session = s
  <2>1. new[m].prompt = Plans[p][burst][next] /\ new[m].session = s
    BY <1>3, <1>5
  <2>2. QED
    BY <1>2, <2>1, BurstOfPlace
<1>12. \A i \in DOMAIN old :
         /\ Placed(p, i)
         /\ old[i].session = sessionId => BurstOf(p, old[i].prompt) = burst
         /\ BurstOf(p, old[i].prompt) = burst =>
              old[i].session = sessionId \/ Split(p, i)
  BY <1>1, <1>8 DEF Grouped, Current, InBurst
<1>13. Erred(p) => Erred(p)'
  BY <1>1, <1>2, <1>7 DEF Erred
<1>14. t = s \/ Erred(p)'
  BY <1>1, <1>7 DEF Erred
<1>15. ASSUME NEW i \in DOMAIN old, Split(p, i)
       PROVE  Split(p, i)' /\ old[i].session # s
  <2>1. old[i].session # sessionId /\ \A j \in DOMAIN old \ {i} : old[i].session # old[j].session
    BY <1>1, <1>15 DEF Split, AloneInSession, SameSession
  <2>2. old[i].session # s
    BY <1>6, <1>9, <2>1
  <2>3. \A j \in DOMAIN new \ {i} : new[i].session # new[j].session
    BY <1>5, <1>11, <2>1, <2>2
  <2>4. AloneInSession(p, i)'
    BY <1>1, <2>3 DEF AloneInSession, SameSession
  <2>5. new[i].session # sessionId'
    BY <1>5, <1>7, <1>9, <2>1, <2>2
  <2>6. QED
    BY <1>1, <1>13, <1>15, <2>2, <2>4, <2>5 DEF Split
<1>16. ASSUME NEW i \in DOMAIN new
       PROVE  Placed(p, i)'
  <2>1. CASE i = m
    <3>1. new[i].prompt = Plans[p][burst][next]
      BY <1>3, <1>5, <2>1
    <3>2. PICK b \in DOMAIN Plans[p] : b = burst
      BY <1>2
    <3>3. PICK n \in DOMAIN Plans[p][b] : n = next
      BY <1>2, <3>2
    <3>4. pc' = "sending" => PastPlace(b, n)'
      BY <1>1, <3>2, <3>3, PlacesPass
    <3>5. QED
      BY <1>1, <3>1, <3>2, <3>3, <3>4 DEF Placed, Current
  <2>2. CASE i \in DOMAIN old
    <3>1. PICK b \in DOMAIN Plans[p] : \E n \in DOMAIN Plans[p][b] :
            old[i].prompt = Plans[p][b][n] /\ PastPlace(b, n)
      BY <1>1, <1>12, <2>2 DEF Placed, Current
    <3>2. PICK n \in DOMAIN Plans[p][b] : old[i].prompt = Plans[p][b][n] /\ PastPlace(b, n)
      BY <3>1
    <3>3. pc' = "sending" => PastPlace(b, n)'
      BY <1>1, <3>2, PlacesPass
    <3>4. QED
      BY <1>1, <1>5, <2>2, <3>2, <3>3 DEF Placed, Current
  <2>3. QED
    BY <1>5, <2>1, <2>2
<1>17. Erred(p)' /\ s # sessionId' /\ s # sessionId => Split(p, m)'
  <2>1. ASSUME s # sessionId PROVE \A j \in DOMAIN new \ {m} : new[m].session # new[j].session
    BY <1>5, <1>6, <1>9, <1>11, <2>1
  <2>2. QED
    BY <1>1, <1>11, <2>1 DEF Split, AloneInSession, SameSession
<1>18. ASSUME NEW i \in DOMAIN new, Current(p)'
       PROVE  InBurst(p, i)'
  <2>1. pc' = "sending"
    BY <1>18 DEF Current
  <2>2. CASE burst' = burst /\ sessionId' = t
    <3>1. CASE i = m
      <4>1. t = s \/ Split(p, m)'
        BY <1>6, <1>14, <1>17, <2>2
      <4>2. QED
        BY <1>1, <1>11, <2>2, <3>1, <4>1 DEF InBurst
    <3>2. CASE i \in DOMAIN old
      <4>1. old[i].session = sessionId' => BurstOf(p, old[i].prompt) = burst
        BY <1>6, <1>9, <1>12, <2>2, <3>2
      <4>2. BurstOf(p, old[i].prompt) = burst =>
              old[i].session = sessionId' \/ Split(p, i)'
        <5>1. CASE old[i].session = sessionId
          BY <1>6, <1>9, <2>2, <3>2, <5>1
        <5>2. CASE old[i].session # sessionId
          BY <1>12, <1>15, <3>2, <5>2
        <5>3. QED
          BY <5>1, <5>2
      <4>3. QED
        BY <1>1, <1>5, <2>2, <3>2, <4>1, <4>2 DEF InBurst
    <3>3. QED
      BY <1>5, <3>1, <3>2
  <2>3. CASE burst' = burst + 1 /\ sessionId' = 0
    <3>1. new[i].session # 0
      BY <1>5, <1>6, <1>9, <1>11
    <3>2. BurstOf(p, new[i].prompt) # burst + 1
      <4>1. burst \in Int /\ \A b \in DOMAIN Plans[p] : b \in Int
        BY <1>2, PlanTypes
      <4>2. CASE i = m
        BY <1>11, <4>1, <4>2
      <4>3. CASE i \in DOMAIN old
        <5>1. PICK b \in DOMAIN Plans[p] : \E n \in DOMAIN Plans[p][b] :
                old[i].prompt = Plans[p][b][n] /\ PastPlace(b, n)
          BY <1>1, <1>12, <4>3 DEF Placed, Current
        <5>2. BurstOf(p, old[i].prompt) = b /\ (b < burst \/ b = burst)
          BY <1>2, <5>1, BurstOfPlace DEF PastPlace
        <5>3. QED
          BY <1>5, <4>1, <4>3, <5>2
      <4>4. QED
        BY <1>5, <4>2, <4>3
    <3>3. QED
      BY <1>1, <2>3, <3>1, <3>2 DEF InBurst
  <2>4. QED
    BY <1>7, <2>1, <2>2, <2>3
<1>19. ASSUME NEW i \in DOMAIN new, NEW j \in DOMAIN new
       PROVE  (/\ SameSession(p, i, j) => SameBurst(p, i, j)
               /\ SameBurst(p, i, j) /\ i < j => SameSession(p, i, j) \/ Split(p, i))'
  <2>1. CASE i \in DOMAIN old /\ j \in DOMAIN old
    BY <1>1, <1>5, <1>8, <1>15, <2>1 DEF Grouped, SameSession, SameBurst
  <2>2. ASSUME NEW x \in DOMAIN old
        PROVE  /\ old[x].session = s => BurstOf(p, old[x].prompt) = burst
               /\ BurstOf(p, old[x].prompt) = burst =>
                    old[x].session = s \/ Split(p, x)'
    <3>1. old[x].session = sessionId => s = sessionId
      BY <1>6, <1>9
    <3>2. old[x].session = s => s = sessionId
      BY <1>6, <1>9
    <3>3. QED
      BY <1>12, <1>15, <3>1, <3>2
  <2>3. CASE i = m /\ j = m
    BY <1>5, <2>3 DEF SameBurst
  <2>4. CASE i \in DOMAIN old /\ j = m
    BY <1>1, <1>5, <1>11, <2>2, <2>4 DEF SameSession, SameBurst
  <2>5. CASE i = m /\ j \in DOMAIN old
    <3>1. ~(i < j)
      BY <1>5, <2>5
    <3>2. QED
      BY <1>1, <1>5, <1>11, <2>2, <2>5, <3>1 DEF SameSession, SameBurst
  <2>6. QED
    BY <1>5, <2>1, <2>3, <2>4, <2>5
<1>20. Grouped(p)'
  BY <1>1, <1>16, <1>18, <1>19 DEF Grouped
<1>21. QED
  BY <1>10, <1>20

(* A prompt that is refused: the burst goes on, or is over.                *)
LEMMA RefusedGroups ==
  ASSUME TypeOK, BInv, pc = "sending", MoveOn(sessionId),
         UNCHANGED <<rows, sessions, failed>>, errors' = errors + 1,
         NEW p, p = persona
  PROVE  SessionsHold(p)' /\ Grouped(p)'
<1>1. PICK old : p = persona /\ old = rows[p]
  OBVIOUS
<1>2. p \in Personas /\ burst \in DOMAIN Plans[p] /\ errors \in Nat
      /\ sessions \in [Personas -> Seq(SessionRow)]
  BY <1>1 DEF TypeOK
<1>3. /\ persona' = p /\ pc' \in {"sending", "recompute"}
      /\ sessionId' \in {0, sessionId}
      /\ pc' = "sending" =>
           \/ burst' = burst /\ sessionId' = sessionId
           \/ burst' = burst + 1 /\ sessionId' = 0
  BY <1>1, NextSession
<1>4. SessionsHold(p) /\ Grouped(p)
  BY <1>2 DEF BInv
<1>5. \A i \in DOMAIN old : old[i].session # 0
  <2>1. 0 \notin DOMAIN sessions[p]
    BY <1>2
  <2>2. QED
    BY <1>1, <1>4, <2>1 DEF SessionsHold
<1>6. ASSUME NEW i \in DOMAIN old, Split(p, i)
      PROVE  Split(p, i)'
  <2>1. AloneInSession(p, i)' /\ errors' > 0
    BY <1>1, <1>2, <1>6 DEF Split, AloneInSession, SameSession
  <2>2. QED
    BY <1>1, <1>3, <1>5, <1>6, <2>1 DEF Split, Erred
<1>7. ASSUME NEW i \in DOMAIN old
      PROVE  Placed(p, i)' /\ (Current(p)' => InBurst(p, i)')
  <2>1. Placed(p, i) /\ InBurst(p, i)
    BY <1>1, <1>4 DEF Grouped, Current
  <2>2. PICK b \in DOMAIN Plans[p] : \E n \in DOMAIN Plans[p][b] :
          old[i].prompt = Plans[p][b][n] /\ PastPlace(b, n)
    BY <1>1, <2>1 DEF Placed, Current
  <2>3. PICK n \in DOMAIN Plans[p][b] : old[i].prompt = Plans[p][b][n] /\ PastPlace(b, n)
    BY <2>2
  <2>4. pc' = "sending" => PastPlace(b, n)'
    BY <1>1, <2>3, PlacesPass
  <2>5. Placed(p, i)'
    BY <1>1, <2>3, <2>4 DEF Placed, Current
  <2>6. CASE burst' = burst /\ sessionId' = sessionId
    BY <1>1, <1>6, <2>1, <2>5, <2>6 DEF InBurst
  <2>7. CASE burst' = burst + 1 /\ sessionId' = 0
    <3>1. burst \in Int /\ b \in Int
      BY <1>2, PlanTypes
    <3>2. BurstOf(p, old[i].prompt) = b /\ (b < burst \/ b = burst)
      BY <1>2, <2>3, BurstOfPlace DEF PastPlace
    <3>3. BurstOf(p, old[i].prompt) # burst + 1
      BY <3>1, <3>2
    <3>4. QED
      BY <1>1, <1>5, <2>5, <2>7, <3>3 DEF InBurst
  <2>8. QED
    BY <1>3, <2>5, <2>6, <2>7 DEF Current
<1>8. ASSUME NEW i \in DOMAIN old, NEW j \in DOMAIN old
      PROVE  (/\ SameSession(p, i, j) => SameBurst(p, i, j)
              /\ SameBurst(p, i, j) /\ i < j => SameSession(p, i, j) \/ Split(p, i))'
  BY <1>1, <1>4, <1>6 DEF Grouped, SameSession, SameBurst
<1>9. SessionsHold(p)' /\ Grouped(p)'
  BY <1>1, <1>4, <1>7, <1>8 DEF Grouped, SessionsHold
<1>10. QED
  BY <1>9

-----------------------------------------------------------------------------
(* The plan, as far as it was sent.                                        *)
LEMMA PlanSequences ==
  ASSUME NEW k \in Personas
  PROVE  \A b \in DOMAIN Plans[k] : Plans[k][b] \in Seq(Ids)
<1>1. Plans[k] \in Seq(Seq(Ids))
  BY HarnessAssumption DEF Personas
<1>2. QED
  BY <1>1

LEMMA FlatBurstsType ==
  ASSUME NEW k \in Personas
  PROVE  \A b \in 0 .. Len(Plans[k]) : FlatBursts(k)[b] \in Seq(Ids)
<1>1. Len(Plans[k]) \in Nat /\ DOMAIN Plans[k] = 1 .. Len(Plans[k])
  BY PlanTypes
<1>2. PICK T : T = {b \in 0 .. Len(Plans[k]) : FlatBursts(k)[b] \notin Seq(Ids)}
  OBVIOUS
<1>3. SUFFICES ASSUME T # {} PROVE FALSE
  BY <1>2
<1>4. PICK m \in T : \A t \in T : m <= t
  <2>1. T \subseteq Nat
    BY <1>1, <1>2
  <2>2. QED
    BY <1>3, <2>1, LeastExists
<1>5. m \in 0 .. Len(Plans[k]) /\ FlatBursts(k)[m] \notin Seq(Ids)
  BY <1>2
<1>6. m # 0
  <2>1. FlatBursts(k)[0] \in Seq(Ids)
    BY FlatBurstsSteps, EmptySeq
  <2>2. QED
    BY <1>5, <2>1
<1>7. m \in DOMAIN Plans[k] /\ m - 1 \in 0 .. Len(Plans[k]) /\ m - 1 \notin T
  BY <1>1, <1>4, <1>5, <1>6
<1>8. FlatBursts(k)[m - 1] \in Seq(Ids) /\ Plans[k][m] \in Seq(Ids)
  BY <1>2, <1>7, PlanSequences
<1>9. FlatBursts(k)[m] \in Seq(Ids)
  BY <1>7, <1>8, FlatBurstsSteps, ConcatProperties
<1>10. QED
  BY <1>5, <1>9

LEMMA SentSoFar ==
  ASSUME NEW k \in Personas, NEW b \in DOMAIN Plans[k], NEW n \in DOMAIN Plans[k][b]
  PROVE  LET done == FlatBursts(k)[b - 1] plan == Plans[k][b] IN
         /\ done \o SubSeq(plan, 1, 0) = done
         /\ Append(done \o SubSeq(plan, 1, n - 1), plan[n]) = done \o SubSeq(plan, 1, n)
         /\ done \o SubSeq(plan, 1, Len(plan)) = FlatBursts(k)[b]
<1>1. PICK done, plan : done = FlatBursts(k)[b - 1] /\ plan = Plans[k][b]
  OBVIOUS
<1>2. /\ done \in Seq(Ids) /\ plan \in Seq(Ids) /\ Len(plan) \in Nat
      /\ n \in 1 .. Len(plan) /\ plan[n] \in Ids
  <2>1. b - 1 \in 0 .. Len(Plans[k])
    BY PlanTypes
  <2>2. QED
    BY <1>1, <2>1, FlatBurstsType, PlanSequences, PlanTypes
<1>3. done \o SubSeq(plan, 1, 0) = done
  BY <1>2, SubSeqEmpty, ConcatEmptySeq
<1>4. Append(done \o SubSeq(plan, 1, n - 1), plan[n]) = done \o SubSeq(plan, 1, n)
  <2>1. PICK sent, more : sent = SubSeq(plan, 1, n - 1) /\ more = <<plan[n]>>
    OBVIOUS
  <2>2. sent \in Seq(Ids)
    <3>1. \A i \in 1 .. n - 1 : plan[i] \in Ids
      BY <1>2
    <3>2. QED
      BY <1>2, <2>1, <3>1, SubSeqProperties
  <2>3. more \in Seq(Ids)
    BY <1>2, <2>1
  <2>4. SubSeq(plan, 1, n) = sent \o more
    <3>1. 1 \in 1 .. Len(plan) /\ n \in 1 .. Len(plan)
      BY <1>2
    <3>2. SubSeq(plan, 1, n) = SubSeq(plan, 1, n - 1) \o <<plan[n]>>
      BY <1>2, <3>1, SubSeqRecursiveSecond
    <3>3. QED
      BY <2>1, <3>2
  <2>5. Append(done \o sent, plan[n]) = (done \o sent) \o more
    BY <1>2, <2>1, <2>2, ConcatProperties, AppendIsConcat
  <2>6. (done \o sent) \o more = done \o (sent \o more)
    <3>1. done \in Seq(Ids)
      BY <1>2
    <3>2. \A x, y, z \in Seq(Ids) : (x \o y) \o z = x \o (y \o z)
      BY ConcatAssociative
    <3>3. QED
      BY <2>2, <2>3, <3>1, <3>2
  <2>7. QED
    BY <2>1, <2>4, <2>5, <2>6
<1>5. done \o SubSeq(plan, 1, Len(plan)) = FlatBursts(k)[b]
  BY <1>1, <1>2, SubSeqFull, FlatBurstsSteps
<1>6. QED
  BY <1>1, <1>3, <1>4, <1>5

LEMMA PromptsAppend ==
  ASSUME NEW q \in Seq(Row), NEW r \in Row
  PROVE  [i \in DOMAIN Append(q, r) |-> Append(q, r)[i].prompt]
           = Append([i \in DOMAIN q |-> q[i].prompt], r.prompt)
<1>1. PICK f : f = [i \in DOMAIN q |-> q[i].prompt]
  OBVIOUS
<1>2. Len(q) \in Nat /\ DOMAIN q = 1 .. Len(q) /\ \A i \in DOMAIN q : q[i] \in Row
  OBVIOUS
<1>3. f \in Seq(Ids) /\ Len(f) = Len(q) /\ r.prompt \in Ids
  <2>1. f \in [1 .. Len(q) -> Ids]
    BY <1>1, <1>2 DEF Row
  <2>2. QED
    BY <1>2, <2>1 DEF Row
<1>4. PICK g, h : /\ g = [i \in DOMAIN Append(q, r) |-> Append(q, r)[i].prompt]
                  /\ h = Append(f, r.prompt)
  OBVIOUS
<1>5. DOMAIN g = 1 .. Len(q) + 1 /\ DOMAIN h = 1 .. Len(q) + 1
  BY <1>2, <1>3, <1>4
<1>6. \A i \in 1 .. Len(q) + 1 : g[i] = h[i]
  BY <1>1, <1>2, <1>3, <1>4
<1>7. g = h
  <2>1. g = [i \in DOMAIN g |-> g[i]]
    BY <1>4
  <2>2. h = [i \in DOMAIN h |-> h[i]]
    BY <1>3, <1>4
  <2>3. QED
    BY <1>5, <1>6, <2>1, <2>2
<1>8. QED
  BY <1>1, <1>4, <1>7

(* A prompt that is answered with 202 is the next one stored.              *)
LEMMA AcceptedFollows ==
  ASSUME TypeOK, BInv, SendAccepted, NEW p, p = persona
  PROVE  PlanFollowed(p)'
<1> SUFFICES ASSUME ~Erred(p)'
             PROVE  (/\ Through(p) \/ (p = persona /\ pc = "recompute")
                          => Prompted(p) = FlatPlan(p)
                     /\ Current(p) => Prompted(p) =
                          FlatBursts(p)[burst - 1] \o SubSeq(Plans[p][burst], 1, next - 1))'
  BY DEF PlanFollowed
<1>1. PICK b, n, old : b = burst /\ n = next /\ old = rows[p]
  OBVIOUS
<1>2. PICK flat, plan : flat = FlatBursts(p) /\ plan = Plans[p][b]
  OBVIOUS
<1>3. /\ p \in Personas /\ b \in DOMAIN Plans[p] /\ n \in DOMAIN plan
      /\ old \in Seq(Row) /\ rows \in [Personas -> Seq(Row)] /\ pc = "sending"
      /\ p \in Int /\ b \in Int /\ n \in Int /\ plan \in Seq(Ids)
      /\ n <= Len(plan) /\ b <= Len(Plans[p]) /\ Len(plan) \in Int /\ Len(Plans[p]) \in Int
  <2>1. p \in Personas /\ b \in DOMAIN Plans[p] /\ n \in DOMAIN plan
    BY <1>1, <1>2 DEF TypeOK
  <2>2. old \in Seq(Row) /\ rows \in [Personas -> Seq(Row)] /\ pc = "sending"
    BY <1>1, <2>1 DEF TypeOK, Row, SendAccepted
  <2>3. QED
    BY <1>2, <2>1, <2>2, PlanTypes, PlanSequences
<1>4. PICK s \in Nat : s = ServerSession
  BY ServerSessionType
<1>5. PICK r : r = [prompt |-> plan[n], session |-> s]
  OBVIOUS
<1>6. rows'[p] = Append(old, r) /\ r \in Row
  <2>1. rows'[p] = Append(old, r)
    BY <1>1, <1>2, <1>3, <1>4, <1>5 DEF SendAccepted, StorePrompt
  <2>2. QED
    BY <1>3, <1>4, <1>5, <2>1 DEF Row
<1>7. Prompted(p)' = Append(Prompted(p), plan[n])
  <2>1. r.prompt = plan[n]
    BY <1>5
  <2>2. QED
    BY <1>1, <1>3, <1>6, <2>1, PromptsAppend DEF Prompted
<1>8. Prompted(p) = flat[b - 1] \o SubSeq(plan, 1, n - 1)
  <2>1. ~Erred(p) /\ Current(p)
    BY <1>3 DEF Erred, Current, SendAccepted, MoveOn
  <2>2. PlanFollowed(p)
    BY <1>3 DEF BInv
  <2>3. QED
    BY <1>1, <1>2, <2>1, <2>2 DEF PlanFollowed
<1>9. Prompted(p)' = flat[b - 1] \o SubSeq(plan, 1, n)
  BY <1>2, <1>3, <1>7, <1>8, SentSoFar
<1>10. /\ persona' = p
       /\ IF n < Len(plan) THEN next' = n + 1 /\ burst' = b /\ pc' = "sending"
          ELSE /\ next' = 1
               /\ IF b < Len(Plans[p]) THEN burst' = b + 1 /\ pc' = "sending"
                                       ELSE pc' = "recompute"
  BY <1>1, <1>2, <1>3 DEF SendAccepted, MoveOn
<1>11. CASE n < Len(plan)
  <2>1. next' - 1 = n /\ burst' = b /\ pc' = "sending"
    BY <1>3, <1>10, <1>11
  <2>2. ~Through(p)'
    BY <1>3, <1>10, <2>1 DEF Through, Sending, Verifying
  <2>3. Prompted(p)' = flat[burst' - 1] \o SubSeq(Plans[p][burst'], 1, next' - 1)
    BY <1>2, <1>9, <2>1
  <2>4. QED
    BY <1>2, <2>1, <2>2, <2>3
<1>12. CASE ~(n < Len(plan))
  <2>1. n = Len(plan)
    BY <1>3, <1>12
  <2>2. Prompted(p)' = flat[b]
    BY <1>2, <1>3, <1>9, <2>1, SentSoFar
  <2>3. CASE b < Len(Plans[p])
    <3>1. burst' = b + 1 /\ next' = 1 /\ pc' = "sending" /\ b + 1 \in DOMAIN Plans[p]
      BY <1>3, <1>10, <1>12, <2>3, PlanTypes
    <3>2. 1 \in DOMAIN Plans[p][b + 1] /\ burst' - 1 = b /\ next' - 1 = 0
      BY <1>3, <3>1, PlanTypes
    <3>3. flat[(b + 1) - 1] \o SubSeq(Plans[p][b + 1], 1, 0) = flat[(b + 1) - 1]
      BY <1>2, <1>3, <3>1, <3>2, SentSoFar
    <3>4. Prompted(p)' = flat[burst' - 1] \o SubSeq(Plans[p][burst'], 1, next' - 1)
      BY <2>2, <3>1, <3>2, <3>3
    <3>5. ~Through(p)'
      BY <1>3, <1>10, <3>1 DEF Through, Sending, Verifying
    <3>6. QED
      BY <1>2, <3>1, <3>4, <3>5
  <2>4. CASE ~(b < Len(Plans[p]))
    <3>1. b = Len(Plans[p]) /\ pc' = "recompute"
      BY <1>3, <1>10, <1>12, <2>4
    <3>2. Prompted(p)' = FlatPlan(p)
      BY <1>2, <2>2, <3>1 DEF FlatPlan
    <3>3. QED
      BY <3>1, <3>2 DEF Current
  <2>5. QED
    BY <2>3, <2>4
<1>13. QED
  BY <1>11, <1>12

-----------------------------------------------------------------------------
LEMMA SendPosition ==
  ASSUME HInv, BInv, SendAccepted \/ SendRefused \/ SendFailed
  PROVE  Position'
<1>1. TypeOK /\ pc = "sending" /\ persona \in Personas /\ errors \in Nat /\ faults \in Nat
  <2>1. TypeOK /\ faults \in 0 .. MaxFaults /\ persona \in Personas /\ errors \in Nat
    BY DEF HInv, TypeOK
  <2>2. faults \in Nat
    BY <2>1, HarnessAssumption
  <2>3. pc = "sending"
    BY DEF SendAccepted, SendRefused, SendFailed
  <2>4. QED
    BY <2>1, <2>2, <2>3
<1>2. PICK t : MoveOn(t)
  BY DEF SendAccepted, SendRefused, SendFailed
<1>3. /\ persona' = persona /\ pc' \in {"sending", "recompute"}
      /\ pc' = "recompute" => sessionId' = 0
  BY <1>1, <1>2, NextSession
<1>4. /\ failed' = failed
      /\ \/ errors' = errors /\ faults' = faults
         \/ errors' = errors + 1 /\ faults' = faults + 1
  BY DEF SendAccepted, SendRefused, SendFailed, Fault, CountError
<1>5. \A k \in Personas : Erred(k)' => faults' > 0
  <2>1. (faults > 0 => faults' > 0) /\ (errors' = errors \/ faults' > 0)
    BY <1>1, <1>4
  <2>2. QED
    BY <1>1, <1>3, <1>4, <2>1 DEF Erred, BInv, Position
<1>6. \A k \in Personas \ {persona} : rows'[k] = rows[k]
  BY <1>1 DEF SendAccepted, SendRefused, SendFailed, StorePrompt, store, TypeOK
<1>7. \A k \in Personas : k > persona => rows'[k] = <<>>
  <2>1. ~(persona > persona)
    BY <1>1, PlanTypes
  <2>2. QED
    BY <1>1, <1>6, <2>1 DEF BInv, Position, Sending
<1>8. pc' = "sending" => sessionId' = 0 \/ sessionId' \in DOMAIN sessions'[persona]
  <2>1. CASE SendRefused
    <3>1. sessionId' \in {0, sessionId} /\ sessions' = sessions
      BY <2>1 DEF SendRefused, MoveOn, store
    <3>2. QED
      BY <1>1, <3>1 DEF BInv, Position
  <2>2. CASE SendAccepted \/ SendFailed
    <3>1. PICK s : s = ServerSession
      OBVIOUS
    <3>2. sessions'[persona] = WithEvent(sessions[persona], s, Now)
      BY <1>1, <2>2, <3>1 DEF SendAccepted, SendFailed, StorePrompt, TypeOK
    <3>3. /\ s \in DOMAIN sessions'[persona] /\ (s = sessionId \/ sessionId = 0)
      BY <1>1, <3>1, <3>2, SessionOfEvent
    <3>4. sessionId' \in {0, s, sessionId}
      BY <2>2, <3>1 DEF SendAccepted, SendFailed, MoveOn
    <3>5. QED
      BY <3>3, <3>4
  <2>3. QED
    BY <2>1, <2>2
<1>9. QED
  BY <1>3, <1>5, <1>7, <1>8 DEF Position, Sending

LEMMA SendBursts ==
  ASSUME HInv, BInv, SendAccepted \/ SendRefused \/ SendFailed
  PROVE  BInv'
<1>1. PICK p : p = persona
  OBVIOUS
<1>2. TypeOK /\ pc = "sending" /\ p \in Personas /\ errors \in Nat
  BY <1>1 DEF HInv, TypeOK, SendAccepted, SendRefused, SendFailed
<1>3. /\ failed' = failed /\ persona' = p /\ pc' \in {"sending", "recompute"}
      /\ errors' \in {errors, errors + 1}
  <2>1. persona' = persona /\ pc' \in {"sending", "recompute"}
    BY <1>2, NextSession DEF SendAccepted, SendRefused, SendFailed
  <2>2. QED
    BY <1>1, <2>1 DEF SendAccepted, SendRefused, SendFailed, CountError
<1>4. ASSUME NEW k \in Personas, k # p
      PROVE  SessionsHold(k)' /\ Grouped(k)' /\ PlanFollowed(k)'
  <2>1. rows'[k] = rows[k] /\ sessions'[k] = sessions[k] /\ sessions[k] \in Seq(SessionRow)
    BY <1>1, <1>2, <1>4 DEF SendAccepted, SendRefused, SendFailed, StorePrompt, store, TypeOK
  <2>2. (Erred(k)' <=> Erred(k)) /\ ~Current(k)' /\ k # persona' /\ k # persona
    BY <1>1, <1>3, <1>4 DEF Erred, Current
  <2>3. SessionsHold(k) /\ Grouped(k) /\ PlanFollowed(k)
    BY DEF BInv
  <2>4. SessionsHold(k)' /\ Grouped(k)'
    BY <2>1, <2>2, <2>3, GroupsStay
  <2>5. Through(k)' => Through(k)
    BY <1>1, <1>2, <1>3 DEF Through, Sending, Verifying
  <2>6. PlanFollowed(k)'
    BY <2>1, <2>2, <2>3, <2>5 DEF PlanFollowed, Prompted
  <2>7. QED
    BY <2>4, <2>6
<1>5. SessionsHold(p)' /\ Grouped(p)'
  <2>1. CASE SendAccepted
    <3>1. PICK s : s = ServerSession
      OBVIOUS
    <3>2. StorePrompt(s) /\ MoveOn(s)
      BY <2>1, <3>1 DEF SendAccepted
    <3>3. QED
      BY <1>1, <1>2, <1>3, <3>1, <3>2, StoredGroups
  <2>2. CASE SendFailed
    <3>1. PICK s : s = ServerSession
      OBVIOUS
    <3>2. StorePrompt(s) /\ MoveOn(sessionId) /\ errors' > 0
      BY <1>2, <2>2, <3>1 DEF SendFailed, CountError
    <3>3. QED
      BY <1>1, <1>2, <1>3, <3>1, <3>2, StoredGroups
  <2>3. CASE SendRefused
    BY <1>1, <1>2, <2>3, RefusedGroups DEF SendRefused, store, CountError
  <2>4. QED
    BY <2>1, <2>2, <2>3
<1>6. PlanFollowed(p)'
  <2>1. CASE SendAccepted
    BY <1>1, <1>2, <2>1, AcceptedFollows
  <2>2. CASE SendRefused \/ SendFailed
    <3>1. errors' > 0
      BY <1>2, <2>2 DEF SendRefused, SendFailed, CountError
    <3>2. QED
      BY <1>3, <3>1 DEF PlanFollowed, Erred
  <2>3. QED
    BY <2>1, <2>2
<1>7. QED
  BY <1>4, <1>5, <1>6, SendPosition DEF BInv

-----------------------------------------------------------------------------
(* Every other step leaves the rows and the place in the plans alone; it   *)
(* may go on to another persona or stage.                                  *)
Onward ==
  \/ UNCHANGED <<pc, persona, errors>>
  \/ pc = "polling" /\ pc' \in {"sending", "not_ready"} /\ UNCHANGED <<persona, errors>>
  \/ pc' = "aborted" /\ UNCHANGED <<persona, errors>>
  \/ /\ pc = "recompute" /\ errors' = 0
     /\ IF persona < Len(Plans) THEN persona' = persona + 1 /\ pc' = "sending"
                                ELSE persona' = 1 /\ pc' = "risk"
  \/ pc \in Verifying /\ pc' \in Verifying /\ errors' = errors

LEMMA NothingSent ==
  ASSUME NEW k \in Personas, rows[k] = <<>>, burst = 1, next = 1
  PROVE  Prompted(k) = FlatBursts(k)[burst - 1] \o SubSeq(Plans[k][burst], 1, next - 1)
<1>1. Prompted(k) = <<>>
  BY DEF Prompted
<1>2. FlatBursts(k)[1 - 1] \o SubSeq(Plans[k][1], 1, 0) = FlatBursts(k)[1 - 1]
  BY PlanTypes, SentSoFar
<1>3. FlatBursts(k)[1 - 1] = <<>>
  <2>1. FlatBursts(k)[0] = <<>>
    BY FlatBurstsSteps
  <2>2. 1 - 1 = 0
    OBVIOUS
  <2>3. QED
    BY <2>1, <2>2
<1>4. QED
  BY <1>1, <1>2, <1>3

LEMMA OnwardStep ==
  ASSUME HInv, BInv, Onward, UNCHANGED <<rows, sessions, burst, next, sessionId>>,
         faults' \in {faults, faults + 1}, \A k \in Personas : Erred(k)' <=> Erred(k)
  PROVE  BInv'
<1>1. /\ TypeOK /\ AtStart /\ persona \in Personas /\ faults \in Nat
      /\ persona \in Int /\ Len(Plans) \in Int /\ Personas = 1 .. Len(Plans)
  <2>1. TypeOK /\ faults \in 0 .. MaxFaults
    BY DEF HInv, TypeOK
  <2>2. faults \in Nat
    BY <2>1, HarnessAssumption
  <2>3. AtStart /\ persona \in Personas
    BY DEF HInv, TypeOK
  <2>4. Len(Plans) \in Int /\ Personas = 1 .. Len(Plans)
    BY HarnessAssumption, PlanTypes
  <2>5. persona \in Int
    BY <2>3, <2>4
  <2>6. QED
    BY <2>1, <2>2, <2>3, <2>4, <2>5
<1>2. Position'
  <2>0. faults > 0 => faults' > 0
    BY <1>1
  <2>1. \A k \in Personas : Erred(k)' => faults' > 0
    BY <2>0 DEF BInv, Position
  <2>2. /\ pc' = "polling" => \A k \in Personas : rows[k] = <<>>
        /\ pc' \in Sending => \A k \in Personas : k > persona' => rows[k] = <<>>
    BY <1>1 DEF Onward, BInv, Position, Sending, Verifying
  <2>3. /\ pc' \notin {"sending", "aborted"} => sessionId = 0
        /\ pc' = "sending" => sessionId = 0 \/ sessionId \in DOMAIN sessions[persona']
        /\ pc' \notin {"sending", "recompute", "aborted"} => errors' = 0
    BY DEF Onward, BInv, Position, Sending, Verifying
  <2>4. QED
    BY <2>1, <2>2, <2>3 DEF Position
<1>3. ASSUME NEW k \in Personas
      PROVE  /\ k = persona' => sessionId' = 0 \/ (k = persona /\ sessionId' = sessionId)
             /\ Current(k)' => \/ rows[k] = <<>> /\ burst = 1 /\ next = 1
                               \/ Current(k)
             /\ Through(k)' => Through(k) \/ (k = persona /\ pc = "recompute")
             /\ k = persona' /\ pc' = "recompute" => k = persona /\ pc = "recompute"
  <2>1. k \in Int /\ k <= Len(Plans)
    BY <1>1
  <2>2. CASE UNCHANGED <<pc, persona, errors>>
    BY <2>2 DEF Current, Through
  <2>3. CASE pc = "polling" /\ pc' \in {"sending", "not_ready"} /\ UNCHANGED <<persona, errors>>
    <3>1. rows[k] = <<>> /\ burst = 1 /\ next = 1 /\ sessionId = 0 /\ persona = 1
      BY <1>1, <2>3 DEF BInv, Position, AtStart
    <3>2. ~(k < persona)
      BY <1>1, <3>1
    <3>3. QED
      BY <2>3, <3>1, <3>2 DEF Current, Through, Sending, Verifying
  <2>4. CASE pc' = "aborted" /\ UNCHANGED <<persona, errors>>
    BY <2>4 DEF Current, Through, Sending, Verifying
  <2>5. CASE /\ pc = "recompute"
             /\ IF persona < Len(Plans) THEN persona' = persona + 1 /\ pc' = "sending"
                                        ELSE persona' = 1 /\ pc' = "risk"
    <3>1. sessionId = 0 /\ burst = 1 /\ next = 1
      BY <1>1, <2>5 DEF BInv, Position, AtStart
    <3>2. k > persona => rows[k] = <<>>
      BY <2>5 DEF BInv, Position, Sending
    <3>3. CASE persona < Len(Plans)
      <4>1. persona' = persona + 1 /\ pc' = "sending" /\ (k = persona + 1 => k > persona)
            /\ (k < persona + 1 => k < persona \/ k = persona)
        BY <1>1, <2>1, <2>5, <3>3
      <4>2. QED
        BY <2>5, <3>1, <3>2, <4>1 DEF Current, Through, Sending, Verifying
    <3>4. CASE ~(persona < Len(Plans))
      <4>1. pc' = "risk" /\ (k < persona \/ k = persona)
        BY <1>1, <2>1, <2>5, <3>4
      <4>2. QED
        BY <2>5, <3>1, <4>1 DEF Current, Through, Sending, Verifying
    <3>5. QED
      BY <3>3, <3>4
  <2>6. CASE pc \in Verifying /\ pc' \in Verifying
    BY <2>6 DEF BInv, Position, Current, Through, Verifying
  <2>7. QED
    BY <2>2, <2>3, <2>4, <2>5, <2>6 DEF Onward
<1>4. ASSUME NEW k \in Personas
      PROVE  SessionsHold(k)' /\ Grouped(k)' /\ PlanFollowed(k)'
  <2>1. SessionsHold(k) /\ Grouped(k) /\ PlanFollowed(k) /\ sessions[k] \in Seq(SessionRow)
    BY <1>1 DEF BInv, TypeOK
  <2>2. SessionsHold(k)' /\ Grouped(k)'
    BY <1>3, <2>1, GroupsStay
  <2>3. Prompted(k)' = Prompted(k)
    BY DEF Prompted
  <2>4. PlanFollowed(k)'
    <3>1. CASE Erred(k)
      BY <3>1 DEF PlanFollowed
    <3>2. CASE ~Erred(k)
      <4>1. Through(k)' \/ (k = persona' /\ pc' = "recompute") => Prompted(k)' = FlatPlan(k)
        BY <1>3, <2>1, <2>3, <3>2 DEF PlanFollowed
      <4>2. Current(k)' => Prompted(k)' =
              FlatBursts(k)[burst - 1] \o SubSeq(Plans[k][burst], 1, next - 1)
        BY <1>3, <2>1, <2>3, <3>2, NothingSent DEF PlanFollowed
      <4>3. QED
        BY <4>1, <4>2 DEF PlanFollowed
    <3>3. QED
      BY <3>1, <3>2
  <2>5. QED
    BY <2>2, <2>4
<1>5. QED
  BY <1>2, <1>4 DEF BInv

(* Who has an error is a matter of the rows that failed and the count; the *)
(* recompute turns the one into the other, the verdicts add other rows.    *)
LEMMA ErrorsStay ==
  ASSUME UNCHANGED <<persona, errors, failed>>
  PROVE  \A k \in Personas : Erred(k)' <=> Erred(k)
BY DEF Erred

LEMMA OtherCriteria ==
  ASSUME FetchRisk \/ FetchDominant \/ FetchTotal \/ ResetAnswer
  PROVE  \E criterion \in Criteria \ {"all requests accepted"} :
           failed' \in {failed, failed \cup {<<persona, criterion>>}}
<1>1. {"risk_score", "dominant_pattern", "alert raised", "no alert", "reset"}
        \subseteq Criteria \ {"all requests accepted"}
  BY DEF Criteria
<1>2. \E c \in {"risk_score", "dominant_pattern", "alert raised", "no alert", "reset"} :
        failed' \in {failed, failed \cup {<<persona, c>>}}
  BY DEF FetchRisk, FetchDominant, FetchTotal, ResetAnswer, Check
<1>3. QED
  BY <1>1, <1>2

LEMMA NoneIsNone == ~(0 > 0)
OBVIOUS

LEMMA ErrorsKept ==
  ASSUME errors' = 0, errors = 0,
         NEW criterion \in Criteria \ {"all requests accepted"},
         failed' \in {failed, failed \cup {<<persona, criterion>>}}
  PROVE  \A k \in Personas : Erred(k)' <=> Erred(k)
<1> SUFFICES ASSUME NEW k \in Personas PROVE Erred(k)' <=> Erred(k)
  OBVIOUS
<1>1. ~(errors > 0) /\ ~(errors' > 0)
  BY NoneIsNone
<1>2. <<k, "all requests accepted">> # <<persona, criterion>>
  OBVIOUS
<1>3. <<k, "all requests accepted">> \in failed' <=> <<k, "all requests accepted">> \in failed
  BY <1>2
<1>4. QED
  BY <1>1, <1>3 DEF Erred

LEMMA ErrorsAreRows ==
  ASSUME errors \in Nat, Recompute \/ RecomputeRefused, NEW k \in Personas
  PROVE  <<k, "all requests accepted">> \in failed'
           <=> <<k, "all requests accepted">> \in failed \/ (k = persona /\ errors > 0)
<1>1. <<k, "all requests accepted">> # <<persona, "admin recompute">>
  OBVIOUS
<1>2. <<k, "all requests accepted">> = <<persona, "all requests accepted">> <=> k = persona
  OBVIOUS
<1>3. CASE Recompute /\ errors = 0
  <2>1. failed' = failed /\ ~(errors > 0)
    BY <1>3 DEF Recompute, Check
  <2>2. QED
    BY <2>1
<1>4. CASE Recompute /\ errors # 0
  <2>1. failed' = failed \cup {<<persona, "all requests accepted">>}
    BY <1>4 DEF Recompute, Check
  <2>2. errors > 0
    BY <1>4
  <2>3. QED
    BY <1>2, <2>1, <2>2
<1>5. CASE RecomputeRefused /\ errors > 0
  <2>1. failed' = failed \cup {<<persona, "admin recompute">>}
                    \cup {<<persona, "all requests accepted">>}
    BY <1>5 DEF RecomputeRefused
  <2>2. QED
    BY <1>1, <1>2, <1>5, <2>1
<1>6. CASE RecomputeRefused /\ ~(errors > 0)
  <2>1. failed' = failed \cup {<<persona, "admin recompute">>}
    BY <1>6 DEF RecomputeRefused
  <2>2. QED
    BY <1>1, <1>6, <2>1
<1>7. QED
  BY <1>3, <1>4, <1>5, <1>6

LEMMA BurstsStep == HInv /\ BInv /\ [Next]_vars => BInv'
<1> SUFFICES ASSUME HInv, BInv, [Next]_vars PROVE BInv'
  OBVIOUS
<1>1. TypeOK /\ AtStart /\ faults \in Nat /\ errors \in Nat
  <2>1. TypeOK /\ AtStart /\ faults \in 0 .. MaxFaults /\ errors \in Nat
    BY DEF HInv, TypeOK
  <2>2. faults \in Nat
    BY <2>1, HarnessAssumption
  <2>3. QED
    BY <2>1, <2>2
<1>2. CASE SendAccepted \/ SendRefused \/ SendFailed
  BY <1>2, SendBursts
<1>3. CASE UNCHANGED <<rows, sessions, pc, position, failed>> /\ faults' \in {faults, faults + 1}
  <2>1. Onward /\ UNCHANGED <<rows, sessions, burst, next, sessionId>>
        /\ faults' \in {faults, faults + 1}
    BY <1>3 DEF Onward, position
  <2>2. \A k \in Personas : Erred(k)' <=> Erred(k)
    BY <1>3, ErrorsStay DEF position
  <2>3. QED
    BY <2>1, <2>2, OnwardStep
<1>4. CASE \E k \in Personas : BackgroundCycle(k) \/ FailBackgroundCycle(k)
  BY <1>3, <1>4 DEF BackgroundCycle, FailBackgroundCycle, Fault
<1>5. CASE Poll \/ AbortRun \/ Backdate \/ ResetRecompute
  <2>1. UNCHANGED <<rows, sessions, position, failed>> /\ faults' \in {faults, faults + 1}
    BY <1>5 DEF Poll, AbortRun, Backdate, ResetRecompute, Fault, store
  <2>2. \A k \in Personas : Erred(k)' <=> Erred(k)
    BY <2>1, ErrorsStay DEF position
  <2>3. Onward
    BY <1>5, <2>1 DEF Onward, Poll, AbortRun, Backdate, ResetRecompute, position, Verifying
  <2>4. QED
    BY <2>1, <2>2, <2>3, OnwardStep DEF position
<1>6. CASE FetchRisk \/ FetchDominant \/ FetchTotal \/ ResetAnswer
  <2>1. UNCHANGED <<rows, sessions, burst, next, sessionId, errors, faults>>
    BY <1>6 DEF FetchRisk, FetchDominant, FetchTotal, ResetAnswer, NextVerdict, store, position
  <2>2. pc \in Verifying /\ pc' \in Verifying
    BY <1>6 DEF FetchRisk, FetchDominant, FetchTotal, ResetAnswer, NextVerdict, Verifying
  <2>3. errors = 0
    BY <2>2 DEF BInv, Position, Verifying
  <2>4. \E criterion \in Criteria \ {"all requests accepted"} :
          failed' \in {failed, failed \cup {<<persona, criterion>>}}
    BY <1>6, OtherCriteria
  <2>5. \A k \in Personas : Erred(k)' <=> Erred(k)
    <3>1. errors' = 0
      BY <2>1, <2>3
    <3>2. QED
      BY <2>3, <2>4, <3>1, ErrorsKept
  <2>6. QED
    BY <1>1, <2>1, <2>2, <2>5, OnwardStep DEF Onward
<1>7. CASE Recompute \/ RecomputeRefused
  <2>1. /\ pc = "recompute" /\ errors' = 0
        /\ IF persona < Len(Plans) THEN persona' = persona + 1 /\ pc' = "sending"
                                   ELSE persona' = 1 /\ pc' = "risk"
        /\ UNCHANGED <<rows, sessions, burst, next, sessionId>>
    BY <1>7 DEF Recompute, RecomputeRefused, NextPersona, store
  <2>2. faults' \in {faults, faults + 1}
    BY <1>7 DEF Recompute, RecomputeRefused, Fault
  <2>3. ASSUME NEW k \in Personas
        PROVE  <<k, "all requests accepted">> \in failed'
                 <=> <<k, "all requests accepted">> \in failed \/ (k = persona /\ errors > 0)
    BY <1>1, <1>7, ErrorsAreRows
  <2>4. ASSUME NEW k \in Personas PROVE Erred(k)' <=> Erred(k)
    <3>1. ~(errors' > 0)
      BY <2>1
    <3>2. QED
      BY <2>3, <3>1 DEF Erred
  <2>5. QED
    BY <2>1, <2>2, <2>4, OnwardStep DEF Onward
<1>8. CASE UNCHANGED vars
  BY <1>3, <1>8 DEF vars, store
<1>9. QED
  BY <1>2, <1>4, <1>5, <1>6, <1>7, <1>8 DEF Next, Step, Failure

LEMMA BurstsAlways == Spec => []BInv
<1>1. Spec => []HInv
  BY AlwaysHInv
<1>2. QED
  BY <1>1, InitBursts, BurstsStep, PTL DEF Spec

(* What the service counts as one session is one burst of the persona,     *)
(* whatever is refused or fails in between, for any plans and failures.    *)
THEOREM BurstsStayTogether == Spec => []BurstsAreSessions
<1>1. BInv => BurstsAreSessions
  <2> SUFFICES ASSUME BInv, NEW k \in Personas,
                      NEW i \in DOMAIN rows[k], NEW j \in DOMAIN rows[k]
               PROVE  /\ SameSession(k, i, j) => SameBurst(k, i, j)
                      /\ SameBurst(k, i, j) /\ i < j =>
                           \/ SameSession(k, i, j)
                           \/ faults > 0 /\ AloneInSession(k, i)
    BY DEF BurstsAreSessions
  <2>1. Grouped(k) /\ Position
    BY DEF BInv
  <2>2. Split(k, i) => faults > 0 /\ AloneInSession(k, i)
    BY <2>1 DEF Split, Position
  <2>3. QED
    BY <2>1, <2>2 DEF Grouped
<1>2. QED
  BY <1>1, BurstsAlways, PTL

(* The gate of a build: exit code 0 means that every prompt of every plan  *)
(* was stored once, in order, and each burst as one session, for any       *)
(* personas and plans, whatever failed and was left unanswered.            *)
THEOREM GreenIsWhole == Spec => []GreenMeansWholePlan
<1>1. TypeOK /\ BInv => GreenMeansWholePlan
  <2> SUFFICES ASSUME TypeOK, BInv, ExitCode = 0, NEW k \in Personas
               PROVE  /\ [i \in DOMAIN rows[k] |-> rows[k][i].prompt] = FlatPlan(k)
                      /\ \A i, j \in DOMAIN rows[k] :
                           SameSession(k, i, j) <=> SameBurst(k, i, j)
    BY DEF GreenMeansWholePlan
  <2>1. pc = "done" /\ failed = {}
    BY DEF ExitCode
  <2>2. ~Erred(k) /\ Through(k)
    BY <2>1 DEF Erred, Through, Verifying, BInv, Position
  <2>3. Grouped(k) /\ PlanFollowed(k)
    BY DEF BInv
  <2>4. [i \in DOMAIN rows[k] |-> rows[k][i].prompt] = FlatPlan(k)
    BY <2>2, <2>3 DEF PlanFollowed, Prompted
  <2>5. ASSUME NEW i \in DOMAIN rows[k], NEW j \in DOMAIN rows[k]
        PROVE  SameSession(k, i, j) <=> SameBurst(k, i, j)
    <3>1. i \in Int /\ j \in Int
      BY DEF TypeOK
    <3>2. SameBurst(k, i, j) /\ i < j => SameSession(k, i, j)
      BY <2>2, <2>3 DEF Grouped, Split
    <3>3. SameBurst(k, j, i) /\ j < i => SameSession(k, j, i)
      BY <2>2, <2>3 DEF Grouped, Split
    <3>4. SameSession(k, i, j) => SameBurst(k, i, j)
      BY <2>3 DEF Grouped
    <3>5. QED
      BY <3>1, <3>2, <3>3, <3>4 DEF SameSession, SameBurst
  <2>6. QED
    BY <2>4, <2>5
<1>2. HInv => TypeOK
  BY DEF HInv
<1>3. QED
  BY <1>1, <1>2, AlwaysHInv, BurstsAlways, PTL

-----------------------------------------------------------------------------
(* While nothing fails, a persona's sessions are its bursts, numbered      *)
(* alike, and the last session is that of the last row.                    *)
SessionsAreBursts(k) ==
  /\ \A i \in DOMAIN rows[k] : rows[k][i].session = BurstOf(k, rows[k][i].prompt)
  /\ rows[k] # <<>> => rows[k][Len(rows[k])].session = Len(sessions[k])

SessionsBegun ==
  /\ pc = "sending" =>
       /\ Len(sessions[persona]) = IF next = 1 THEN burst - 1 ELSE burst
       /\ sessionId = IF next = 1 THEN 0 ELSE burst
  /\ pc = "polling" => \A k \in Personas : sessions[k] = <<>>
  /\ pc \in Sending => \A k \in Personas : k > persona => sessions[k] = <<>>

SessionInv == faults = 0 => SessionsBegun /\ \A k \in Personas : SessionsAreBursts(k)

LEMMA InitSessions == Init => SessionInv
<1>1. ASSUME Init PROVE \A k \in Personas : rows[k] = <<>> /\ sessions[k] = <<>>
  BY <1>1 DEF Init
<1>2. QED
  BY <1>1 DEF Init, SessionInv, SessionsBegun, SessionsAreBursts, Sending

(* The session of an event is the one numbered like its burst.             *)
LEMMA SessionOfBurst ==
  ASSUME TypeOK, BInv, SessionsBegun, pc = "sending"
  PROVE  /\ ServerSession = burst
         /\ Len(WithEvent(sessions[persona], ServerSession, Now)) = burst
<1>1. PICK ses, s, b : ses = sessions[persona] /\ s = ServerSession /\ b = burst
  OBVIOUS
<1>2. ses \in Seq(SessionRow) /\ Len(ses) \in Nat /\ DOMAIN ses = 1 .. Len(ses)
  BY <1>1 DEF TypeOK
<1>3. b \in Nat \ {0}
  BY <1>1, PlanTypes DEF TypeOK
<1>4. /\ \/ s = sessionId /\ s \in DOMAIN ses
         \/ sessionId = 0 /\ s \notin DOMAIN ses
      /\ s \notin DOMAIN ses => s = Len(ses) + 1
  <2>1. \/ s = sessionId /\ s \in DOMAIN ses
        \/ sessionId = 0 /\ s \notin DOMAIN ses
    BY <1>1, SessionOfEvent
  <2>2. 0 \notin DOMAIN ses
    BY <1>2
  <2>3. sessionId = 0 => s = Len(ses) + 1
    BY <1>1, <2>2 DEF ServerSession, ResolveOrCreateSession
  <2>4. QED
    BY <2>1, <2>3
<1>5. /\ next = 1 => sessionId = 0 /\ Len(ses) = b - 1
      /\ next # 1 => sessionId = b /\ Len(ses) = b
  BY <1>1 DEF SessionsBegun
<1>6. CASE next = 1
  <2>1. s = b /\ s \notin DOMAIN ses
    BY <1>2, <1>3, <1>4, <1>5, <1>6
  <2>2. PICK row : row = [startedAt |-> Now, lastEventAt |-> Now, interactionCount |-> 1]
    OBVIOUS
  <2>3. WithEvent(ses, s, Now) = Append(ses, row)
    BY <2>1, <2>2 DEF WithEvent
  <2>4. Len(Append(ses, row)) = Len(ses) + 1
    BY <1>2
  <2>5. QED
    BY <1>1, <1>3, <1>5, <1>6, <2>1, <2>3, <2>4
<1>7. CASE next # 1
  <2>1. s = b /\ s \in DOMAIN ses
    BY <1>2, <1>3, <1>4, <1>5, <1>7
  <2>2. PICK t : t = WithEvent(ses, s, Now)
    OBVIOUS
  <2>3. t = [ses EXCEPT ![s].lastEventAt = Now, ![s].interactionCount = @ + 1]
    BY <2>1, <2>2 DEF WithEvent
  <2>4. t \in Seq(SessionRow) /\ DOMAIN t = DOMAIN ses
    BY <1>2, <2>2, <2>3, StoredSessions
  <2>5. Len(t) = Len(ses)
    BY <1>2, <2>4
  <2>6. QED
    BY <1>1, <1>5, <1>7, <2>1, <2>2, <2>5
<1>8. QED
  BY <1>6, <1>7

LEMMA SessionsAccepted ==
  ASSUME TypeOK, BInv, faults = 0, SessionInv, SendAccepted
  PROVE  SessionsBegun' /\ \A k \in Personas : SessionsAreBursts(k)'
<1>1. /\ pc = "sending" /\ SessionsBegun /\ \A k \in Personas : SessionsAreBursts(k)
      /\ StorePrompt(ServerSession) /\ MoveOn(ServerSession)
  BY DEF SessionInv, SendAccepted
<1>2. PICK s, b, p : s = ServerSession /\ b = burst /\ p = persona
  OBVIOUS
<1>3. /\ s = b /\ Len(WithEvent(sessions[p], s, Now)) = b
  BY <1>1, <1>2, SessionOfBurst
<1>4. /\ p \in Personas /\ sessions \in [Personas -> Seq(SessionRow)]
      /\ rows \in [Personas -> Seq(Row)]
      /\ b \in DOMAIN Plans[p] /\ next \in DOMAIN Plans[p][b]
  BY <1>2 DEF TypeOK, Row
<1>5. next \in Nat \ {0} /\ b \in Nat \ {0} /\ next + 1 # 1
  BY <1>4, PlanTypes
<1>6. PICK r : r = [prompt |-> Plans[p][b][next], session |-> s]
  OBVIOUS
<1>7. /\ sessions' = [sessions EXCEPT ![p] = WithEvent(@, s, Now)]
      /\ rows' = [rows EXCEPT ![p] = Append(@, r)]
  BY <1>1, <1>2, <1>6 DEF StorePrompt
<1>8. /\ Len(sessions'[p]) = b /\ rows'[p] = Append(rows[p], r)
      /\ \A k \in Personas \ {p} : sessions'[k] = sessions[k] /\ rows'[k] = rows[k]
  BY <1>3, <1>4, <1>7
<1>9. /\ persona' = p /\ pc' \in {"sending", "recompute"}
      /\ \/ pc' = "sending" /\ burst' = b /\ next' = next + 1 /\ sessionId' = s
         \/ pc' = "sending" /\ burst' = b + 1 /\ next' = 1 /\ sessionId' = 0
         \/ pc' = "recompute" /\ sessionId' = 0
  BY <1>1, <1>2, NextSession
<1>10. SessionsBegun'
  <2>1. pc' = "sending" =>
          /\ Len(sessions'[persona']) = IF next' = 1 THEN burst' - 1 ELSE burst'
          /\ sessionId' = IF next' = 1 THEN 0 ELSE burst'
    BY <1>3, <1>5, <1>8, <1>9
  <2>2. ASSUME NEW k \in Personas, k > persona' PROVE sessions'[k] = <<>>
    <3>1. k \in Int /\ p \in Int /\ k > p
      BY <1>4, <1>9, <2>2, PlanTypes
    <3>2. sessions[k] = <<>>
      BY <1>1, <1>2, <3>1 DEF SessionsBegun, Sending
    <3>3. k # p
      BY <3>1
    <3>4. QED
      BY <1>8, <3>2, <3>3
  <2>3. QED
    BY <1>9, <2>1, <2>2 DEF SessionsBegun
<1>11. ASSUME NEW k \in Personas PROVE SessionsAreBursts(k)'
  <2>1. CASE k # p
    BY <1>1, <1>8, <2>1 DEF SessionsAreBursts
  <2>2. CASE k = p
    <3>1. PICK q, n : q = rows[p] /\ n = Len(q)
      OBVIOUS
    <3>2. q \in Seq(Row) /\ n \in Nat /\ DOMAIN q = 1 .. n
      BY <1>4, <3>1
    <3>3. PICK w : w = Append(q, r)
      OBVIOUS
    <3>4. Len(w) = n + 1 /\ DOMAIN w = 1 .. n + 1 /\ w[n + 1] = r
          /\ \A i \in 1 .. n : w[i] = q[i]
      BY <3>1, <3>2, <3>3
    <3>5. r.session = b /\ BurstOf(p, r.prompt) = b
      <4>1. BurstOf(p, Plans[p][b][next]) = b
        BY <1>4, BurstOfPlace
      <4>2. QED
        BY <1>3, <1>6, <4>1
    <3>6. \A i \in 1 .. n : q[i].session = BurstOf(p, q[i].prompt)
      BY <1>1, <1>4, <3>1, <3>2 DEF SessionsAreBursts
    <3>7. ASSUME NEW i \in 1 .. n + 1 PROVE w[i].session = BurstOf(p, w[i].prompt)
      <4>1. i \in 1 .. n \/ i = n + 1
        BY <3>2
      <4>2. QED
        BY <3>4, <3>5, <3>6, <4>1
    <3>8. rows'[k] = w
      BY <1>8, <2>2, <3>1, <3>3
    <3>9. /\ \A i \in DOMAIN rows'[k] : rows'[k][i].session = BurstOf(k, rows'[k][i].prompt)
          /\ rows'[k][Len(rows'[k])].session = Len(sessions'[k])
      BY <1>8, <2>2, <3>4, <3>5, <3>7, <3>8
    <3>10. QED
      BY <3>9 DEF SessionsAreBursts, BurstOf
  <2>3. QED
    BY <2>1, <2>2
<1>12. QED
  BY <1>10, <1>11

(* A step that stores nothing and after which the harness does not send.   *)
LEMMA SessionsKept ==
  ASSUME faults = 0, SessionInv, sessions' = sessions, rows' = rows,
         \/ pc' = pc /\ UNCHANGED <<persona, burst, next, sessionId>>
         \/ pc' \notin {"polling", "sending", "recompute"}
  PROVE  SessionInv'
<1>1. SessionsBegun /\ \A k \in Personas : SessionsAreBursts(k)
  BY DEF SessionInv
<1>2. \A k \in Personas : SessionsAreBursts(k)'
  BY <1>1 DEF SessionsAreBursts, BurstOf
<1>3. SessionsBegun'
  BY <1>1 DEF SessionsBegun, Sending
<1>4. QED
  BY <1>2, <1>3 DEF SessionInv

LEMMA SessionStep == HInv /\ BInv /\ SessionInv /\ [Next]_vars => SessionInv'
<1> SUFFICES ASSUME HInv, BInv, SessionInv, [Next]_vars, faults' = 0
             PROVE  SessionInv'
  BY DEF SessionInv
<1>1. TypeOK /\ AtStart /\ faults \in Nat
  <2>1. TypeOK /\ AtStart /\ faults \in 0 .. MaxFaults
    BY DEF HInv, TypeOK
  <2>2. QED
    BY <2>1, HarnessAssumption
<1>2. ~Fault
  BY <1>1 DEF Fault
<1>3. ~Failure /\ \A j \in Personas : ~FailBackgroundCycle(j)
  BY <1>2 DEF Failure, SendRefused, SendFailed, RecomputeRefused, AbortRun, FailBackgroundCycle
<1>4. CASE Poll
  <2>1. /\ pc = "polling" /\ pc' \in {"polling", "sending", "not_ready"}
        /\ UNCHANGED <<rows, sessions, persona, burst, next, sessionId, faults>>
    BY <1>4 DEF Poll, store, position
  <2>2. persona = 1 /\ burst = 1 /\ next = 1 /\ sessionId = 0
    BY <1>1, <2>1 DEF AtStart, BInv, Position
  <2>3. /\ \A k \in Personas : sessions[k] = <<>> /\ SessionsAreBursts(k)
        /\ SessionsBegun
    BY <2>1 DEF SessionInv, SessionsBegun
  <2>4. CASE pc' = "sending"
    <3>1. Len(sessions[1]) = 0
      BY <2>3, PlanTypes
    <3>2. SessionsBegun'
      BY <2>1, <2>2, <2>3, <2>4, <3>1 DEF SessionsBegun
    <3>3. \A k \in Personas : SessionsAreBursts(k)'
      BY <2>1, <2>3 DEF SessionsAreBursts, BurstOf
    <3>4. QED
      BY <3>2, <3>3 DEF SessionInv
  <2>5. CASE pc' # "sending"
    BY <2>1, <2>5, SessionsKept
  <2>6. QED
    BY <2>4, <2>5
<1>5. CASE SendAccepted
  <2>1. faults = 0
    BY <1>5 DEF SendAccepted
  <2>2. QED
    BY <1>1, <1>5, <2>1, SessionsAccepted DEF SessionInv
<1>6. CASE Recompute
  <2>1. /\ pc = "recompute" /\ persona \in Personas
        /\ UNCHANGED <<rows, sessions, burst, next, sessionId, faults>>
        /\ IF persona < Len(Plans) THEN persona' = persona + 1 /\ pc' = "sending"
                                   ELSE persona' = 1 /\ pc' = "risk"
    BY <1>1, <1>6 DEF Recompute, NextPersona, store, TypeOK
  <2>2. burst = 1 /\ next = 1 /\ sessionId = 0
    BY <1>1, <2>1 DEF AtStart, BInv, Position
  <2>3. /\ \A k \in Personas : SessionsAreBursts(k)
        /\ \A k \in Personas : k > persona => sessions[k] = <<>>
    BY <2>1 DEF SessionInv, SessionsBegun, Sending
  <2>4. CASE persona < Len(Plans)
    <3>1. persona + 1 \in Personas /\ persona \in Int /\ persona + 1 > persona
          /\ \A k \in Personas : k \in Int
      BY <2>1, <2>4, PlanTypes
    <3>2. Len(sessions[persona + 1]) = 0
      BY <2>3, <3>1
    <3>3. \A k \in Personas : k > persona + 1 => sessions[k] = <<>>
      BY <2>3, <3>1
    <3>4. SessionsBegun'
      BY <2>1, <2>2, <2>4, <3>2, <3>3 DEF SessionsBegun
    <3>5. \A k \in Personas : SessionsAreBursts(k)'
      BY <2>1, <2>3 DEF SessionsAreBursts, BurstOf
    <3>6. QED
      BY <3>4, <3>5 DEF SessionInv
  <2>5. CASE ~(persona < Len(Plans))
    BY <2>1, <2>5, SessionsKept
  <2>6. QED
    BY <2>4, <2>5
<1>7. CASE FetchRisk \/ FetchDominant \/ FetchTotal \/ Backdate \/ ResetRecompute \/ ResetAnswer
  <2>1. /\ pc' \notin {"polling", "sending", "recompute"}
        /\ UNCHANGED <<rows, sessions, faults>>
    BY <1>7 DEF FetchRisk, FetchDominant, FetchTotal, NextVerdict, Backdate, ResetRecompute,
                ResetAnswer, store
  <2>2. QED
    BY <2>1, SessionsKept
<1>8. CASE \E j \in Personas : BackgroundCycle(j)
  <2>1. UNCHANGED <<rows, sessions, pc, persona, burst, next, sessionId, faults>>
    BY <1>8 DEF BackgroundCycle, position
  <2>2. QED
    BY <2>1, SessionsKept
<1>9. CASE UNCHANGED vars
  <2>1. UNCHANGED <<rows, sessions, pc, persona, burst, next, sessionId, faults>>
    BY <1>9 DEF vars, store, position
  <2>2. QED
    BY <2>1, SessionsKept
<1>10. QED
  BY <1>3, <1>4, <1>5, <1>6, <1>7, <1>8, <1>9 DEF Next, Step

LEMMA SessionsAlways == Spec => []SessionInv
<1>1. QED
  BY AlwaysHInv, BurstsAlways, InitSessions, SessionStep, PTL DEF Spec

-----------------------------------------------------------------------------
(* How timing moves a score. Rounding keeps the order of scores.           *)
LEMMA RoundedKeepsOrder ==
  ASSUME NEW s \in 0 .. Cap, NEW t \in 0 .. Cap, s <= t
  PROVE  Rounded(s) <= Rounded(t)
<1>1. PICK q, r : q = Rounded(s) /\ r = Rounded(t)
  OBVIOUS
<1>2. q \in Stored /\ Nearest(q, s) /\ r \in Stored /\ Nearest(r, t)
  BY <1>1, RoundedIsNearest
<1>3. q \in 0 .. Cap /\ r \in 0 .. Cap /\ s \in Int /\ t \in Int
  BY <1>2, ScoringAssumption
<1>4. Distance(q, s) <= Distance(r, s) /\ Distance(r, t) <= Distance(q, t)
  BY <1>2 DEF Nearest
<1>5. s = t => q = r
  BY <1>1
<1>6. q <= r
  BY <1>3, <1>4, <1>5 DEF Distance
<1>7. QED
  BY <1>1, <1>6

LEMMA GrownIsCapped ==
  ASSUME NEW s \in 0 .. Cap, NEW g \in Nat
  PROVE  Grown(s, g) \in 0 .. Cap
<1>1. Accumulate(s, g, 0) \in 0 .. Cap
  BY ScoringAssumption DEF Accumulate, DecayFactor
<1>2. QED
  BY <1>1, RoundedIsNearest, ScoringAssumption DEF Grown

LEMMA GrownKeepsOrder ==
  ASSUME NEW s \in 0 .. Cap, NEW t \in 0 .. Cap, s <= t, NEW g \in Nat, NEW h \in Nat, g <= h
  PROVE  Grown(s, g) <= Grown(t, h)
<1>1. PICK x, y : x = Accumulate(s, g, 0) /\ y = Accumulate(t, h, 0)
  OBVIOUS
<1>2. x \in 0 .. Cap /\ y \in 0 .. Cap /\ x <= y
  BY <1>1, ScoringAssumption DEF Accumulate, DecayFactor
<1>3. QED
  BY <1>1, <1>2, RoundedKeepsOrder DEF Grown

(* The scores after some gains, defined by recursion.                      *)
ScoreStep(score, gains, i) == IF i = 0 THEN 0 ELSE Grown(score[i - 1], gains[i])

LEMMA ScoresExist ==
  ASSUME NEW gains, NEW N \in Nat
  PROVE  \E score : score = [i \in 0 .. N |-> ScoreStep(score, gains, i)]
<1> DEFINE Sol(score, m) == score = [i \in 0 .. m |-> ScoreStep(score, gains, i)]
           T == {m \in Nat : ~\E score : Sol(score, m)}
<1>1. CASE T = {}
  BY <1>1
<1>2. CASE T # {}
  <2>1. PICK m \in T : \A t \in T : m <= t
    <3> HIDE DEF T
    <3>1. T \subseteq Nat
      BY DEF T
    <3>2. QED
      BY <1>2, <3>1, LeastExists
  <2>2. \A t \in Nat : t < m => t \notin T
    <3>1. m \in Nat
      OBVIOUS
    <3> HIDE DEF T
    <3>2. QED
      BY <2>1, <3>1
  <2>3. m \in Nat /\ ~\E score : Sol(score, m)
    OBVIOUS
  <2>4. CASE m = 0
    <3>1. Sol([i \in 0 .. 0 |-> 0], m)
      BY <2>4 DEF ScoreStep
    <3>2. QED
      BY <2>3, <3>1
  <2>5. CASE m # 0
    <3>1. m - 1 \in Nat /\ m - 1 < m
      BY <2>3, <2>5
    <3>2. PICK f : Sol(f, m - 1)
      BY <2>2, <3>1
    <3>3. PICK g : g = [i \in 0 .. m |-> IF i = m THEN Grown(f[m - 1], gains[m]) ELSE f[i]]
      OBVIOUS
    <3>4. \A i \in 0 .. m - 1 : g[i] = f[i]
      BY <2>3, <3>3
    <3>5. \A i \in 0 .. m - 1 : f[i] = ScoreStep(f, gains, i)
      BY <3>2
    <3>6. \A i \in 0 .. m : g[i] = ScoreStep(g, gains, i)
      <4> SUFFICES ASSUME NEW i \in 0 .. m PROVE g[i] = ScoreStep(g, gains, i)
        OBVIOUS
      <4>1. CASE i = m
        <5>1. g[m] = Grown(f[m - 1], gains[m]) /\ m - 1 \in 0 .. m - 1
          BY <2>3, <2>5, <3>1, <3>3
        <5>2. QED
          BY <2>5, <3>4, <4>1, <5>1 DEF ScoreStep
      <4>2. CASE i = 0
        <5>1. 0 \in 0 .. m - 1
          BY <3>1
        <5>2. QED
          BY <3>4, <3>5, <4>2, <5>1 DEF ScoreStep
      <4>3. CASE i # m /\ i # 0
        <5>1. i \in 0 .. m - 1 /\ i - 1 \in 0 .. m - 1
          BY <2>3, <4>3
        <5>2. QED
          BY <3>4, <3>5, <4>3, <5>1 DEF ScoreStep
      <4>4. QED
        BY <4>1, <4>2, <4>3
    <3>7. Sol(g, m)
      BY <3>3, <3>6
    <3>8. QED
      BY <2>3, <3>7
  <2>6. QED
    BY <2>4, <2>5
<1>3. QED
  BY <1>1, <1>2

LEMMA ScoresStep ==
  ASSUME NEW gains, NEW N \in Nat, Len(gains) = N
  PROVE  /\ ScoresAfter(gains)[0] = 0
         /\ \A i \in 1 .. N : ScoresAfter(gains)[i] = Grown(ScoresAfter(gains)[i - 1], gains[i])
<1>1. ScoresAfter(gains) = CHOOSE score : score = [i \in 0 .. N |->
                             IF i = 0 THEN 0 ELSE Grown(score[i - 1], gains[i])]
  BY DEF ScoresAfter
<1>2. \E score : score = [i \in 0 .. N |->
                    IF i = 0 THEN 0 ELSE Grown(score[i - 1], gains[i])]
  BY ScoresExist DEF ScoreStep
<1>3. PICK f : f = ScoresAfter(gains)
  OBVIOUS
<1>4. f = [i \in 0 .. N |-> IF i = 0 THEN 0 ELSE Grown(f[i - 1], gains[i])]
  BY <1>1, <1>2, <1>3
<1>5. 0 \in 0 .. N /\ \A i \in 1 .. N : i \in 0 .. N /\ i # 0
  OBVIOUS
<1>6. QED
  BY <1>3, <1>4, <1>5

-----------------------------------------------------------------------------
LEMMA GreatestExists ==
  ASSUME NEW S \in SUBSET Nat, S # {}, NEW bound \in Nat, \A s \in S : s <= bound
  PROVE  \E m \in S : \A s \in S : s <= m
<1>1. PICK U : U = {u \in Nat : \A s \in S : s <= u}
  OBVIOUS
<1>2. U \in SUBSET Nat /\ U # {}
  BY <1>1
<1>3. PICK u \in U : \A v \in U : u <= v
  BY <1>2, LeastExists
<1>4. u \in Nat /\ \A s \in S : s <= u
  BY <1>1
<1>5. u \in S
  <2>1. SUFFICES ASSUME u \notin S PROVE FALSE
    OBVIOUS
  <2>2. PICK s \in S : TRUE
    OBVIOUS
  <2>3. \A x \in S : x \in Nat /\ x < u
    BY <1>4, <2>1
  <2>4. u - 1 \in Nat /\ \A x \in S : x <= u - 1
    BY <1>4, <2>2, <2>3
  <2>5. u - 1 \in U
    BY <1>1, <2>4
  <2>6. QED
    BY <1>3, <1>4, <2>5
<1>6. QED
  BY <1>4, <1>5

LEMMA ProductGrows ==
  ASSUME NEW a \in Nat, NEW b \in Nat, NEW c \in Nat, b <= c
  PROVE  a * b <= a * c
BY SMT

LEMMA GainIsNatural ==
  ASSUME NEW window \in SUBSET Ids
  PROVE  /\ Gain(window) \in Nat
         /\ Gain(window) <= ComputeInstantaneousScore([t \in Techniques |-> SignalMax])
<1>1. Detect(window).signals \in Signals
  BY ProfileAssumption DEF Verdict
<1>2. PICK sig : sig = Detect(window).signals
  OBVIOUS
<1>3. {"probing", "escalation", "enumeration"} \subseteq Techniques
  BY DEF Techniques
<1>4. \A t \in Techniques : Weight[t] \in Nat /\ sig[t] \in Nat /\ SignalMax \in Nat
                            /\ sig[t] <= SignalMax
  BY <1>1, <1>2, ScoringAssumption DEF Signals
<1>5. \A t \in Techniques : /\ Weight[t] * sig[t] \in Nat /\ Weight[t] * SignalMax \in Nat
                            /\ Weight[t] * sig[t] <= Weight[t] * SignalMax
  BY <1>4, ProductGrows, ProductIsNatural
<1> DEFINE a(t) == Weight[t] * sig[t]
           b(t) == Weight[t] * SignalMax
<1>6. ComputeInstantaneousScore(sig) = a("probing") + a("escalation") + a("enumeration")
  BY DEF ComputeInstantaneousScore
<1>7. ComputeInstantaneousScore([t \in Techniques |-> SignalMax])
        = b("probing") + b("escalation") + b("enumeration")
  BY <1>3 DEF ComputeInstantaneousScore
<1>8. \A t \in Techniques : a(t) \in Nat /\ b(t) \in Nat /\ a(t) <= b(t)
  BY <1>5
<1> HIDE DEF a, b
<1>9. QED
  BY <1>2, <1>3, <1>6, <1>7, <1>8 DEF Gain

LEMMA FlatPlanType ==
  ASSUME NEW k \in Personas
  PROVE  /\ FlatPlan(k) \in Seq(Ids) /\ Len(FlatPlan(k)) \in Nat
         /\ \A n \in 0 .. Len(FlatPlan(k)) : WindowAfter(k, n) \in SUBSET Ids
<1>1. Len(Plans[k]) \in 0 .. Len(Plans[k])
  BY PlanTypes
<1>2. FlatPlan(k) \in Seq(Ids)
  BY <1>1, FlatBurstsType DEF FlatPlan
<1>3. Len(FlatPlan(k)) \in Nat /\ \A i \in 1 .. Len(FlatPlan(k)) : FlatPlan(k)[i] \in Ids
  BY <1>2
<1>4. QED
  BY <1>2, <1>3 DEF WindowAfter

LEMMA GainsHaveExtremes ==
  ASSUME NEW k \in Personas, NEW i \in 1 .. CyclesOf(k)
  PROVE  /\ GainsOf(k, i) \in SUBSET Nat
         /\ Min(GainsOf(k, i)) \in Nat /\ \A g \in GainsOf(k, i) : Min(GainsOf(k, i)) <= g
         /\ Max(GainsOf(k, i)) \in Nat /\ \A g \in GainsOf(k, i) : g <= Max(GainsOf(k, i))
<1>1. PICK n \in Nat : n = Len(FlatPlan(k))
  BY FlatPlanType
<1>2. PICK G : G = GainsOf(k, i)
  OBVIOUS
<1>3. i \in 1 .. n + 1 /\ (i .. n) \cup {n} \subseteq 0 .. n
  BY <1>1 DEF CyclesOf
<1>4. G = {Gain(WindowAfter(k, m)) : m \in (i .. n) \cup {n}}
  BY <1>1, <1>2 DEF GainsOf
<1>5. PICK bound : bound = ComputeInstantaneousScore([t \in Techniques |-> SignalMax])
  OBVIOUS
<1>6. \A m \in 0 .. n : Gain(WindowAfter(k, m)) \in Nat /\ Gain(WindowAfter(k, m)) <= bound
  BY <1>1, <1>5, FlatPlanType, GainIsNatural
<1>7. bound \in Nat
  <2>1. [t \in Techniques |-> SignalMax] \in Signals
    BY ScoringAssumption DEF Signals
  <2>2. QED
    BY <1>5, <2>1, InstantaneousScoreIsNatural
<1>8. G \in SUBSET Nat /\ G # {} /\ \A g \in G : g <= bound
  BY <1>3, <1>4, <1>6
<1>9. PICK low \in G : \A g \in G : low <= g
  BY <1>8, LeastExists
<1>10. PICK high \in G : \A g \in G : g <= high
  BY <1>7, <1>8, GreatestExists
<1>11. \A g \in G : g \in Nat
  BY <1>8
<1>12. Min(G) \in G /\ \A g \in G : Min(G) <= g
  BY <1>9 DEF Min
<1>13. Max(G) \in G /\ \A g \in G : g <= Max(G)
  <2>1. \A g \in G : high >= g
    BY <1>10, <1>11
  <2>2. Max(G) \in G /\ \A g \in G : Max(G) >= g
    BY <2>1 DEF Max
  <2>3. QED
    BY <1>11, <2>2
<1>14. QED
  BY <1>2, <1>8, <1>11, <1>12, <1>13

LEMMA ScoresType ==
  ASSUME NEW gains, NEW N \in Nat, Len(gains) = N, \A i \in 1 .. N : gains[i] \in Nat
  PROVE  \A i \in 0 .. N : ScoresAfter(gains)[i] \in 0 .. Cap
<1>1. PICK T : T = {i \in 0 .. N : ScoresAfter(gains)[i] \notin 0 .. Cap}
  OBVIOUS
<1>2. SUFFICES ASSUME T # {} PROVE FALSE
  BY <1>1
<1>3. PICK m \in T : \A t \in T : m <= t
  <2>1. T \subseteq Nat
    BY <1>1
  <2>2. QED
    BY <1>2, <2>1, LeastExists
<1>4. m \in 0 .. N /\ ScoresAfter(gains)[m] \notin 0 .. Cap
  BY <1>1
<1>5. m # 0
  <2>1. ScoresAfter(gains)[0] \in 0 .. Cap
    BY ScoresStep, ScoringAssumption
  <2>2. QED
    BY <1>4, <2>1
<1>6. m \in 1 .. N /\ m - 1 \in 0 .. N /\ m - 1 \notin T
  BY <1>3, <1>4, <1>5
<1>7. ScoresAfter(gains)[m - 1] \in 0 .. Cap /\ gains[m] \in Nat
  BY <1>1, <1>6
<1>8. ScoresAfter(gains)[m] \in 0 .. Cap
  BY <1>6, <1>7, ScoresStep, GrownIsCapped
<1>9. QED
  BY <1>4, <1>8

(* The two bounds, cycle by cycle.                                         *)
LEMMA BoundsGrow ==
  ASSUME NEW k \in Personas
  PROVE  /\ CyclesOf(k) \in Nat
         /\ LowestScores(k)[0] = 0 /\ HighestScores(k)[0] = 0
         /\ \A i \in 0 .. CyclesOf(k) :
              LowestScores(k)[i] \in 0 .. Cap /\ HighestScores(k)[i] \in 0 .. Cap
         /\ \A i \in 1 .. CyclesOf(k) :
              /\ LowestScores(k)[i] = Grown(LowestScores(k)[i - 1], Min(GainsOf(k, i)))
              /\ HighestScores(k)[i] = Grown(HighestScores(k)[i - 1], Max(GainsOf(k, i)))
<1>1. PICK N \in Nat : N = CyclesOf(k)
  BY FlatPlanType DEF CyclesOf
<1>2. PICK low, high : /\ low = [i \in 1 .. N |-> Min(GainsOf(k, i))]
                       /\ high = [i \in 1 .. N |-> Max(GainsOf(k, i))]
  OBVIOUS
<1>3. /\ \A i \in 1 .. N : low[i] \in Nat /\ high[i] \in Nat
      /\ \A i \in 1 .. N : low[i] = Min(GainsOf(k, i)) /\ high[i] = Max(GainsOf(k, i))
  BY <1>1, <1>2, GainsHaveExtremes
<1>4. Len(low) = N /\ Len(high) = N
  BY <1>2
<1>5. LowestScores(k) = ScoresAfter(low) /\ HighestScores(k) = ScoresAfter(high)
  BY <1>1, <1>2 DEF LowestScores, HighestScores
<1>6. ScoresAfter(low)[0] = 0 /\ ScoresAfter(high)[0] = 0
  BY <1>4, ScoresStep
<1>7. \A i \in 0 .. N : ScoresAfter(low)[i] \in 0 .. Cap /\ ScoresAfter(high)[i] \in 0 .. Cap
  BY <1>3, <1>4, ScoresType
<1>8. \A i \in 1 .. N : /\ ScoresAfter(low)[i] = Grown(ScoresAfter(low)[i - 1], low[i])
                        /\ ScoresAfter(high)[i] = Grown(ScoresAfter(high)[i - 1], high[i])
  BY <1>4, ScoresStep
<1>9. QED
  BY <1>1, <1>3, <1>5, <1>6, <1>7, <1>8

-----------------------------------------------------------------------------
(* What is stored of a persona is the beginning of its plan.               *)
Begins(q, w) == Len(q) <= Len(w) /\ \A i \in 1 .. Len(q) : q[i] = w[i]

LEMMA BeginsJoined ==
  ASSUME NEW q \in Seq(Ids), NEW r \in Seq(Ids), NEW n \in 0 .. Len(r)
  PROVE  /\ q \o SubSeq(r, 1, n) \in Seq(Ids)
         /\ Begins(q, q \o r)
         /\ Begins(q \o SubSeq(r, 1, n), q \o r)
<1>1. Len(q) \in Nat /\ Len(r) \in Nat
  OBVIOUS
<1>2. PICK s : s = SubSeq(r, 1, n)
  OBVIOUS
<1>3. s \in Seq(Ids) /\ Len(s) = n /\ \A i \in 1 .. n : s[i] = r[i]
  <2>1. \A i \in 1 .. n : r[i] \in Ids
    BY <1>1
  <2>2. QED
    BY <1>1, <1>2, <2>1, SubSeqProperties
<1>4. /\ q \o s \in Seq(Ids) /\ Len(q \o s) = Len(q) + n /\ Len(q \o r) = Len(q) + Len(r)
      /\ \A i \in 1 .. Len(q) + n : (q \o s)[i] = IF i <= Len(q) THEN q[i] ELSE s[i - Len(q)]
      /\ \A i \in 1 .. Len(q) + Len(r) :
           (q \o r)[i] = IF i <= Len(q) THEN q[i] ELSE r[i - Len(q)]
  BY <1>1, <1>3, ConcatProperties
<1>5. Begins(q, q \o r)
  BY <1>1, <1>4 DEF Begins
<1>6. ASSUME NEW i \in 1 .. Len(q) + n PROVE (q \o s)[i] = (q \o r)[i]
  <2>1. i \in 1 .. Len(q) + Len(r) /\ (~(i <= Len(q)) => i - Len(q) \in 1 .. n)
    BY <1>1
  <2>2. QED
    BY <1>3, <1>4, <2>1
<1>7. Begins(q \o s, q \o r)
  BY <1>1, <1>4, <1>6 DEF Begins
<1>8. QED
  BY <1>2, <1>4, <1>5, <1>7

LEMMA BeginsFurther ==
  ASSUME NEW p \in Seq(Ids), NEW q \in Seq(Ids), NEW r \in Seq(Ids), Begins(p, q), Begins(q, r)
  PROVE  Begins(p, r)
<1>1. Len(p) \in Nat /\ Len(q) \in Nat /\ Len(r) \in Nat
  OBVIOUS
<1>2. QED
  BY <1>1 DEF Begins

LEMMA BurstsBeginPlan ==
  ASSUME NEW k \in Personas, NEW b \in 0 .. Len(Plans[k])
  PROVE  Begins(FlatBursts(k)[b], FlatPlan(k))
<1>1. PICK L \in Nat : L = Len(Plans[k]) /\ DOMAIN Plans[k] = 1 .. L
  BY PlanTypes
<1>2. PICK T : T = {d \in 0 .. L : ~Begins(FlatBursts(k)[L - d], FlatPlan(k))}
  OBVIOUS
<1>3. T = {}
  <2>1. SUFFICES ASSUME T # {} PROVE FALSE
    OBVIOUS
  <2>2. PICK d \in T : \A t \in T : d <= t
    <3>1. T \subseteq Nat
      BY <1>2
    <3>2. QED
      BY <2>1, <3>1, LeastExists
  <2>3. d \in 0 .. L /\ ~Begins(FlatBursts(k)[L - d], FlatPlan(k))
    BY <1>2
  <2>4. d # 0
    <3>1. FlatPlan(k) = FlatBursts(k)[L] /\ FlatPlan(k) \in Seq(Ids)
      BY <1>1, FlatPlanType DEF FlatPlan
    <3>2. Begins(FlatPlan(k), FlatPlan(k))
      BY <3>1 DEF Begins
    <3>3. L - 0 = L
      OBVIOUS
    <3>4. QED
      BY <2>3, <3>1, <3>2, <3>3
  <2>5. PICK c : c = L - d
    OBVIOUS
  <2>6. c \in 0 .. L /\ c + 1 \in 1 .. L /\ d - 1 \in 0 .. L /\ L - (d - 1) = c + 1
        /\ (c + 1) - 1 = c
    BY <2>3, <2>4, <2>5
  <2>7. d - 1 \notin T
    BY <2>2, <2>3, <2>6
  <2>8. Begins(FlatBursts(k)[c + 1], FlatPlan(k))
    BY <1>2, <2>6, <2>7
  <2>9. FlatBursts(k)[c + 1] = FlatBursts(k)[c] \o Plans[k][c + 1]
    <3>1. \A a \in DOMAIN Plans[k] : FlatBursts(k)[a] = FlatBursts(k)[a - 1] \o Plans[k][a]
      BY FlatBurstsSteps
    <3>2. QED
      BY <1>1, <2>6, <3>1
  <2>10. /\ FlatBursts(k)[c] \in Seq(Ids) /\ FlatBursts(k)[c + 1] \in Seq(Ids)
         /\ Plans[k][c + 1] \in Seq(Ids) /\ FlatPlan(k) \in Seq(Ids)
         /\ 0 \in 0 .. Len(Plans[k][c + 1])
    <3>1. c \in 0 .. L /\ c + 1 \in 0 .. L
      BY <2>6
    <3>2. FlatBursts(k)[c] \in Seq(Ids) /\ FlatBursts(k)[c + 1] \in Seq(Ids)
      BY <1>1, <3>1, FlatBurstsType
    <3>3. Plans[k][c + 1] \in Seq(Ids)
      BY <1>1, <2>6, PlanSequences
    <3>4. QED
      BY <3>2, <3>3, FlatPlanType
  <2>11. Begins(FlatBursts(k)[c], FlatBursts(k)[c + 1])
    BY <2>9, <2>10, BeginsJoined
  <2>12. Begins(FlatBursts(k)[c], FlatPlan(k))
    BY <2>8, <2>10, <2>11, BeginsFurther
  <2>13. QED
    BY <2>3, <2>5, <2>12
<1>4. L - b \in 0 .. L /\ L - (L - b) = b
  BY <1>1
<1>5. QED
  BY <1>2, <1>3, <1>4

(* The window of a persona whose sessions are its bursts.                  *)
LEMMA PromptsOfRows ==
  ASSUME NEW k \in Personas, rows[k] \in Seq(Row), Begins(Prompted(k), FlatPlan(k))
  PROVE  /\ Len(rows[k]) \in 0 .. Len(FlatPlan(k))
         /\ SessionsAreBursts(k) => Prompts(k) = WindowAfter(k, Len(rows[k]))
<1>1. PICK n \in Nat : n = Len(rows[k]) /\ DOMAIN rows[k] = 1 .. n
  OBVIOUS
<1>2. Len(Prompted(k)) = n /\ \A i \in 1 .. n : Prompted(k)[i] = rows[k][i].prompt
  BY <1>1 DEF Prompted
<1>3. n <= Len(FlatPlan(k)) /\ \A i \in 1 .. n : FlatPlan(k)[i] = rows[k][i].prompt
  BY <1>2 DEF Begins
<1>4. ASSUME SessionsAreBursts(k) PROVE Prompts(k) = WindowAfter(k, n)
  <2>1. \A i \in 1 .. n : rows[k][i].session = BurstAt(k, i)
    BY <1>1, <1>3, <1>4 DEF SessionsAreBursts, BurstAt
  <2>2. n # 0 => Len(sessions[k]) = BurstAt(k, n)
    <3>1. n # 0 => rows[k] # <<>> /\ n \in 1 .. n
      BY <1>1
    <3>2. QED
      BY <1>1, <1>4, <2>1, <3>1 DEF SessionsAreBursts
  <2>3. \A j \in 1 .. n : n # 0 /\ \A h \in 1 .. j : h \in 1 .. n
    BY <1>1
  <2>4. WindowRows(k) = {j \in 1 .. n :
          \E h \in 1 .. j : BurstAt(k, h) > BurstAt(k, n) - WindowSessions}
    BY <1>1, <2>1, <2>2, <2>3 DEF WindowRows
  <2>5. WindowRows(k) \subseteq 1 .. n
    BY <1>1 DEF WindowRows
  <2>6. Prompts(k) = {FlatPlan(k)[i] : i \in WindowRows(k)}
    BY <1>3, <2>5 DEF Prompts
  <2>7. QED
    BY <2>4, <2>6 DEF WindowAfter
<1>5. QED
  BY <1>1, <1>3, <1>4, FlatPlanType

LEMMA PlanIsNotEmpty ==
  ASSUME NEW k \in Personas
  PROVE  Len(FlatPlan(k)) > 0
<1>1. PICK first : first = Plans[k][1]
  OBVIOUS
<1>2. 1 \in DOMAIN Plans[k] /\ Len(first) \in Nat /\ Len(first) > 0
  BY <1>1, PlanTypes, HarnessAssumption
<1>3. 1 \in 0 .. Len(Plans[k]) /\ 1 - 1 = 0
  BY <1>2, PlanTypes
<1>4. FlatBursts(k)[1] = <<>> \o first /\ first \in Seq(Ids)
  <2>1. FlatBursts(k)[0] = <<>>
    BY FlatBurstsSteps
  <2>2. FlatBursts(k)[1] = FlatBursts(k)[1 - 1] \o first
    BY <1>1, <1>2, FlatBurstsSteps
  <2>3. first \in Seq(Ids)
    BY <1>1, <1>2, PlanSequences
  <2>4. QED
    BY <1>3, <2>1, <2>2, <2>3
<1>5. Len(FlatBursts(k)[1]) = Len(first)
  BY <1>4
<1>6. Len(FlatBursts(k)[1]) <= Len(FlatPlan(k)) /\ Len(FlatPlan(k)) \in Nat
  BY <1>3, BurstsBeginPlan, FlatPlanType DEF Begins
<1>7. QED
  BY <1>2, <1>5, <1>6

(* Nothing has failed, and the reset test has not begun.                   *)
Undisturbed ==
  faults = 0 /\ pc \notin {"not_ready", "reset", "reset_answer", "done", "aborted"}

LEMMA PlanBegun ==
  ASSUME TypeOK, BInv, Undisturbed, NEW k \in Personas
  PROVE  /\ Begins(Prompted(k), FlatPlan(k))
         /\ Through(k) \/ (k = persona /\ pc = "recompute") =>
              Len(rows[k]) = Len(FlatPlan(k))
<1>1. ~Erred(k) /\ PlanFollowed(k) /\ rows[k] \in Seq(Row)
  <2>1. ~(faults > 0)
    BY NoneIsNone DEF Undisturbed
  <2>2. ~Erred(k) /\ PlanFollowed(k)
    BY <2>1 DEF BInv, Position
  <2>3. QED
    BY <2>2 DEF TypeOK, Row
<1>2. PICK n \in Nat : n = Len(rows[k]) /\ DOMAIN rows[k] = 1 .. n
  BY <1>1
<1>3. Len(Prompted(k)) = n
  BY <1>2 DEF Prompted
<1>4. CASE Through(k) \/ (k = persona /\ pc = "recompute")
  <2>1. Prompted(k) = FlatPlan(k) /\ FlatPlan(k) \in Seq(Ids)
    BY <1>1, <1>4, FlatPlanType DEF PlanFollowed
  <2>2. QED
    BY <1>2, <1>3, <2>1 DEF Begins
<1>5. CASE Current(k)
  <2>1. PICK b, m : b = burst /\ m = next - 1
    OBVIOUS
  <2>2. b \in DOMAIN Plans[k] /\ m \in 0 .. Len(Plans[k][b]) /\ ~Through(k)
    <3>1. k = persona /\ pc = "sending"
      BY <1>5 DEF Current
    <3>2. b \in DOMAIN Plans[k] /\ next \in DOMAIN Plans[k][b]
      BY <2>1, <3>1 DEF TypeOK
    <3>3. k \in Int
      BY PlanTypes
    <3>4. ~Through(k)
      BY <3>1, <3>3 DEF Through, Verifying, Sending
    <3>5. QED
      BY <2>1, <3>2, <3>4, PlanTypes
  <2>3. Prompted(k) = FlatBursts(k)[b - 1] \o SubSeq(Plans[k][b], 1, m)
    BY <1>1, <1>5, <2>1 DEF PlanFollowed
  <2>4. /\ FlatBursts(k)[b - 1] \in Seq(Ids) /\ FlatBursts(k)[b] \in Seq(Ids)
        /\ Plans[k][b] \in Seq(Ids) /\ FlatPlan(k) \in Seq(Ids)
        /\ FlatBursts(k)[b] = FlatBursts(k)[b - 1] \o Plans[k][b]
        /\ b \in 0 .. Len(Plans[k])
    <3>1. b \in 0 .. Len(Plans[k]) /\ b - 1 \in 0 .. Len(Plans[k])
      BY <2>2, PlanTypes
    <3>2. QED
      BY <2>2, <3>1, FlatBurstsType, FlatBurstsSteps, PlanSequences, FlatPlanType
  <2>5. Prompted(k) \in Seq(Ids) /\ Begins(Prompted(k), FlatBursts(k)[b])
    BY <2>2, <2>3, <2>4, BeginsJoined
  <2>6. Begins(FlatBursts(k)[b], FlatPlan(k))
    BY <2>4, BurstsBeginPlan
  <2>7. Begins(Prompted(k), FlatPlan(k))
    BY <2>4, <2>5, <2>6, BeginsFurther
  <2>8. QED
    BY <1>5, <2>2, <2>7 DEF Current
<1>6. CASE ~Through(k) /\ ~(k = persona /\ pc = "recompute") /\ ~Current(k)
  <2>1. k \in Int /\ persona \in Int
    BY PlanTypes DEF TypeOK
  <2>2. pc = "polling" \/ (pc \in Sending /\ k > persona)
    BY <1>6, <2>1 DEF Undisturbed, TypeOK, Stages, Through, Current, Sending, Verifying
  <2>3. rows[k] = <<>>
    BY <2>2 DEF BInv, Position
  <2>4. QED
    BY <1>2, <1>3, <1>6, <2>3, FlatPlanType DEF Begins
<1>7. QED
  BY <1>4, <1>5, <1>6

-----------------------------------------------------------------------------
(* Of each persona: how many cycles are through, and between which scores  *)
(* they have brought its profile.                                          *)
CyclesDone(k) == Len(rows[k]) - queue[k] + IF Through(k) THEN 1 ELSE 0

Fresh(k) == profile[k] # NULL => profile[k].lastScored = Now /\ profile[k].lastEvent = Now

InBounds(k) ==
  /\ queue[k] <= Len(rows[k])
  /\ CyclesDone(k) > 0 => profile[k] # NULL
  /\ Fresh(k)
  /\ Score(k) \in LowestScores(k)[CyclesDone(k)] .. HighestScores(k)[CyclesDone(k)]

TimingInv == Undisturbed => \A k \in Personas : InBounds(k)

(* A cycle adds the gain of the window it reads: no time has passed, and   *)
(* no reset is due.                                                        *)
LEMMA CycleAddsGain ==
  ASSUME TypeOK, NEW k \in Personas, Cycle(k), Fresh(k), rows[k] # <<>>
  PROVE  /\ Score(k) \in 0 .. Cap
         /\ profile'[k] # NULL /\ Fresh(k)'
         /\ Score(k)' = Grown(Score(k), Gain(Prompts(k)))
<1>1. PICK p, w : p = profile[k] /\ w = Prompts(k)
  OBVIOUS
<1>2. p \in Maybe(Profile) /\ profile \in [Personas -> Maybe(Profile)]
  BY <1>1 DEF TypeOK
<1>3. Now \in Int /\ Now # NULL
  BY CommonAssumption DEF Now
<1>4. p # NULL => p.lastScored = Now /\ p.lastEvent = Now
  BY <1>1 DEF Fresh
<1>5. ~MustReset(p, Now)
  <2>1. InactivityLimit \in Nat /\ Now - Now = 0
    BY <1>3, CommonAssumption
  <2>2. QED
    BY <1>4, <2>1 DEF MustReset, IsInactivityResetNeeded
<1>6. CycleOutcome(p, Now, w) = ScoredOutcome(p, Detect(w).signals, Now)
  BY <1>5 DEF CycleOutcome, CycleVerdict, Evaluate
<1>7. CycleOutcome(p, Now, w).score = Accumulate(Score(k), Gain(w), 0)
  <2>1. Now - Now = 0
    BY <1>3
  <2>2. QED
    BY <1>1, <1>3, <1>4, <1>6, <2>1 DEF ScoredOutcome, Score, Gain
<1>8. CycleOutcome(p, Now, w).scoredAt = Now
  BY <1>6 DEF ScoredOutcome
<1>9. PICK row : row = CycleProfile(p, Now, LatestEvent(k), w, Len(sessions[k]), Len(rows[k]))
  OBVIOUS
<1>10. profile'[k] = row
  BY <1>1, <1>2, <1>9 DEF Cycle
<1>11. LatestEvent(k) = Now
  BY DEF LatestEvent
<1>12. /\ row.score = Rounded(CycleOutcome(p, Now, w).score)
       /\ row.lastScored = CycleOutcome(p, Now, w).scoredAt
       /\ row.lastEvent = Now
  BY <1>3, <1>9, <1>11 DEF CycleProfile, UpsertRiskProfile, LastEventAfter
<1>13. profile'[k] # NULL
  BY CycleTypes, ProfileAssumption
<1>14. Score(k) \in 0 .. Cap
  BY <1>1, <1>2, ScoringAssumption DEF Score, Maybe, Profile
<1>15. QED
  BY <1>1, <1>7, <1>8, <1>10, <1>12, <1>13, <1>14 DEF Score, Fresh, Grown

LEMMA CycleKeepsBounds ==
  ASSUME TypeOK, NEW k \in Personas, Cycle(k), InBounds(k), rows[k] # <<>>,
         Begins(Prompted(k), FlatPlan(k)), SessionsAreBursts(k),
         NEW c \in Nat, c = CyclesDone(k), c < CyclesOf(k),
         c < Len(rows[k]) \/ Len(rows[k]) = Len(FlatPlan(k))
  PROVE  /\ profile'[k] # NULL /\ Fresh(k)'
         /\ Score(k)' \in LowestScores(k)[c + 1] .. HighestScores(k)[c + 1]
<1>1. /\ Score(k) \in 0 .. Cap /\ profile'[k] # NULL /\ Fresh(k)'
      /\ Score(k)' = Grown(Score(k), Gain(Prompts(k)))
  BY CycleAddsGain DEF InBounds
<1>2. PICK g : g = Gain(Prompts(k))
  OBVIOUS
<1>3. PICK s : s = Score(k)
  OBVIOUS
<1>4. CyclesOf(k) \in Nat /\ c + 1 \in 1 .. CyclesOf(k) /\ c \in 0 .. CyclesOf(k)
      /\ (c + 1) - 1 = c
  BY BoundsGrow
<1>5. g \in GainsOf(k, c + 1)
  <2>1. PICK m : m = Len(rows[k])
    OBVIOUS
  <2>2. m \in 0 .. Len(FlatPlan(k)) /\ g = Gain(WindowAfter(k, m))
    BY <1>2, <2>1, PromptsOfRows DEF TypeOK, Row
  <2>3. PICK n \in Nat : n = Len(FlatPlan(k))
    BY FlatPlanType
  <2>4. m \in (c + 1 .. n) \cup {n}
    BY <2>1, <2>2, <2>3
  <2>5. QED
    BY <2>2, <2>3, <2>4 DEF GainsOf
<1>6. PICK a, b, l, h : /\ a = Min(GainsOf(k, c + 1)) /\ b = Max(GainsOf(k, c + 1))
                        /\ l = LowestScores(k)[c] /\ h = HighestScores(k)[c]
  OBVIOUS
<1>7. /\ a \in Nat /\ b \in Nat /\ GainsOf(k, c + 1) \in SUBSET Nat
      /\ \A x \in GainsOf(k, c + 1) : a <= x /\ x <= b
  BY <1>4, <1>6, GainsHaveExtremes
<1>8. g \in Nat /\ a <= g /\ g <= b
  BY <1>5, <1>7
<1>9. l \in 0 .. Cap /\ h \in 0 .. Cap /\ s \in 0 .. Cap
  BY <1>1, <1>3, <1>4, <1>6, BoundsGrow
<1>10. l <= s /\ s <= h
  BY <1>3, <1>6, <1>9 DEF InBounds
<1>11. Grown(l, a) <= Grown(s, g) /\ Grown(s, g) <= Grown(h, b)
  BY <1>7, <1>8, <1>9, <1>10, GrownKeepsOrder
<1>12. Grown(l, a) \in 0 .. Cap /\ Grown(s, g) \in 0 .. Cap /\ Grown(h, b) \in 0 .. Cap
  BY <1>7, <1>8, <1>9, GrownIsCapped
<1>13. LowestScores(k)[c + 1] = Grown(l, a) /\ HighestScores(k)[c + 1] = Grown(h, b)
  BY <1>4, <1>6, BoundsGrow
<1>14. QED
  BY <1>1, <1>2, <1>3, <1>11, <1>12, <1>13

-----------------------------------------------------------------------------
LEMMA InitTiming == Init => TimingInv
<1> SUFFICES ASSUME Init, NEW k \in Personas PROVE InBounds(k)
  BY DEF TimingInv
<1>1. /\ rows[k] = <<>> /\ queue[k] = 0 /\ profile[k] = NULL /\ pc = "polling"
  BY DEF Init
<1>2. Len(rows[k]) = 0 /\ CyclesDone(k) = 0
  <2>1. Len(rows[k]) = 0
    BY <1>1
  <2>2. ~Through(k)
    BY <1>1 DEF Through, Verifying, Sending
  <2>3. QED
    BY <1>1, <2>1, <2>2 DEF CyclesDone
<1>3. Score(k) = 0 /\ Fresh(k)
  BY <1>1 DEF Score, Fresh
<1>4. QED
  BY <1>1, <1>2, <1>3, BoundsGrow DEF InBounds

(* A persona that a step does not concern, or whose event it stores and    *)
(* schedules.                                                              *)
LEMMA BoundsStay ==
  ASSUME NEW k \in Personas, InBounds(k), profile'[k] = profile[k],
         CyclesDone(k)' = CyclesDone(k), queue'[k] <= Len(rows'[k])
  PROVE  InBounds(k)'
<1>1. Score(k)' = Score(k) /\ (Fresh(k)' <=> Fresh(k))
  BY DEF Score, Fresh
<1>2. /\ LowestScores(k)[CyclesDone(k)]' = LowestScores(k)[CyclesDone(k)]
      /\ HighestScores(k)[CyclesDone(k)]' = HighestScores(k)[CyclesDone(k)]
  OBVIOUS
<1>3. QED
  BY <1>1, <1>2 DEF InBounds

LEMMA BoundsUntouched ==
  ASSUME NEW k \in Personas, InBounds(k), profile'[k] = profile[k],
         rows'[k] = rows[k], queue'[k] = queue[k], Through(k)' <=> Through(k)
  PROVE  InBounds(k)'
<1>1. CyclesDone(k)' = CyclesDone(k)
  BY DEF CyclesDone
<1>2. queue'[k] <= Len(rows'[k])
  BY DEF InBounds
<1>3. QED
  BY <1>1, <1>2, BoundsStay

(* A cycle of k, whoever runs it, is the next one.                         *)
LEMMA BoundsCycled ==
  ASSUME TypeOK, NEW k \in Personas, Cycle(k), InBounds(k), rows[k] # <<>>,
         Begins(Prompted(k), FlatPlan(k)), SessionsAreBursts(k),
         CyclesDone(k) \in Nat, CyclesDone(k) < CyclesOf(k),
         CyclesDone(k) < Len(rows[k]) \/ Len(rows[k]) = Len(FlatPlan(k)),
         CyclesDone(k)' = CyclesDone(k) + 1, queue'[k] <= Len(rows'[k])
  PROVE  InBounds(k)'
<1>1. PICK c \in Nat : c = CyclesDone(k)
  OBVIOUS
<1>2. /\ profile'[k] # NULL /\ Fresh(k)'
      /\ Score(k)' \in LowestScores(k)[c + 1] .. HighestScores(k)[c + 1]
  BY <1>1, CycleKeepsBounds
<1>3. /\ LowestScores(k)[CyclesDone(k)]' = LowestScores(k)[c + 1]
      /\ HighestScores(k)[CyclesDone(k)]' = HighestScores(k)[c + 1]
  BY <1>1
<1>4. QED
  BY <1>2, <1>3 DEF InBounds

LEMMA CycledNumbers ==
  ASSUME TypeOK, BInv, Undisturbed, NEW k \in Personas, InBounds(k)
  PROVE  /\ Len(rows[k]) \in Nat /\ queue[k] \in Nat /\ queue[k] <= Len(rows[k])
         /\ Len(rows[k]) <= Len(FlatPlan(k)) /\ Len(FlatPlan(k)) \in Nat
         /\ CyclesOf(k) = Len(FlatPlan(k)) + 1
         /\ CyclesDone(k) = IF Through(k) THEN Len(rows[k]) - queue[k] + 1
                                          ELSE Len(rows[k]) - queue[k]
         /\ CyclesDone(k) \in Nat
<1>1. Len(rows[k]) \in Nat /\ queue[k] \in Nat /\ rows[k] \in Seq(Row)
  <2>1. rows[k] \in Seq(Row) /\ queue[k] \in Nat
    BY DEF TypeOK, Row
  <2>2. Len(rows[k]) \in Nat
    BY <2>1
  <2>3. QED
    BY <2>1, <2>2
<1>2. Len(rows[k]) <= Len(FlatPlan(k)) /\ Len(FlatPlan(k)) \in Nat
  BY <1>1, PlanBegun, PromptsOfRows, FlatPlanType
<1>3. CyclesDone(k) = IF Through(k) THEN Len(rows[k]) - queue[k] + 1
                                    ELSE Len(rows[k]) - queue[k]
  BY <1>1 DEF CyclesDone
<1>4. QED
  BY <1>1, <1>2, <1>3 DEF InBounds, CyclesOf

LEMMA TimingBackground ==
  ASSUME TypeOK, BInv, SessionInv, Undisturbed, TimingInv, NEW j \in Personas, BackgroundCycle(j),
         NEW k \in Personas
  PROVE  InBounds(k)'
<1>1. /\ InBounds(k) /\ Cycle(j) /\ queue[j] > 0 /\ queue' = [queue EXCEPT ![j] = @ - 1]
      /\ rows' = rows /\ pc' = pc /\ persona' = persona
      /\ queue \in [Personas -> Nat]
  BY DEF TimingInv, BackgroundCycle, position, TypeOK
<1>2. Through(k)' <=> Through(k)
  BY <1>1 DEF Through
<1>3. CASE k # j
  <2>1. profile'[k] = profile[k]
    BY <1>1, <1>3, CycleTypes
  <2>2. queue'[k] = queue[k]
    BY <1>1, <1>3
  <2>3. QED
    BY <1>1, <1>2, <2>1, <2>2, BoundsUntouched
<1>4. CASE k = j
  <2>1. /\ Len(rows[k]) \in Nat /\ queue[k] \in Nat /\ queue[k] <= Len(rows[k])
        /\ Len(rows[k]) <= Len(FlatPlan(k)) /\ Len(FlatPlan(k)) \in Nat
        /\ CyclesOf(k) = Len(FlatPlan(k)) + 1
        /\ CyclesDone(k) = IF Through(k) THEN Len(rows[k]) - queue[k] + 1
                                         ELSE Len(rows[k]) - queue[k]
        /\ CyclesDone(k) \in Nat
    BY <1>1, CycledNumbers
  <2>2. queue'[k] = queue[k] - 1 /\ queue[k] > 0
    BY <1>1, <1>4
  <2>3. CyclesDone(k)' = IF Through(k) THEN Len(rows[k]) - queue'[k] + 1
                                       ELSE Len(rows[k]) - queue'[k]
    BY <1>1, <1>2, <2>1, <2>2 DEF CyclesDone
  <2>4. CyclesDone(k)' = CyclesDone(k) + 1 /\ queue'[k] <= Len(rows'[k])
        /\ CyclesDone(k) < CyclesOf(k) /\ rows[k] # <<>>
    BY <1>1, <2>1, <2>2, <2>3
  <2>5. /\ Begins(Prompted(k), FlatPlan(k))
        /\ Through(k) => Len(rows[k]) = Len(FlatPlan(k))
    BY PlanBegun
  <2>6. CyclesDone(k) < Len(rows[k]) \/ Len(rows[k]) = Len(FlatPlan(k))
    BY <2>1, <2>2, <2>5
  <2>7. SessionsAreBursts(k)
    BY DEF SessionInv, Undisturbed
  <2>8. QED
    BY <1>1, <1>4, <2>1, <2>4, <2>5, <2>6, <2>7, BoundsCycled
<1>5. QED
  BY <1>3, <1>4

LEMMA TimingRecompute ==
  ASSUME TypeOK, BInv, SessionInv, Undisturbed, TimingInv, Recompute, NEW k \in Personas
  PROVE  InBounds(k)'
<1>1. /\ InBounds(k) /\ Cycle(persona) /\ pc = "recompute" /\ persona \in Personas
      /\ rows' = rows /\ queue' = queue
      /\ IF persona < Len(Plans) THEN persona' = persona + 1 /\ pc' = "sending"
                                 ELSE persona' = 1 /\ pc' = "risk"
  BY DEF TimingInv, Recompute, NextPersona, store, TypeOK
<1>2. k \in Int /\ persona \in Int /\ Len(Plans) \in Int /\ k <= Len(Plans)
      /\ persona <= Len(Plans)
  BY <1>1, PlanTypes
<1>3. Through(k) <=> k < persona
  BY <1>1 DEF Through, Sending, Verifying
<1>4. Through(k)' <=> k <= persona
  <2>1. CASE persona < Len(Plans)
    BY <1>1, <1>2, <2>1 DEF Through, Sending, Verifying
  <2>2. CASE ~(persona < Len(Plans))
    <3>1. k <= persona
      BY <1>2, <2>2
    <3>2. QED
      BY <1>1, <2>2, <3>1 DEF Through, Verifying
  <2>3. QED
    BY <2>1, <2>2
<1>5. CASE k # persona
  <2>1. profile'[k] = profile[k]
    BY <1>1, <1>5, CycleTypes
  <2>2. Through(k)' <=> Through(k)
    BY <1>2, <1>3, <1>4, <1>5
  <2>3. QED
    BY <1>1, <2>1, <2>2, BoundsUntouched
<1>6. CASE k = persona
  <2>1. ~Through(k) /\ Through(k)'
    BY <1>2, <1>3, <1>4, <1>6
  <2>2. /\ Len(rows[k]) \in Nat /\ queue[k] \in Nat /\ queue[k] <= Len(rows[k])
        /\ CyclesOf(k) = Len(FlatPlan(k)) + 1 /\ Len(FlatPlan(k)) \in Nat
        /\ CyclesDone(k) = Len(rows[k]) - queue[k] /\ CyclesDone(k) \in Nat
    BY <1>1, <2>1, CycledNumbers
  <2>3. /\ Begins(Prompted(k), FlatPlan(k)) /\ Len(rows[k]) = Len(FlatPlan(k))
    BY <1>1, <1>6, PlanBegun
  <2>4. rows[k] # <<>>
    BY <2>3, PlanIsNotEmpty
  <2>5. CyclesDone(k)' = CyclesDone(k) + 1 /\ queue'[k] <= Len(rows'[k])
    BY <1>1, <2>1, <2>2 DEF CyclesDone
  <2>6. CyclesDone(k) < CyclesOf(k)
    BY <2>2, <2>3
  <2>7. Cycle(k)
    BY <1>1, <1>6
  <2>8. SessionsAreBursts(k)
    BY DEF SessionInv, Undisturbed
  <2>9. QED
    BY <1>1, <2>2, <2>3, <2>4, <2>5, <2>6, <2>7, <2>8, BoundsCycled
<1>7. QED
  BY <1>5, <1>6

LEMMA TimingSend ==
  ASSUME TypeOK, Undisturbed, TimingInv, SendAccepted, NEW k \in Personas
  PROVE  InBounds(k)'
<1>1. /\ InBounds(k) /\ pc = "sending" /\ profile' = profile
      /\ queue' = [queue EXCEPT ![persona] = @ + 1] /\ queue \in [Personas -> Nat]
      /\ rows \in [Personas -> Seq(Row)] /\ persona \in Personas
      /\ MoveOn(ServerSession) /\ StorePrompt(ServerSession)
  BY DEF TimingInv, SendAccepted, ScheduleDetection, scored, TypeOK, Row
<1>2. persona' = persona /\ pc' \in Sending
  BY <1>1, NextSession DEF Sending
<1>3. Through(k)' <=> Through(k)
  BY <1>1, <1>2 DEF Through, Sending, Verifying
<1>4. CASE k # persona
  <2>1. rows'[k] = rows[k] /\ queue'[k] = queue[k]
    BY <1>1, <1>4, StoreTypes
  <2>2. QED
    BY <1>1, <1>3, <2>1, BoundsUntouched
<1>5. CASE k = persona
  <2>1. PICK r : r = [prompt |-> Plans[persona][burst][next], session |-> ServerSession]
    OBVIOUS
  <2>2. rows'[k] = Append(rows[k], r)
    BY <1>1, <1>5, <2>1 DEF StorePrompt
  <2>3. Len(rows'[k]) = Len(rows[k]) + 1 /\ Len(rows[k]) \in Nat
    BY <1>1, <2>2
  <2>4. queue'[k] = queue[k] + 1 /\ queue[k] \in Nat
    BY <1>1, <1>5
  <2>5. CyclesDone(k)' = CyclesDone(k)
    <3>1. CyclesDone(k) = Len(rows[k]) - queue[k] + (IF Through(k) THEN 1 ELSE 0)
      BY DEF CyclesDone
    <3>2. CyclesDone(k)' = Len(rows'[k]) - queue'[k] + (IF Through(k) THEN 1 ELSE 0)
      BY <1>3 DEF CyclesDone
    <3>3. Len(rows'[k]) - queue'[k] = Len(rows[k]) - queue[k]
      BY <2>3, <2>4
    <3>4. QED
      BY <3>1, <3>2, <3>3
  <2>6. queue'[k] <= Len(rows'[k])
    BY <1>1, <2>3, <2>4 DEF InBounds
  <2>7. QED
    BY <1>1, <2>5, <2>6, BoundsStay
<1>6. QED
  BY <1>4, <1>5

LEMMA TimingStep == HInv /\ BInv /\ SessionInv /\ TimingInv /\ [Next]_vars => TimingInv'
<1> SUFFICES ASSUME HInv, BInv, SessionInv, TimingInv, [Next]_vars, Undisturbed', NEW k \in Personas
             PROVE  InBounds(k)'
  BY DEF TimingInv
<1>1. TypeOK /\ AtStart /\ faults \in Nat
  <2>1. TypeOK /\ AtStart /\ faults \in 0 .. MaxFaults
    BY DEF HInv, TypeOK
  <2>2. QED
    BY <2>1, HarnessAssumption
<1>2. ~Fault
  BY <1>1 DEF Fault, Undisturbed
<1>3. ~Failure /\ \A j \in Personas : ~FailBackgroundCycle(j)
  BY <1>2 DEF Failure, SendRefused, SendFailed, RecomputeRefused, AbortRun, FailBackgroundCycle
<1>4. ~Backdate /\ ~ResetRecompute /\ ~ResetAnswer
  BY DEF Backdate, ResetRecompute, ResetAnswer, Undisturbed
<1>5. CASE Poll
  <2>1. pc = "polling" /\ pc' \in {"polling", "sending", "not_ready"}
        /\ UNCHANGED <<rows, queue, profile, persona, faults>>
    BY <1>5 DEF Poll, store, scored, position
  <2>2. Undisturbed /\ InBounds(k)
    BY <2>1 DEF Undisturbed, TimingInv
  <2>3. k \in Int /\ persona = 1 /\ ~(k < 1)
    BY <1>1, <2>1, PlanTypes DEF AtStart
  <2>4. ~Through(k) /\ ~Through(k)'
    BY <2>1, <2>3 DEF Through, Sending, Verifying
  <2>5. QED
    BY <2>1, <2>2, <2>4, BoundsUntouched
<1>6. CASE SendAccepted
  <2>1. Undisturbed
    BY <1>6 DEF SendAccepted, Undisturbed
  <2>2. QED
    BY <1>1, <1>6, <2>1, TimingSend
<1>7. CASE Recompute
  <2>1. Undisturbed
    BY <1>7 DEF Recompute, Undisturbed
  <2>2. QED
    BY <1>1, <1>7, <2>1, TimingRecompute
<1>8. CASE FetchRisk \/ FetchDominant \/ FetchTotal
  <2>1. /\ pc \in {"risk", "dominant", "alert"}
        /\ pc' \in {"risk", "dominant", "alert", "backdate"}
        /\ UNCHANGED <<rows, queue, profile, faults>>
    BY <1>8 DEF FetchRisk, FetchDominant, FetchTotal, NextVerdict, store, scored
  <2>2. Undisturbed /\ InBounds(k)
    BY <2>1 DEF Undisturbed, TimingInv
  <2>3. Through(k) /\ Through(k)'
    BY <2>1 DEF Through, Verifying
  <2>4. QED
    BY <2>1, <2>2, <2>3, BoundsUntouched
<1>9. CASE \E j \in Personas : BackgroundCycle(j)
  <2>1. PICK j \in Personas : BackgroundCycle(j)
    BY <1>9
  <2>2. Undisturbed
    BY <2>1 DEF BackgroundCycle, Undisturbed
  <2>3. QED
    BY <1>1, <2>1, <2>2, TimingBackground
<1>10. CASE UNCHANGED vars
  <2>1. UNCHANGED <<rows, queue, profile, pc, persona, faults>>
    BY <1>10 DEF vars, store, scored, position
  <2>2. Undisturbed /\ InBounds(k)
    BY <2>1 DEF Undisturbed, TimingInv
  <2>3. Through(k)' <=> Through(k)
    BY <2>1 DEF Through
  <2>4. QED
    BY <2>1, <2>2, <2>3, BoundsUntouched
<1>11. QED
  BY <1>3, <1>4, <1>5, <1>6, <1>7, <1>8, <1>9, <1>10 DEF Next, Step

LEMMA TimingAlways == Spec => []TimingInv
<1>1. QED
  BY AlwaysHInv, BurstsAlways, SessionsAlways, InitTiming, TimingStep, PTL DEF Spec

(* "BackgroundTask timing can push risk_score higher", and how far: at a   *)
(* verdict on a persona whose cycles are through, the score is between two *)
(* that the plan, the detectors and the settings determine, in whatever    *)
(* order the cycles ran and whichever windows they read.                   *)
THEOREM TimingIsBounded == Spec => []TimingStaysInBounds
<1>1. TypeOK /\ BInv /\ TimingInv => TimingStaysInBounds
  <2> SUFFICES ASSUME TypeOK, BInv, TimingInv, pc \in {"risk", "dominant", "alert"}, faults = 0,
                      NEW k \in Personas, queue[k] = 0
               PROVE  profile[k].score \in
                        LowestScores(k)[CyclesOf(k)] .. HighestScores(k)[CyclesOf(k)]
    BY DEF TimingStaysInBounds
  <2>1. Undisturbed /\ InBounds(k) /\ Through(k)
    BY DEF Undisturbed, TimingInv, Through, Verifying
  <2>2. CyclesDone(k) = CyclesOf(k) /\ CyclesDone(k) > 0
    <3>1. Len(rows[k]) = Len(FlatPlan(k))
      BY <2>1, PlanBegun
    <3>2. QED
      BY <2>1, <3>1, CycledNumbers
  <2>3. profile[k] # NULL
    BY <2>1, <2>2 DEF InBounds
  <2>4. QED
    BY <2>1, <2>2, <2>3 DEF InBounds, Score
<1>2. HInv => TypeOK
  BY DEF HInv
<1>3. QED
  BY <1>1, <1>2, AlwaysHInv, BurstsAlways, TimingAlways, PTL

(* The gain of k's window never falls as prompts are stored.               *)
GainGrows(k) ==
  \A m, n \in 0 .. Len(FlatPlan(k)) :
    m <= n => Gain(WindowAfter(k, m)) <= Gain(WindowAfter(k, n))

(* What the two bounds are for such a persona: the lowest score is that of *)
(* cycles that each run right after their prompt, the highest that of      *)
(* cycles that all wait for the last one.                                  *)
THEOREM PromptCyclesScoreLowest ==
  ASSUME NEW k \in Personas, GainGrows(k), NEW i \in 1 .. CyclesOf(k)
  PROVE  /\ Min(GainsOf(k, i)) =
              Gain(WindowAfter(k, IF i < CyclesOf(k) THEN i ELSE Len(FlatPlan(k))))
         /\ Max(GainsOf(k, i)) = Gain(WindowAfter(k, Len(FlatPlan(k))))
<1>1. PICK n \in Nat : n = Len(FlatPlan(k)) /\ CyclesOf(k) = n + 1
  BY FlatPlanType DEF CyclesOf
<1>2. PICK G : G = GainsOf(k, i)
  OBVIOUS
<1>3. G = {Gain(WindowAfter(k, m)) : m \in (i .. n) \cup {n}}
  BY <1>1, <1>2 DEF GainsOf
<1>4. PICK least : least = IF i < CyclesOf(k) THEN i ELSE n
  OBVIOUS
<1>5. /\ least \in (i .. n) \cup {n} /\ least \in 0 .. n /\ n \in 0 .. n
      /\ (i .. n) \cup {n} \subseteq 0 .. n
      /\ \A m \in (i .. n) \cup {n} : least <= m /\ m <= n
  BY <1>1, <1>4
<1>6. \A m \in 0 .. n : Gain(WindowAfter(k, m)) \in Nat
  BY <1>1, FlatPlanType, GainIsNatural
<1>7. PICK a, b : a = Gain(WindowAfter(k, least)) /\ b = Gain(WindowAfter(k, n))
  OBVIOUS
<1>8. a \in G /\ b \in G /\ \A g \in G : a <= g /\ g <= b
  <2>1. a \in G /\ b \in G
    BY <1>3, <1>5, <1>7
  <2>2. \A m \in (i .. n) \cup {n} :
          a <= Gain(WindowAfter(k, m)) /\ Gain(WindowAfter(k, m)) <= b
    BY <1>1, <1>5, <1>7 DEF GainGrows
  <2>3. QED
    BY <1>3, <2>1, <2>2
<1>9. \A g \in G : g \in Int
  BY <1>3, <1>5, <1>6
<1>10. Min(G) \in G /\ \A g \in G : Min(G) <= g
  BY <1>8 DEF Min
<1>11. Max(G) \in G /\ \A g \in G : Max(G) >= g
  <2>1. \A g \in G : b >= g
    BY <1>8, <1>9
  <2>2. QED
    BY <1>8, <2>1 DEF Max
<1>12. Min(G) = a /\ Max(G) = b
  BY <1>8, <1>9, <1>10, <1>11
<1>13. QED
  BY <1>1, <1>2, <1>4, <1>7, <1>12
=============================================================================
