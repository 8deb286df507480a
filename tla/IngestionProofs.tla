-------------------------- MODULE IngestionProofs --------------------------
(***************************************************************************)
(* Proofs about Ingestion, for any number of requests, users and retries,  *)
(* any kinds of prompts and replies and any failures: the handlers         *)
(* implement Intake, the sessions count their events, the answers tell the *)
(* truth, orphan traces are of refused events and what is stored as allowed *)
(* is clean.                                                               *)
(***************************************************************************)
EXTENDS Ingestion, FiniteSetTheorems, TLAPS

Shape ==
  /\ clock \in Time
  /\ stage \in [Requests -> Stages]
  /\ event \in [Requests -> Event]
  /\ sessions \in [Users -> Seq(SessionRow)]
  /\ stored \in [Users -> Seq(StoredRow)]

Computing == {"completing", "judging", "mirroring", "committing"}
Judged == {"judging", "mirroring", "committing"}
Kept == {"answering", "accepted", "failed"}

(* No two handlers are between their start and their answer.               *)
Alone ==
  \A r, q \in Requests : stage[r] \in Handled /\ stage[q] \in Handled => r = q

(* What the handler knows is what the tables still say: nobody else has    *)
(* written a session, and no event is stored that is later than its own.   *)
CopyIsCurrent(e) ==
  /\ e.seen = sessions[e.user]
  /\ \E requested \in 0 .. Len(sessions[e.user]) :
       e.session = ResolveOrCreateSession(sessions[e.user], requested, e.ts)
  /\ e.ts <= clock
  /\ \A i \in DOMAIN stored[e.user] : stored[e.user][i].ts <= e.ts

(* Of an event and of a row alike.                                         *)
Clean(e) ==
  e.outcome = "allowed" =>
    /\ e.reply # NULL
    /\ e.reply \notin Refusals \ Blank
    /\ Denies[e.prompt] = {} /\ e.prompt \notin Sensitive

(* What the handler of r knows when it is at stage s.                      *)
Fits(r, s, e) ==
  /\ s \in {"waiting"} \cup Handled => e.user \in Users /\ e.prompt \in Prompts
  /\ s = "waiting" => e.session <= Len(sessions[e.user])
  /\ s \in Computing => CopyIsCurrent(e)
  /\ s \in Judged => Clean(e)

Knows(r) == Fits(r, stage[r], event[r])
AllFit == \A r \in Requests : Knows(r)

NotAhead == \A u \in Users : \A i \in DOMAIN stored[u] : stored[u][i].ts <= clock

RowsHaveSessions ==
  \A u \in Users : \A i \in DOMAIN stored[u] : stored[u][i].session \in DOMAIN sessions[u]

IInv ==
  /\ Shape /\ Alone /\ AllFit /\ NotAhead /\ RowsHaveSessions
  /\ SessionsCountTheirEvents /\ AnswersTellTheTruth /\ AllowedMeansClean

-----------------------------------------------------------------------------
LEMMA NoEventType == NoEvent \in Event
BY CommonAssumption, IngestionAssumption DEF NoEvent, Event, Maybe, Time, Outcomes

LEMMA InitInv == Init => IInv
<1> SUFFICES ASSUME Init PROVE IInv
  OBVIOUS
<1> USE DEF Init
<1>1. Shape
  BY NoEventType, CommonAssumption DEF Shape, Time, Stages
<1>2. Alone /\ AllFit
  BY DEF Alone, AllFit, Knows, Fits, Handled, Computing, Judged
<1>3. NotAhead /\ RowsHaveSessions /\ AllowedMeansClean
  BY DEF NotAhead, RowsHaveSessions, AllowedMeansClean
<1>4. SessionsCountTheirEvents
  BY DEF SessionsCountTheirEvents
<1>5. AnswersTellTheTruth
  BY DEF AnswersTellTheTruth, Copies
<1>6. QED
  BY <1>1, <1>2, <1>3, <1>4, <1>5 DEF IInv

(* An event that the guardrail allows has a reply and a harmless prompt.   *)
LEMMA GuardrailClean ==
  ASSUME NEW prompt \in Prompts, NEW reply \in Maybe(Replies),
         NEW degraded \in BOOLEAN, ~degraded => reply \in Replies
  PROVE  LET outcome == GuardrailEvaluate(prompt, reply, degraded).outcome IN
         /\ outcome \in Outcomes
         /\ outcome = "allowed" =>
              /\ reply # NULL /\ reply \notin Refusals \ Blank
              /\ Denies[prompt] = {} /\ prompt \notin Sensitive
<1>1. CASE degraded
  BY <1>1 DEF GuardrailEvaluate, Verdict, Outcomes
<1>2. CASE ~degraded
  <2>1. reply # NULL
    BY <1>2, IngestionAssumption
  <2>2. GuardrailEvaluate(prompt, reply, degraded) = EvaluateLayers(prompt, reply)
    BY <1>2 DEF GuardrailEvaluate
  <2>3. CASE Denies[prompt] # {} \/ prompt \in Sensitive
    BY <2>2, <2>3 DEF EvaluateLayers, Verdict, Outcomes
  <2>4. CASE ~(Denies[prompt] # {} \/ prompt \in Sensitive)
    BY <2>1, <2>2, <2>4 DEF EvaluateLayers, EvaluateOutput, Verdict, Outcomes
  <2>5. QED
    BY <2>3, <2>4
<1>3. QED
  BY <1>1, <1>2

-----------------------------------------------------------------------------
(* The rows are as they were: so is what is said about them.               *)
LEMMA RowsStay ==
  ASSUME IInv, UNCHANGED <<sessions, stored>>,
         clock <= clock', clock' \in Time,
         \A r \in Requests : stage'[r] \in Kept <=> stage[r] \in Kept
  PROVE  /\ NotAhead' /\ RowsHaveSessions' /\ SessionsCountTheirEvents'
         /\ AnswersTellTheTruth' /\ AllowedMeansClean'
<1>1. NotAhead'
  <2> SUFFICES ASSUME NEW u \in Users, NEW i \in DOMAIN stored[u]
               PROVE  stored[u][i].ts <= clock'
    BY DEF NotAhead
  <2>1. stored[u] \in Seq(StoredRow)
    BY DEF IInv, Shape
  <2>2. stored[u][i] \in StoredRow
    BY <2>1
  <2>3. stored[u][i].ts \in Int /\ clock \in Int /\ clock' \in Int
    BY <2>2, CommonAssumption DEF StoredRow, Time, IInv, Shape
  <2>4. stored[u][i].ts <= clock
    BY DEF IInv, NotAhead
  <2>5. QED
    BY <2>3, <2>4
<1>2. RowsHaveSessions'
  BY DEF IInv, RowsHaveSessions
<1>3. SessionsCountTheirEvents'
  <2>1. \A u, s : RowsOf(u, s)' = RowsOf(u, s)
    BY DEF RowsOf
  <2>2. QED
    BY <2>1 DEF IInv, SessionsCountTheirEvents
<1>4. AnswersTellTheTruth'
  <2>1. \A r : Copies(r)' = Copies(r) /\ (StoredOnce(r)' <=> StoredOnce(r))
    BY DEF Copies, StoredOnce
  <2>2. QED
    BY <2>1 DEF IInv, AnswersTellTheTruth, Kept
<1>5. AllowedMeansClean'
  BY DEF IInv, AllowedMeansClean
<1>6. QED
  BY <1>1, <1>2, <1>3, <1>4, <1>5

(* What a handler knows stays true while rows do.                          *)
LEMMA FitsStays ==
  ASSUME IInv, UNCHANGED <<sessions, stored>>,
         clock <= clock', clock' \in Time,
         NEW r, NEW s, NEW e \in Event, Fits(r, s, e)
  PROVE  Fits(r, s, e)'
<1>1. e.ts \in Int /\ clock \in Int /\ clock' \in Int
  BY CommonAssumption DEF Event, Time, IInv, Shape
<1>2. CopyIsCurrent(e) => CopyIsCurrent(e)'
  BY <1>1 DEF CopyIsCurrent
<1>3. QED
  BY <1>2 DEF Fits

(* One request moves on and no row is written.                             *)
LEMMA HandlerStep ==
  ASSUME IInv, NEW r \in Requests, NEW s \in Stages, NEW e \in Event,
         stage' = [stage EXCEPT ![r] = s], event' = [event EXCEPT ![r] = e],
         UNCHANGED <<clock, sessions, stored>>,
         s \in Handled => stage[r] \in Handled \/ EventLoopFree,
         s \in Kept <=> stage[r] \in Kept,
         Fits(r, s, e)'
  PROVE  IInv'
<1>1. /\ stage \in [Requests -> Stages] /\ event \in [Requests -> Event]
      /\ clock \in Time
  BY DEF IInv, Shape
<1>2. /\ stage'[r] = s /\ event'[r] = e
      /\ \A q \in Requests \ {r} : stage'[q] = stage[q] /\ event'[q] = event[q]
  BY <1>1
<1>3. Shape'
  BY <1>1 DEF IInv, Shape
<1>4. Alone'
  BY <1>2 DEF IInv, Alone, EventLoopFree
<1>5. clock <= clock' /\ clock' \in Time
  BY <1>1, CommonAssumption DEF Time
<1>6. AllFit'
  <2>1. ASSUME NEW q \in Requests \ {r}
        PROVE  Knows(q)'
    <3>1. Fits(q, stage[q], event[q]) /\ event[q] \in Event
      BY <1>1 DEF IInv, AllFit, Knows
    <3>2. PICK t, d : t = stage[q] /\ d = event[q]
      OBVIOUS
    <3>3. Fits(q, t, d)'
      BY <1>5, <3>1, <3>2, FitsStays
    <3>4. t = stage'[q] /\ d = event'[q]
      BY <1>2, <3>2
    <3>5. QED
      BY <3>3, <3>4 DEF Knows
  <2>2. Knows(r)'
    BY <1>2 DEF Knows
  <2>3. QED
    BY <2>1, <2>2 DEF AllFit
<1>7. \A q \in Requests : stage'[q] \in Kept <=> stage[q] \in Kept
  BY <1>2
<1>8. QED
  BY <1>3, <1>4, <1>5, <1>6, <1>7, RowsStay DEF IInv

-----------------------------------------------------------------------------
(* The steps of one request.                                               *)
LEMMA PostStep ==
  ASSUME IInv, NEW r \in Requests, NEW u \in Users, NEW prompt \in Prompts,
         Post(r, u, prompt)
  PROVE  IInv'
<1>1. PICK requested \in 0 .. Len(sessions[u]) :
        event' = [event EXCEPT ![r] = [NoEvent EXCEPT
          !.user = u, !.session = requested, !.prompt = prompt]]
  BY DEF Post
<1>2. PICK e : e = [NoEvent EXCEPT !.user = u, !.session = requested, !.prompt = prompt]
  OBVIOUS
<1>3. Len(sessions[u]) \in Nat
  BY DEF IInv, Shape
<1>4. e.user = u /\ e.session = requested /\ e.prompt = prompt /\ e \in Event
  <2>1. e.user = u /\ e.session = requested /\ e.prompt = prompt
    BY <1>2 DEF NoEvent
  <2>2. requested \in Nat
    BY <1>3
  <2>3. e \in Event
    BY <1>2, <2>2, NoEventType DEF Event, Maybe
  <2>4. QED
    BY <2>1, <2>3
<1>5. /\ stage' = [stage EXCEPT ![r] = "waiting"] /\ stage[r] = "unsent"
      /\ UNCHANGED <<clock, sessions, stored>>
  BY DEF Post, Step, tables
<1>6. Fits(r, "waiting", e)'
  BY <1>3, <1>4, <1>5 DEF Fits, Handled, Computing, Judged
<1>7. event' = [event EXCEPT ![r] = e]
  BY <1>1, <1>2
<1>8. QED
  BY <1>4, <1>5, <1>6, <1>7, HandlerStep DEF Handled, Kept, Stages

LEMMA KnowsOf ==
  ASSUME IInv, NEW r \in Requests
  PROVE  /\ event[r] \in Event /\ stage[r] \in Stages
         /\ event \in [Requests -> Event]
         /\ stage[r] \in {"waiting"} \cup Handled =>
              event[r].user \in Users /\ event[r].prompt \in Prompts
         /\ stage[r] = "waiting" => event[r].session <= Len(sessions[event[r].user])
         /\ stage[r] \in Computing => CopyIsCurrent(event[r])
         /\ stage[r] \in Judged => Clean(event[r])
BY DEF IInv, Shape, AllFit, Knows, Fits

LEMMA CreateStep ==
  ASSUME IInv, NEW r \in Requests, CreateEvent(r)
  PROVE  IInv'
<1> DEFINE ses == sessions[event[r].user]
           sid == ResolveOrCreateSession(ses, event[r].session, clock)
<1>1. PICK e : e = [event[r] EXCEPT !.ts = clock, !.seen = ses, !.session = sid]
  OBVIOUS
<1>2. /\ stage[r] = "waiting" /\ stage' = [stage EXCEPT ![r] = "completing"]
      /\ EventLoopFree /\ UNCHANGED <<clock, sessions, stored>>
      /\ event' = [event EXCEPT ![r].ts = clock, ![r].seen = ses,
           ![r].session = ResolveOrCreateSession(ses, @, clock)]
  BY DEF CreateEvent, Step, tables
<1>3. /\ event[r] \in Event /\ event \in [Requests -> Event]
      /\ event[r].user \in Users /\ event[r].prompt \in Prompts
      /\ event[r].session <= Len(ses)
  BY <1>2, KnowsOf
<1>4. ses \in Seq(SessionRow) /\ clock \in Time
  BY <1>3 DEF IInv, Shape
<1>5. Len(ses) \in Nat /\ event[r].session \in Nat
  BY <1>3, <1>4 DEF Event
<1>6. sid \in Nat
  BY <1>5 DEF ResolveOrCreateSession
<1>7. /\ e.user = event[r].user /\ e.prompt = event[r].prompt /\ e.ts = clock
      /\ e.seen = ses /\ e.session = sid
  BY <1>1, <1>3 DEF Event
<1> HIDE DEF ses, sid
<1>8. e \in Event
  BY <1>1, <1>3, <1>4, <1>6 DEF Event
<1>9. event' = [event EXCEPT ![r] = e]
  BY <1>1, <1>2, <1>3 DEF Event, sid
<1>10. \A i \in DOMAIN stored[e.user] : stored[e.user][i].ts <= e.ts
  BY <1>3, <1>7 DEF IInv, NotAhead
<1>11. CopyIsCurrent(e)'
  <2>1. event[r].session \in 0 .. Len(ses)
    BY <1>3, <1>5
  <2>2. e.session = ResolveOrCreateSession(sessions[e.user], event[r].session, e.ts)
    BY <1>7 DEF ses, sid
  <2>3. clock <= clock
    BY <1>4, CommonAssumption DEF Time
  <2>4. ses = sessions[e.user]
    BY <1>7 DEF ses
  <2>5. CopyIsCurrent(e)
    BY <1>7, <1>10, <2>1, <2>2, <2>3, <2>4 DEF CopyIsCurrent
  <2>6. QED
    BY <1>2, <2>5 DEF CopyIsCurrent
<1>12. Fits(r, "completing", e)'
  BY <1>3, <1>7, <1>11 DEF Fits, Handled, Computing, Judged
<1>13. QED
  BY <1>2, <1>8, <1>9, <1>12, HandlerStep DEF Handled, Kept, Stages

(* What a handler has read is not touched by what it learns later.         *)
LEMMA SameCopy ==
  ASSUME NEW d, NEW e, CopyIsCurrent(d), e.user = d.user, e.seen = d.seen,
         e.session = d.session, e.ts = d.ts, UNCHANGED <<clock, sessions, stored>>
  PROVE  CopyIsCurrent(e)'
BY DEF CopyIsCurrent

LEMMA CompletedStep ==
  ASSUME IInv, NEW r \in Requests, NEW reply \in Maybe(Replies),
         NEW degraded \in BOOLEAN, ~degraded => reply \in Replies,
         Completed(r, reply, degraded)
  PROVE  IInv'
<1>1. PICK outcome : outcome = GuardrailEvaluate(event[r].prompt, reply, degraded).outcome
  OBVIOUS
<1>2. PICK e : e = [event[r] EXCEPT !.attempts = 0, !.reply = reply, !.outcome = outcome]
  OBVIOUS
<1>3. PICK s : s = IF RulesDecide(event[r].prompt) THEN "mirroring" ELSE "judging"
  OBVIOUS
<1>4. /\ stage[r] = "completing" /\ stage' = [stage EXCEPT ![r] = s]
      /\ UNCHANGED <<clock, sessions, stored>>
      /\ event' = [event EXCEPT ![r].attempts = 0, ![r].reply = reply,
                                ![r].outcome = outcome]
  BY <1>1, <1>3 DEF Completed, Step, tables
<1>5. /\ event[r] \in Event /\ event \in [Requests -> Event]
      /\ event[r].user \in Users /\ event[r].prompt \in Prompts
      /\ CopyIsCurrent(event[r])
  BY <1>4, KnowsOf DEF Handled, Computing
<1>6. /\ outcome \in Outcomes
      /\ outcome = "allowed" =>
           /\ reply # NULL /\ reply \notin Refusals \ Blank
           /\ Denies[event[r].prompt] = {} /\ event[r].prompt \notin Sensitive
  BY <1>1, <1>5, GuardrailClean
<1>7. /\ e.user = event[r].user /\ e.prompt = event[r].prompt /\ e.ts = event[r].ts
      /\ e.seen = event[r].seen /\ e.session = event[r].session
      /\ e.reply = reply /\ e.outcome = outcome /\ e \in Event
  <2>1. 0 \in 0 .. MaxRetries - 1
    BY IngestionAssumption
  <2>2. outcome \in Outcomes
    BY <1>6
  <2>3. QED
    BY <1>2, <1>5, <2>1, <2>2 DEF Event
<1>8. event' = [event EXCEPT ![r] = e]
  BY <1>2, <1>4, <1>5 DEF Event
<1>9. Clean(e)
  BY <1>6, <1>7 DEF Clean
<1>10. CopyIsCurrent(e)'
  BY <1>4, <1>5, <1>7, SameCopy
<1>11. s \in {"mirroring", "judging"}
  BY <1>3
<1>12. Fits(r, s, e)'
  BY <1>5, <1>7, <1>9, <1>10, <1>11 DEF Fits, Clean, Handled, Computing, Judged
<1>13. QED
  BY <1>4, <1>7, <1>8, <1>11, <1>12, HandlerStep DEF Handled, Kept, Stages

(* Retries and the judge's answer only count attempts.                     *)
LEMMA AttemptStep ==
  ASSUME IInv, NEW r \in Requests, NEW n \in 0 .. MaxRetries - 1, NEW s \in Stages,
         event' = [event EXCEPT ![r].attempts = n],
         stage' = [stage EXCEPT ![r] = s],
         UNCHANGED <<clock, sessions, stored>>,
         \/ stage[r] = "judging" /\ s = "mirroring"
         \/ stage[r] \in {"completing", "judging"} /\ s = stage[r]
  PROVE  IInv'
<1>1. PICK e : e = [event[r] EXCEPT !.attempts = n]
  OBVIOUS
<1>2. stage[r] \in Computing /\ stage[r] \in Handled
  BY DEF Computing, Handled
<1>3. /\ event[r] \in Event /\ event \in [Requests -> Event]
      /\ event[r].user \in Users /\ event[r].prompt \in Prompts
      /\ CopyIsCurrent(event[r]) /\ (stage[r] \in Judged => Clean(event[r]))
  BY <1>2, KnowsOf
<1>4. /\ e.user = event[r].user /\ e.prompt = event[r].prompt /\ e.ts = event[r].ts
      /\ e.seen = event[r].seen /\ e.session = event[r].session
      /\ e.reply = event[r].reply /\ e.outcome = event[r].outcome /\ e \in Event
  BY <1>1, <1>3 DEF Event
<1>5. event' = [event EXCEPT ![r] = e]
  BY <1>1, <1>3 DEF Event
<1>6. CopyIsCurrent(e)'
  BY <1>3, <1>4, SameCopy
<1>7. s \in Judged => Clean(e)
  BY <1>3, <1>4 DEF Clean, Judged
<1>8. Fits(r, s, e)'
  BY <1>3, <1>4, <1>6, <1>7 DEF Fits, Clean, Handled, Computing, Judged
<1>9. QED
  BY <1>2, <1>4, <1>5, <1>8, HandlerStep DEF Handled, Kept

LEMMA MirrorStep ==
  ASSUME IInv, NEW r \in Requests, NEW sent, NEW trace \in Maybe(Requests),
         Mirrored(r, sent, trace)
  PROVE  IInv'
<1>1. PICK e : e = [event[r] EXCEPT !.trace = trace]
  OBVIOUS
<1>2. /\ stage[r] = "mirroring" /\ stage' = [stage EXCEPT ![r] = "committing"]
      /\ UNCHANGED <<clock, sessions, stored>>
      /\ event' = [event EXCEPT ![r].trace = trace]
  BY DEF Mirrored, Step, tables
<1>3. /\ event[r] \in Event /\ event \in [Requests -> Event]
      /\ event[r].user \in Users /\ event[r].prompt \in Prompts
      /\ CopyIsCurrent(event[r]) /\ Clean(event[r])
  BY <1>2, KnowsOf DEF Handled, Computing, Judged
<1>4. /\ e.user = event[r].user /\ e.prompt = event[r].prompt /\ e.ts = event[r].ts
      /\ e.seen = event[r].seen /\ e.session = event[r].session
      /\ e.reply = event[r].reply /\ e.outcome = event[r].outcome
      /\ e.trace = trace /\ e \in Event
  BY <1>1, <1>3 DEF Event
<1>5. event' = [event EXCEPT ![r] = e]
  BY <1>1, <1>2, <1>3 DEF Event
<1>6. CopyIsCurrent(e)'
  BY <1>2, <1>3, <1>4, SameCopy
<1>7. Clean(e)
  BY <1>3, <1>4 DEF Clean
<1>8. Fits(r, "committing", e)'
  BY <1>3, <1>4, <1>6, <1>7 DEF Fits, Clean, Handled, Computing, Judged
<1>9. QED
  BY <1>2, <1>4, <1>5, <1>8, HandlerStep DEF Handled, Kept, Stages

(* The handler is over.                                                    *)
LEMMA EndStep ==
  ASSUME IInv, NEW r \in Requests, NEW s \in Answered,
         stage' = [stage EXCEPT ![r] = s], event' = [event EXCEPT ![r] = NoEvent],
         UNCHANGED <<clock, sessions, stored>>,
         s \in Kept <=> stage[r] \in Kept
  PROVE  IInv'
<1>1. Fits(r, s, NoEvent)'
  BY DEF Fits, Answered, Handled, Computing, Judged
<1>2. s \in Stages /\ s \notin Handled
  BY DEF Stages, Answered, Handled
<1>3. QED
  BY <1>1, <1>2, NoEventType, HandlerStep

LEMMA TickStep ==
  ASSUME IInv, Tick
  PROVE  IInv'
<1>1. /\ clock' = clock + 1 /\ UNCHANGED <<stage, event, sessions, stored>>
      /\ clock < MaxTime /\ clock \in Time
  BY DEF Tick, tables, IInv, Shape
<1>2. clock <= clock' /\ clock' \in Time
  BY <1>1, CommonAssumption DEF Time
<1>3. Shape' /\ Alone'
  BY <1>1, <1>2 DEF IInv, Shape, Alone
<1>4. ASSUME NEW q \in Requests
      PROVE  Knows(q)'
  <2>1. Fits(q, stage[q], event[q]) /\ event[q] \in Event
    BY DEF IInv, AllFit, Knows, Shape
  <2>2. PICK t, d : t = stage[q] /\ d = event[q]
    OBVIOUS
  <2>3. Fits(q, t, d)'
    BY <1>1, <1>2, <2>1, <2>2, FitsStays
  <2>4. QED
    BY <1>1, <2>2, <2>3 DEF Knows
<1>5. QED
  BY <1>1, <1>2, <1>3, <1>4, RowsStay DEF IInv, AllFit

LEMMA CrashStep ==
  ASSUME IInv, Crash
  PROVE  IInv'
<1>1. /\ UNCHANGED <<clock, sessions, stored>>
      /\ event' = [r \in Requests |-> NoEvent]
      /\ stage' = [r \in Requests |->
           IF stage[r] = "answering" THEN "failed"
           ELSE IF stage[r] \in {"waiting"} \cup Handled THEN "refused"
           ELSE stage[r]]
  BY DEF Crash
<1>2. ASSUME NEW r \in Requests
      PROVE  /\ stage'[r] \in Stages \ ({"waiting"} \cup Handled)
             /\ stage'[r] \in Kept <=> stage[r] \in Kept
  <2>1. stage[r] \in Stages
    BY DEF IInv, Shape
  <2>2. stage'[r] = IF stage[r] = "answering" THEN "failed"
                    ELSE IF stage[r] \in {"waiting"} \cup Handled THEN "refused"
                    ELSE stage[r]
    BY <1>1
  <2>3. QED
    BY <2>1, <2>2 DEF Stages, Handled, Answered, Kept
<1>3. Shape'
  BY <1>1, <1>2, NoEventType DEF IInv, Shape
<1>4. Alone' /\ AllFit'
  BY <1>2 DEF Alone, AllFit, Knows, Fits, Handled, Computing, Judged
<1>5. clock <= clock' /\ clock' \in Time
  BY <1>1, CommonAssumption DEF IInv, Shape, Time
<1>6. QED
  BY <1>1, <1>2, <1>3, <1>4, <1>5, RowsStay DEF IInv

-----------------------------------------------------------------------------
(* What the rows of a user are once an event is stored.                    *)
LEMMA Appended ==
  ASSUME NEW S, NEW seq \in Seq(S), NEW row \in S
  PROVE  /\ Append(seq, row) \in Seq(S)
         /\ Len(seq) \in Nat /\ Len(seq) + 1 \notin DOMAIN seq
         /\ DOMAIN seq = 1 .. Len(seq)
         /\ DOMAIN Append(seq, row) = DOMAIN seq \cup {Len(seq) + 1}
         /\ Append(seq, row)[Len(seq) + 1] = row
         /\ \A i \in DOMAIN seq : Append(seq, row)[i] = seq[i]
OBVIOUS

(* s numbers a session of ses or the next new one.                         *)
Slot(ses, s) == s \in DOMAIN ses \/ s = Len(ses) + 1

LEMMA Resolved ==
  ASSUME NEW ses, NEW requested, NEW now
  PROVE  Slot(ses, ResolveOrCreateSession(ses, requested, now))
BY DEF ResolveOrCreateSession, Slot

OneEventLater(ses, s, ts, after) ==
  /\ after \in Seq(SessionRow)
  /\ DOMAIN after = DOMAIN ses \cup {s}
  /\ Len(ses) <= Len(after)
  /\ after[s].lastEventAt = ts
  /\ after[s].interactionCount =
       IF s \in DOMAIN ses THEN ses[s].interactionCount + 1 ELSE 1
  /\ \A k \in DOMAIN ses \ {s} : after[k] = ses[k]

LEMMA SessionAfterEvent ==
  ASSUME NEW ses \in Seq(SessionRow), NEW ts \in Time, NEW s, Slot(ses, s)
  PROVE  OneEventLater(ses, s, ts, WithEvent(ses, s, ts))
<1> USE DEF Slot, OneEventLater
<1>1. CASE s \in DOMAIN ses
  <2>1. PICK row : row = [ses[s] EXCEPT !.lastEventAt = ts, !.interactionCount = @ + 1]
    OBVIOUS
  <2>2. s \in 1 .. Len(ses) /\ ses[s] \in SessionRow
    BY <1>1
  <2>3. /\ row \in SessionRow /\ row.lastEventAt = ts
        /\ row.interactionCount = ses[s].interactionCount + 1
    <3>1. PICK old : old = ses[s]
      OBVIOUS
    <3>2. /\ old \in SessionRow /\ old.interactionCount \in Nat
          /\ old.startedAt \in Time
      BY <2>2, <3>1 DEF SessionRow
    <3>3. PICK n \in Nat : n = old.interactionCount + 1
      BY <3>2
    <3>4. row = [old EXCEPT !.lastEventAt = ts, !.interactionCount = n]
      BY <2>1, <3>1, <3>2, <3>3 DEF SessionRow
    <3>5. row = [startedAt |-> old.startedAt, lastEventAt |-> ts, interactionCount |-> n]
      BY <3>2, <3>4 DEF SessionRow
    <3>6. QED
      BY <3>1, <3>2, <3>3, <3>5 DEF SessionRow
  <2>4. WithEvent(ses, s, ts) = [ses EXCEPT ![s] = row]
    BY <1>1, <2>1, <2>2 DEF WithEvent, SessionRow
  <2>5. /\ [ses EXCEPT ![s] = row] \in Seq(SessionRow)
        /\ Len([ses EXCEPT ![s] = row]) = Len(ses)
        /\ DOMAIN [ses EXCEPT ![s] = row] = DOMAIN ses
        /\ [ses EXCEPT ![s] = row][s] = row
        /\ \A k \in DOMAIN ses \ {s} : [ses EXCEPT ![s] = row][k] = ses[k]
    BY <2>2, <2>3
  <2>6. Len(ses) \in Nat
    OBVIOUS
  <2>7. QED
    BY <1>1, <2>3, <2>4, <2>5, <2>6
<1>2. CASE s \notin DOMAIN ses
  <2>1. PICK row : row = [startedAt |-> ts, lastEventAt |-> ts, interactionCount |-> 1]
    OBVIOUS
  <2>2. row \in SessionRow /\ row.lastEventAt = ts /\ row.interactionCount = 1
    BY <2>1 DEF SessionRow
  <2>3. WithEvent(ses, s, ts) = Append(ses, row) /\ s = Len(ses) + 1
    BY <1>2, <2>1 DEF WithEvent
  <2>4. Len(Append(ses, row)) = Len(ses) + 1 /\ Len(ses) \in Nat
    BY <2>2
  <2>5. /\ Append(ses, row) \in Seq(SessionRow)
        /\ DOMAIN Append(ses, row) = DOMAIN ses \cup {s}
        /\ Append(ses, row)[s] = row
        /\ \A i \in DOMAIN ses : Append(ses, row)[i] = ses[i]
    BY <2>2, <2>3, Appended
  <2>6. QED
    BY <1>2, <2>2, <2>3, <2>4, <2>5
<1>3. QED
  BY <1>1, <1>2

LEMMA RewrittenRow ==
  ASSUME NEW ses \in Seq(SessionRow), NEW ts, NEW s,
         Slot(ses, s)
  PROVE  WithEvent(ses, s, ts) =
           IF s \in DOMAIN ses THEN [ses EXCEPT ![s] = WithEvent(ses, s, ts)[s]]
                               ELSE Append(ses, WithEvent(ses, s, ts)[s])
<1> USE DEF Slot
<1>1. CASE s \in DOMAIN ses
  <2>1. PICK row : row = [ses[s] EXCEPT !.lastEventAt = ts, !.interactionCount = @ + 1]
    OBVIOUS
  <2>2. s \in 1 .. Len(ses) /\ ses[s] \in SessionRow
    BY <1>1
  <2>3. WithEvent(ses, s, ts) = [ses EXCEPT ![s] = row]
    BY <1>1, <2>1, <2>2 DEF WithEvent, SessionRow
  <2>4. WithEvent(ses, s, ts)[s] = row
    BY <1>1, <2>3
  <2>5. QED
    BY <1>1, <2>3, <2>4
<1>2. CASE s \notin DOMAIN ses
  <2>1. PICK row : row = [startedAt |-> ts, lastEventAt |-> ts, interactionCount |-> 1]
    OBVIOUS
  <2>2. WithEvent(ses, s, ts) = Append(ses, row) /\ s = Len(ses) + 1
    BY <1>2, <2>1 DEF WithEvent
  <2>3. Append(ses, row)[s] = row
    BY <2>2
  <2>4. QED
    BY <1>2, <2>2, <2>3
<1>3. QED
  BY <1>1, <1>2

(* The commit stores the session as Intake would, although it writes from  *)
(* the handler's copy.                                                     *)
RowOf(r, e) ==
  [id |-> r, ts |-> e.ts, session |-> e.session, prompt |-> e.prompt,
   reply |-> e.reply, outcome |-> e.outcome, trace |-> e.trace]

LEMMA CommitWrites ==
  ASSUME IInv, NEW r \in Requests, NEW e, e = event[r], NEW u, u = e.user, Commit(r)
  PROVE  /\ stage[r] = "committing" /\ stage' = [stage EXCEPT ![r] = "answering"]
         /\ UNCHANGED <<clock, event>>
         /\ u \in Users /\ e \in Event /\ e.prompt \in Prompts
         /\ CopyIsCurrent(e) /\ Clean(e)
         /\ Slot(sessions[u], e.session)
         /\ sessions' = [sessions EXCEPT ![u] = WithEvent(@, e.session, e.ts)]
         /\ stored' = [stored EXCEPT ![u] = Append(@, RowOf(r, e))]
         /\ RowOf(r, e) \in StoredRow
         /\ sessions[u] \in Seq(SessionRow) /\ stored[u] \in Seq(StoredRow)
<1>1. /\ stage[r] = "committing" /\ stage' = [stage EXCEPT ![r] = "answering"]
      /\ UNCHANGED <<clock, event>>
      /\ sessions' = [sessions EXCEPT ![u] =
           IF e.session \in DOMAIN sessions[u]
             THEN [sessions[u] EXCEPT ![e.session] =
                     WithEvent(e.seen, e.session, e.ts)[e.session]]
             ELSE Append(sessions[u], WithEvent(e.seen, e.session, e.ts)[e.session])]
      /\ stored' = [stored EXCEPT ![u] = Append(@, RowOf(r, e))]
  BY DEF Commit, Step, RowOf
<1>2. /\ u \in Users /\ e \in Event /\ e.prompt \in Prompts
      /\ CopyIsCurrent(e) /\ Clean(e)
  BY <1>1, KnowsOf DEF Handled, Computing, Judged
<1>3. sessions[u] \in Seq(SessionRow) /\ stored[u] \in Seq(StoredRow)
  BY <1>2 DEF IInv, Shape
<1>4. e.seen = sessions[u] /\ Slot(sessions[u], e.session)
  BY <1>2, Resolved DEF CopyIsCurrent
<1>5. e.ts \in Time
  BY <1>2 DEF Event
<1>6. WithEvent(sessions[u], e.session, e.ts) =
        IF e.session \in DOMAIN sessions[u]
          THEN [sessions[u] EXCEPT ![e.session] =
                  WithEvent(sessions[u], e.session, e.ts)[e.session]]
          ELSE Append(sessions[u], WithEvent(sessions[u], e.session, e.ts)[e.session])
  <2>1. PICK ses, s, ts : ses = sessions[u] /\ s = e.session /\ ts = e.ts
    OBVIOUS
  <2>2. /\ ses \in Seq(SessionRow) /\ ts \in Time
        /\ Slot(ses, s)
    BY <1>3, <1>4, <1>5, <2>1
  <2>3. WithEvent(ses, s, ts) =
          IF s \in DOMAIN ses THEN [ses EXCEPT ![s] = WithEvent(ses, s, ts)[s]]
                              ELSE Append(ses, WithEvent(ses, s, ts)[s])
    BY <2>2, RewrittenRow
  <2>4. QED
    BY <2>1, <2>3
<1>7. sessions' = [sessions EXCEPT ![u] = WithEvent(@, e.session, e.ts)]
  BY <1>1, <1>4, <1>6
<1>8. RowOf(r, e) \in StoredRow
  BY <1>2 DEF RowOf, StoredRow, Event
<1>9. QED
  BY <1>1, <1>2, <1>3, <1>4, <1>7, <1>8

-----------------------------------------------------------------------------
(* The sessions and the rows of one user.                                  *)
OfSession(rows, s) == {i \in DOMAIN rows : rows[i].session = s}

Counted(ses, rows, s) ==
  /\ ses[s].interactionCount = Cardinality(OfSession(rows, s))
  /\ \E i \in OfSession(rows, s) : rows[i].ts = ses[s].lastEventAt
  /\ \A i \in OfSession(rows, s) : rows[i].ts <= ses[s].lastEventAt

LEMMA FiniteRows ==
  ASSUME NEW rows \in Seq(StoredRow), NEW s
  PROVE  IsFiniteSet(OfSession(rows, s))
<1>1. IsFiniteSet(1 .. Len(rows))
  BY FS_Interval
<1>2. OfSession(rows, s) \subseteq 1 .. Len(rows)
  BY DEF OfSession
<1>3. QED
  BY <1>1, <1>2, FS_Subset

LEMMA CountedAfter ==
  ASSUME NEW ses \in Seq(SessionRow), NEW rows \in Seq(StoredRow),
         NEW row \in StoredRow, NEW s, s = row.session,
         Slot(ses, s),
         \A k \in DOMAIN ses : Counted(ses, rows, k),
         \A i \in DOMAIN rows : rows[i].session \in DOMAIN ses,
         \A i \in DOMAIN rows : rows[i].ts <= row.ts
  PROVE  LET after == WithEvent(ses, s, row.ts) IN
         \A k \in DOMAIN after : Counted(after, Append(rows, row), k)
<1>1. PICK n : n = Len(rows) + 1
  OBVIOUS
<1>2. PICK now : now = Append(rows, row)
  OBVIOUS
<1>3. PICK ts \in Time : ts = row.ts
  BY DEF StoredRow
<1>4. PICK after : after = WithEvent(ses, s, ts)
  OBVIOUS
<1>5. /\ n \notin DOMAIN rows /\ DOMAIN now = DOMAIN rows \cup {n}
      /\ now[n] = row /\ \A i \in DOMAIN rows : now[i] = rows[i]
  BY <1>1, <1>2, Appended
<1>6. /\ DOMAIN after = DOMAIN ses \cup {s}
      /\ after[s].lastEventAt = ts
      /\ after[s].interactionCount =
           IF s \in DOMAIN ses THEN ses[s].interactionCount + 1 ELSE 1
      /\ \A k \in DOMAIN ses \ {s} : after[k] = ses[k]
  <2>1. OneEventLater(ses, s, ts, after)
    BY <1>4, SessionAfterEvent
  <2>2. QED
    BY <2>1 DEF OneEventLater
<1>7. /\ OfSession(now, s) = OfSession(rows, s) \cup {n}
      /\ \A k : k # s => OfSession(now, k) = OfSession(rows, k)
  BY <1>5 DEF OfSession
<1>8. ASSUME NEW k \in DOMAIN ses \ {s}
      PROVE  Counted(after, now, k)
  <2>1. Counted(ses, rows, k) /\ after[k] = ses[k] /\ OfSession(now, k) = OfSession(rows, k)
    BY <1>6, <1>7
  <2>2. \A i \in OfSession(rows, k) : now[i] = rows[i]
    BY <1>5 DEF OfSession
  <2>3. QED
    BY <2>1, <2>2 DEF Counted
<1>9. Counted(after, now, s)
  <2>1. n \notin OfSession(rows, s) /\ IsFiniteSet(OfSession(rows, s))
    BY <1>5, FiniteRows DEF OfSession
  <2>2. Cardinality(OfSession(now, s)) = Cardinality(OfSession(rows, s)) + 1
    BY <1>7, <2>1, FS_AddElement
  <2>3. s \notin DOMAIN ses => Cardinality(OfSession(rows, s)) = 0
    <3>1. s \notin DOMAIN ses => OfSession(rows, s) = {}
      BY DEF OfSession
    <3>2. QED
      BY <3>1, FS_EmptySet
  <2>4. s \in DOMAIN ses => ses[s].interactionCount = Cardinality(OfSession(rows, s))
    BY DEF Counted
  <2>5. after[s].interactionCount = Cardinality(OfSession(now, s))
    BY <1>6, <2>2, <2>3, <2>4
  <2>6. \A i \in OfSession(now, s) : now[i].ts <= ts
    <3>1. now[n].ts <= ts
      BY <1>3, <1>5, CommonAssumption DEF Time
    <3>2. \A i \in OfSession(rows, s) : now[i].ts <= ts
      BY <1>3, <1>5 DEF OfSession
    <3>3. QED
      BY <1>7, <3>1, <3>2
  <2>7. n \in OfSession(now, s) /\ now[n].ts = ts
    BY <1>3, <1>5, <1>7
  <2>8. QED
    BY <1>6, <2>5, <2>6, <2>7 DEF Counted
<1>10. QED
  BY <1>2, <1>3, <1>4, <1>6, <1>8, <1>9

(* The rows once the commit is done: n is the new one's place.             *)
RowsAfter(r, e, u, n) ==
  /\ \A v \in Users \ {u} : stored'[v] = stored[v] /\ sessions'[v] = sessions[v]
  /\ stored'[u] = Append(stored[u], RowOf(r, e))
  /\ sessions'[u] = WithEvent(sessions[u], e.session, e.ts)
  /\ n \notin DOMAIN stored[u] /\ DOMAIN stored'[u] = DOMAIN stored[u] \cup {n}
  /\ stored'[u][n] = RowOf(r, e)
  /\ \A i \in DOMAIN stored[u] : stored'[u][i] = stored[u][i]

LEMMA CommitRows ==
  ASSUME IInv, NEW r \in Requests, NEW e, e = event[r], NEW u, u = e.user,
         NEW n, n = Len(stored[u]) + 1, Commit(r)
  PROVE  RowsAfter(r, e, u, n)
<1>1. PICK row : row = RowOf(r, e)
  OBVIOUS
<1>2. /\ u \in Users /\ row \in StoredRow /\ stored[u] \in Seq(StoredRow)
      /\ sessions' = [sessions EXCEPT ![u] = WithEvent(@, e.session, e.ts)]
      /\ stored' = [stored EXCEPT ![u] = Append(@, row)]
  BY <1>1, CommitWrites
<1>3. sessions \in [Users -> Seq(SessionRow)] /\ stored \in [Users -> Seq(StoredRow)]
  BY DEF IInv, Shape
<1>4. /\ \A v \in Users \ {u} : stored'[v] = stored[v] /\ sessions'[v] = sessions[v]
      /\ stored'[u] = Append(stored[u], row)
      /\ sessions'[u] = WithEvent(sessions[u], e.session, e.ts)
  BY <1>2, <1>3
<1>5. PICK rows : rows = stored[u] /\ rows \in Seq(StoredRow)
  BY <1>2
<1>6. /\ Len(rows) + 1 \notin DOMAIN rows
      /\ DOMAIN Append(rows, row) = DOMAIN rows \cup {Len(rows) + 1}
      /\ Append(rows, row)[Len(rows) + 1] = row
      /\ \A i \in DOMAIN rows : Append(rows, row)[i] = rows[i]
  BY <1>2, <1>5, Appended
<1>7. QED
  BY <1>1, <1>4, <1>5, <1>6 DEF RowsAfter

LEMMA CommitCounts ==
  ASSUME IInv, NEW r \in Requests, Commit(r)
  PROVE  SessionsCountTheirEvents'
<1>1. PICK e, u, n : e = event[r] /\ u = e.user /\ n = Len(stored[u]) + 1
  OBVIOUS
<1>2. PICK row, s : row = RowOf(r, e) /\ s = e.session
  OBVIOUS
<1>3. /\ u \in Users /\ CopyIsCurrent(e) /\ Slot(sessions[u], s) /\ row \in StoredRow
      /\ sessions[u] \in Seq(SessionRow) /\ stored[u] \in Seq(StoredRow)
  BY <1>1, <1>2, CommitWrites
<1>4. /\ \A v \in Users \ {u} : stored'[v] = stored[v] /\ sessions'[v] = sessions[v]
      /\ stored'[u] = Append(stored[u], row)
      /\ sessions'[u] = WithEvent(sessions[u], s, e.ts)
  <2>1. RowsAfter(r, e, u, n)
    BY <1>1, CommitRows
  <2>2. QED
    BY <1>2, <2>1 DEF RowsAfter
<1>5. row.session = s /\ row.ts = e.ts
  BY <1>2 DEF RowOf
<1>6. \A v : \A k : RowsOf(v, k) = OfSession(stored[v], k)
  BY DEF RowsOf, OfSession
<1>7. \A v \in Users : \A k \in DOMAIN sessions[v] : Counted(sessions[v], stored[v], k)
  BY <1>6 DEF IInv, SessionsCountTheirEvents, Counted
<1>8. /\ \A i \in DOMAIN stored[u] : stored[u][i].session \in DOMAIN sessions[u]
      /\ \A i \in DOMAIN stored[u] : stored[u][i].ts <= row.ts
  BY <1>1, <1>3, <1>5 DEF IInv, RowsHaveSessions, CopyIsCurrent
<1>9. \A k \in DOMAIN sessions'[u] : Counted(sessions'[u], stored'[u], k)
  <2>1. PICK ses, rows : ses = sessions[u] /\ rows = stored[u]
    OBVIOUS
  <2>2. /\ ses \in Seq(SessionRow) /\ rows \in Seq(StoredRow) /\ Slot(ses, s)
        /\ \A k \in DOMAIN ses : Counted(ses, rows, k)
        /\ \A i \in DOMAIN rows : rows[i].session \in DOMAIN ses
        /\ \A i \in DOMAIN rows : rows[i].ts <= row.ts
    BY <1>3, <1>7, <1>8, <2>1
  <2>3. PICK after : after = WithEvent(ses, s, row.ts)
    OBVIOUS
  <2>4. \A k \in DOMAIN after : Counted(after, Append(rows, row), k)
    BY <1>3, <1>5, <2>2, <2>3, CountedAfter
  <2>5. QED
    BY <1>4, <1>5, <2>1, <2>3, <2>4
<1>10. \A v \in Users : \A k \in DOMAIN sessions'[v] : Counted(sessions'[v], stored'[v], k)
  BY <1>4, <1>7, <1>9
<1>11. \A v : \A k : RowsOf(v, k)' = OfSession(stored'[v], k)
  BY DEF RowsOf, OfSession
<1>12. QED
  BY <1>10, <1>11 DEF SessionsCountTheirEvents, Counted

(* The places of the rows of a request.                                    *)
Places(v, q) == {i \in DOMAIN stored[v] : stored[v][i].id = q}

LEMMA CommitAnswers ==
  ASSUME IInv, NEW r \in Requests, Commit(r)
  PROVE  AnswersTellTheTruth'
<1>1. PICK e, u : e = event[r] /\ u = e.user
  OBVIOUS
<1>2. PICK n : n = Len(stored[u]) + 1
  OBVIOUS
<1>3. /\ u \in Users /\ stage[r] = "committing"
      /\ stage' = [stage EXCEPT ![r] = "answering"]
      /\ stage \in [Requests -> Stages]
  BY <1>1, CommitWrites DEF IInv, Shape
<1>4. /\ \A v \in Users \ {u} : stored'[v] = stored[v]
      /\ n \notin DOMAIN stored[u] /\ DOMAIN stored'[u] = DOMAIN stored[u] \cup {n}
      /\ stored'[u][n].id = r
      /\ \A i \in DOMAIN stored[u] : stored'[u][i] = stored[u][i]
  <2>1. RowsAfter(r, e, u, n)
    BY <1>1, <1>2, CommitRows
  <2>2. RowOf(r, e).id = r
    BY DEF RowOf
  <2>3. QED
    BY <2>1, <2>2 DEF RowsAfter
<1>5. /\ \A v \in Users : \A q \in Requests \ {r} : Places(v, q)' = Places(v, q)
      /\ \A v \in Users \ {u} : Places(v, r)' = Places(v, r)
      /\ Places(u, r)' = Places(u, r) \cup {n}
  BY <1>4 DEF Places
<1>6. /\ \A q : Copies(q) = {v \in Users : Places(v, q) # {}}
      /\ \A q : Copies(q)' = {v \in Users : Places(v, q)' # {}}
  BY DEF Copies, Places
<1>7. /\ \A q : StoredOnce(q) <=>
             \E v \in Users : Copies(q) = {v} /\ \E i : Places(v, q) = {i}
      /\ \A q : StoredOnce(q)' <=>
             \E v \in Users : Copies(q)' = {v} /\ \E i : Places(v, q)' = {i}
  <2>1. \A q, v, i : Places(v, q) = {i} => i \in DOMAIN stored[v]
    BY DEF Places
  <2>2. \A q, v, i : Places(v, q)' = {i} => i \in DOMAIN stored'[v]
    BY DEF Places
  <2>3. QED
    BY <2>1, <2>2 DEF StoredOnce, Places
<1>8. Copies(r) = {}
  BY <1>3 DEF IInv, AnswersTellTheTruth
<1>9. \A v \in Users : Places(v, r) = {}
  BY <1>6, <1>8
<1>10. StoredOnce(r)'
  <2>1. Places(u, r)' = {n} /\ \A v \in Users \ {u} : Places(v, r)' = {}
    BY <1>3, <1>5, <1>9
  <2>2. Copies(r)' = {u}
    BY <1>3, <1>6, <2>1
  <2>3. QED
    BY <1>3, <1>7, <2>1, <2>2
<1>11. ASSUME NEW q \in Requests \ {r}
       PROVE  Copies(q)' = Copies(q) /\ (StoredOnce(q)' <=> StoredOnce(q))
  <2>1. Copies(q)' = Copies(q)
    BY <1>5, <1>6
  <2>2. StoredOnce(q)' <=> \E v \in Users : Copies(q)' = {v} /\ \E i : Places(v, q)' = {i}
    BY <1>7
  <2>3. StoredOnce(q) <=> \E v \in Users : Copies(q) = {v} /\ \E i : Places(v, q) = {i}
    BY <1>7
  <2>4. \A v \in Users : Places(v, q)' = Places(v, q)
    BY <1>5
  <2>5. QED
    BY <2>1, <2>2, <2>3, <2>4
<1>12. stage'[r] = "answering" /\ \A q \in Requests \ {r} : stage'[q] = stage[q]
  BY <1>3
<1>13. QED
  BY <1>10, <1>11, <1>12 DEF IInv, AnswersTellTheTruth

LEMMA CommitContents ==
  ASSUME IInv, NEW r \in Requests, Commit(r)
  PROVE  NotAhead' /\ AllowedMeansClean'
<1>1. PICK e, u, n : e = event[r] /\ u = e.user /\ n = Len(stored[u]) + 1
  OBVIOUS
<1>2. PICK row : row = RowOf(r, e)
  OBVIOUS
<1>3. /\ u \in Users /\ CopyIsCurrent(e) /\ Clean(e)
      /\ UNCHANGED clock
  BY <1>1, CommitWrites
<1>4. RowsAfter(r, e, u, n)
  BY <1>1, CommitRows
<1>5. /\ \A v \in Users \ {u} : stored'[v] = stored[v]
      /\ DOMAIN stored'[u] = DOMAIN stored[u] \cup {n}
      /\ stored'[u][n] = row
      /\ \A i \in DOMAIN stored[u] : stored'[u][i] = stored[u][i]
  BY <1>2, <1>4 DEF RowsAfter
<1>6. /\ row.id = r /\ row.ts = e.ts
      /\ row.outcome = e.outcome /\ row.reply = e.reply /\ row.prompt = e.prompt
  BY <1>2 DEF RowOf
<1>7. row.ts <= clock
  BY <1>3, <1>6 DEF CopyIsCurrent
<1>8. Clean(row)
  BY <1>3, <1>6 DEF Clean
<1>9. ASSUME NEW v \in Users, NEW i \in DOMAIN stored'[v]
      PROVE  \/ stored'[v][i] = row
             \/ i \in DOMAIN stored[v] /\ stored'[v][i] = stored[v][i]
  BY <1>5
<1>10. NotAhead'
  BY <1>3, <1>7, <1>9 DEF IInv, NotAhead
<1>11. AllowedMeansClean'
  <2>1. \A v \in Users : \A i \in DOMAIN stored[v] : Clean(stored[v][i])
    BY DEF IInv, AllowedMeansClean, Clean
  <2>2. \A v \in Users : \A i \in DOMAIN stored'[v] : Clean(stored'[v][i])
    BY <1>8, <1>9, <2>1
  <2>3. QED
    BY <2>2 DEF AllowedMeansClean, Clean
<1>12. QED
  BY <1>10, <1>11

LEMMA CommitStep ==
  ASSUME IInv, NEW r \in Requests, Commit(r)
  PROVE  IInv'
<1>1. PICK e, u, n : e = event[r] /\ u = e.user /\ n = Len(stored[u]) + 1
  OBVIOUS
<1>2. PICK row, s, ts, after :
        /\ row = RowOf(r, e) /\ s = e.session /\ ts = e.ts
        /\ after = WithEvent(sessions[u], s, ts)
  OBVIOUS
<1>3. /\ stage[r] = "committing" /\ stage' = [stage EXCEPT ![r] = "answering"]
      /\ UNCHANGED <<clock, event>>
      /\ u \in Users /\ e \in Event /\ e.prompt \in Prompts
      /\ Slot(sessions[u], s) /\ row \in StoredRow
      /\ sessions' = [sessions EXCEPT ![u] = after]
      /\ stored' = [stored EXCEPT ![u] = Append(stored[u], row)]
      /\ sessions[u] \in Seq(SessionRow) /\ stored[u] \in Seq(StoredRow)
  BY <1>1, <1>2, CommitWrites
<1>4. /\ stage \in [Requests -> Stages] /\ event \in [Requests -> Event]
      /\ sessions \in [Users -> Seq(SessionRow)]
      /\ stored \in [Users -> Seq(StoredRow)] /\ clock \in Time
  BY DEF IInv, Shape
<1>5. OneEventLater(sessions[u], s, ts, after)
  <2>1. ts \in Time
    BY <1>2, <1>3 DEF Event
  <2>2. QED
    BY <1>2, <1>3, <2>1, SessionAfterEvent
<1>6. /\ after \in Seq(SessionRow) /\ Len(sessions[u]) <= Len(after)
      /\ DOMAIN after = DOMAIN sessions[u] \cup {s}
  BY <1>5 DEF OneEventLater
<1>7. Shape'
  <2>1. Append(stored[u], row) \in Seq(StoredRow)
    BY <1>3
  <2>2. stage' \in [Requests -> Stages]
    BY <1>3, <1>4 DEF Stages, Handled
  <2>3. QED
    BY <1>3, <1>4, <1>6, <2>1, <2>2 DEF Shape
<1>8. \A q \in Requests \ {r} : stage'[q] = stage[q] /\ stage[q] \notin Handled
  BY <1>3, <1>4 DEF IInv, Alone, Handled
<1>9. stage'[r] = "answering"
  BY <1>3, <1>4
<1>10. Alone'
  BY <1>8 DEF Alone
<1>11. AllFit'
  <2>1. ASSUME NEW q \in Requests \ {r}, stage[q] = "waiting"
        PROVE  event[q].session <= Len(sessions'[event[q].user])
    <3>1. PICK v, k : v = event[q].user /\ k = event[q].session
      OBVIOUS
    <3>2. v \in Users /\ k \in Nat /\ k <= Len(sessions[v])
      BY <2>1, <3>1, KnowsOf DEF Event
    <3>3. Len(sessions[v]) \in Nat /\ Len(sessions'[v]) \in Nat
      BY <1>3, <1>4, <1>6, <3>2
    <3>4. Len(sessions[v]) <= Len(sessions'[v])
      BY <1>3, <1>4, <1>6, <3>2, <3>3
    <3>5. QED
      BY <3>1, <3>2, <3>3, <3>4
  <2>2. ASSUME NEW q \in Requests \ {r}
        PROVE  Knows(q)'
    <3>1. stage[q] = "waiting" => event[q].user \in Users /\ event[q].prompt \in Prompts
      BY KnowsOf
    <3>2. stage[q] \notin Computing /\ stage[q] \notin Judged /\ stage[q] # "committing"
      BY <1>8 DEF Handled, Computing, Judged
    <3>3. QED
      BY <1>3, <1>8, <2>1, <3>1, <3>2 DEF Knows, Fits
  <2>3. Knows(r)'
    BY <1>1, <1>3, <1>9 DEF Knows, Fits, Computing, Judged
  <2>4. QED
    BY <2>2, <2>3 DEF AllFit
<1>12. RowsHaveSessions'
  <2>1. RowsAfter(r, e, u, n)
    BY <1>1, CommitRows
  <2>2. row.session = s
    BY <1>2 DEF RowOf
  <2>3. \A i \in DOMAIN stored'[u] : stored'[u][i].session \in DOMAIN after
    BY <1>2, <1>3, <1>6, <2>1, <2>2 DEF RowsAfter, IInv, RowsHaveSessions
  <2>4. QED
    BY <1>3, <1>4, <2>1, <2>3 DEF RowsAfter, IInv, RowsHaveSessions
<1>13. QED
  BY <1>7, <1>10, <1>11, <1>12, CommitCounts, CommitAnswers, CommitContents DEF IInv

-----------------------------------------------------------------------------
LEMMA RetrySteps ==
  ASSUME IInv, NEW r \in Requests, Retry(r) \/ JudgeAnswers(r)
  PROVE  IInv'
<1>1. /\ event[r] \in Event /\ event \in [Requests -> Event]
      /\ stage \in [Requests -> Stages]
  BY DEF IInv, Shape
<1>2. CASE Retry(r)
  <2>1. PICK n : n = event[r].attempts + 1
    OBVIOUS
  <2>2. n \in 0 .. MaxRetries - 1
    BY <1>1, <1>2, <2>1, IngestionAssumption DEF Event, Retry
  <2>3. PICK s : s = stage[r]
    OBVIOUS
  <2>4. /\ s \in Stages /\ s \in {"completing", "judging"}
        /\ event' = [event EXCEPT ![r].attempts = n]
        /\ stage' = [stage EXCEPT ![r] = s]
        /\ UNCHANGED <<clock, sessions, stored>>
    BY <1>1, <1>2, <2>1, <2>3 DEF Retry, tables
  <2>5. QED
    BY <2>2, <2>3, <2>4, AttemptStep
<1>3. CASE JudgeAnswers(r)
  <2>1. /\ stage[r] = "judging" /\ stage' = [stage EXCEPT ![r] = "mirroring"]
        /\ event' = [event EXCEPT ![r].attempts = 0]
        /\ UNCHANGED <<clock, sessions, stored>>
    BY <1>3 DEF JudgeAnswers, Step, tables
  <2>2. "mirroring" \in Stages /\ 0 \in 0 .. MaxRetries - 1
    BY IngestionAssumption DEF Stages, Handled
  <2>3. QED
    BY <2>1, <2>2, AttemptStep
<1>4. QED
  BY <1>2, <1>3

LEMMA EndSteps ==
  ASSUME IInv, NEW r \in Requests,
         JudgeFails(r) \/ HandlerFails(r) \/ Answer(r) \/ AnswerFails(r)
  PROVE  IInv'
<1> USE DEF Answered, Kept, Handled, tables
<1>1. CASE JudgeFails(r)
  BY <1>1, EndStep DEF JudgeFails, Refuse
<1>2. CASE HandlerFails(r)
  BY <1>2, EndStep DEF HandlerFails, Refuse
<1>3. CASE Answer(r)
  BY <1>3, EndStep DEF Answer, Step
<1>4. CASE AnswerFails(r)
  BY <1>4, EndStep DEF AnswerFails, Step
<1>5. QED
  BY <1>1, <1>2, <1>3, <1>4

LEMMA StutterStep ==
  ASSUME IInv, UNCHANGED vars
  PROVE  IInv'
<1>1. /\ UNCHANGED <<clock, stage, event, sessions, stored>>
  BY DEF vars
<1>2. clock <= clock' /\ clock' \in Time
  BY <1>1, CommonAssumption DEF IInv, Shape, Time
<1>3. Shape' /\ Alone'
  BY <1>1 DEF IInv, Shape, Alone
<1>4. AllFit'
  BY <1>1 DEF IInv, AllFit, Knows, Fits, CopyIsCurrent, Clean
<1>5. QED
  BY <1>1, <1>2, <1>3, <1>4, RowsStay DEF IInv

LEMMA NextStep ==
  ASSUME IInv, [Next]_vars
  PROVE  IInv'
<1>1. CASE Tick
  BY <1>1, TickStep
<1>2. CASE Crash
  BY <1>2, CrashStep
<1>3. ASSUME NEW r \in Requests, NEW u \in Users, NEW prompt \in Prompts, Post(r, u, prompt)
      PROVE  IInv'
  BY <1>3, PostStep
<1>4. ASSUME NEW r \in Requests, Handle(r)
      PROVE  IInv'
  <2>1. CASE CreateEvent(r)
    BY <2>1, CreateStep
  <2>2. CASE CompletionAnswers(r)
    <3>1. PICK reply \in Replies : Completed(r, reply, FALSE)
      BY <2>2 DEF CompletionAnswers
    <3>2. reply \in Maybe(Replies) /\ FALSE \in BOOLEAN
      BY DEF Maybe
    <3>3. QED
      BY <3>1, <3>2, CompletedStep
  <2>3. CASE CompletionFails(r)
    <3>1. Completed(r, NULL, TRUE) /\ NULL \in Maybe(Replies) /\ TRUE \in BOOLEAN
      BY <2>3 DEF CompletionFails, Maybe
    <3>2. QED
      BY <3>1, CompletedStep
  <2>4. CASE Retry(r) \/ JudgeAnswers(r)
    BY <2>4, RetrySteps
  <2>5. CASE JudgeFails(r) \/ Answer(r)
    BY <2>5, EndSteps
  <2>6. CASE MirrorSucceeds(r)
    <3>1. PICK sent : Mirrored(r, sent, r)
      BY <2>6 DEF MirrorSucceeds
    <3>2. r \in Maybe(Requests)
      BY DEF Maybe
    <3>3. QED
      BY <3>1, <3>2, MirrorStep
  <2>7. CASE MirrorFails(r)
    <3>1. PICK sent : Mirrored(r, sent, NULL)
      BY <2>7 DEF MirrorFails
    <3>2. NULL \in Maybe(Requests)
      BY DEF Maybe
    <3>3. QED
      BY <3>1, <3>2, MirrorStep
  <2>8. CASE Commit(r)
    BY <2>8, CommitStep
  <2>9. QED
    BY <1>4, <2>1, <2>2, <2>3, <2>4, <2>5, <2>6, <2>7, <2>8 DEF Handle
<1>5. ASSUME NEW r \in Requests, HandlerFails(r) \/ AnswerFails(r)
      PROVE  IInv'
  BY <1>5, EndSteps
<1>6. CASE UNCHANGED vars
  BY <1>6, StutterStep
<1>7. QED
  BY <1>1, <1>2, <1>3, <1>4, <1>5, <1>6 DEF Next

LEMMA Invariant == Spec => []IInv
<1>1. IInv /\ [Next]_vars => IInv'
  BY NextStep
<1>2. QED
  BY <1>1, InitInv, PTL DEF Spec

(* What the invariant above leaves out of TypeOK.                          *)
Counters ==
  /\ traces \subseteq Requests
  /\ tasks \in [Users -> Nat]
  /\ faults \in 0 .. MaxFaults

LEMMA CountersStep ==
  ASSUME IInv, Counters, [Next]_vars
  PROVE  Counters'
<1> USE DEF Counters, tables
<1>1. CASE Tick \/ UNCHANGED vars
  BY <1>1 DEF Tick, vars
<1>2. CASE Crash
  BY <1>2, IngestionAssumption DEF Crash
<1>3. ASSUME NEW r \in Requests, \E u \in Users, prompt \in Prompts : Post(r, u, prompt)
      PROVE  Counters'
  BY <1>3 DEF Post
<1>4. ASSUME NEW r \in Requests, HandlerFails(r) \/ AnswerFails(r)
      PROVE  Counters'
  BY <1>4, IngestionAssumption DEF HandlerFails, Refuse, AnswerFails
<1>5. ASSUME NEW r \in Requests, Handle(r)
      PROVE  Counters'
  <2>1. CASE MirrorSucceeds(r)
    <3>1. PICK sent \in {{}, {r}} : Mirrored(r, sent, r)
      BY <2>1 DEF MirrorSucceeds
    <3>2. QED
      BY <3>1 DEF Mirrored
  <2>2. CASE MirrorFails(r)
    <3>1. PICK sent \in {{}, {r}} : Mirrored(r, sent, NULL)
      BY <2>2 DEF MirrorFails
    <3>2. QED
      BY <3>1 DEF Mirrored
  <2>3. CASE Answer(r)
    <3>1. event[r].user \in Users
      BY <2>3, KnowsOf DEF Answer, Step, Handled
    <3>2. QED
      BY <2>3, <3>1 DEF Answer
  <2>4. CASE Commit(r)
    BY <2>4 DEF Commit
  <2>5. CASE CreateEvent(r) \/ CompletionAnswers(r) \/ CompletionFails(r)
    BY <2>5 DEF CreateEvent, CompletionAnswers, CompletionFails, Completed
  <2>6. CASE Retry(r) \/ JudgeAnswers(r) \/ JudgeFails(r)
    BY <2>6 DEF Retry, JudgeAnswers, JudgeFails, Refuse
  <2>7. QED
    BY <1>5, <2>1, <2>2, <2>3, <2>4, <2>5, <2>6 DEF Handle
<1>6. QED
  BY <1>1, <1>2, <1>3, <1>4, <1>5 DEF Next

LEMMA CountersAlways == Spec => []Counters
<1>1. Init => Counters
  BY IngestionAssumption DEF Init, Counters
<1>2. IInv /\ Counters /\ [Next]_vars => Counters'
  BY CountersStep
<1>3. QED
  BY <1>1, <1>2, Invariant, PTL DEF Spec

(* Every variable keeps its type; no request is retried past MaxRetries.   *)
THEOREM IngestionTypes == Spec => []TypeOK
<1>1. IInv /\ Counters => TypeOK
  BY DEF IInv, Shape, Counters, TypeOK
<1>2. QED
  BY <1>1, Invariant, CountersAlways, PTL

-----------------------------------------------------------------------------
(* A trace is of a request that has left the mirror.                       *)
Mirrors == {"committing", "refused"} \cup Kept

TracesSent == \A r \in traces : stage[r] \in Mirrors

LEMMA OneMovesOn ==
  ASSUME IInv, Counters, TracesSent, NEW r \in Requests, NEW s,
         stage' = [stage EXCEPT ![r] = s], traces' \subseteq traces \cup {r},
         r \in traces' => s \in Mirrors
  PROVE  TracesSent'
<1>1. stage'[r] = s /\ \A q \in Requests \ {r} : stage'[q] = stage[q]
  BY DEF IInv, Shape
<1>2. traces \subseteq Requests
  BY DEF Counters
<1>3. QED
  BY <1>1, <1>2 DEF TracesSent

(* Before the mirror a request has no trace; after it the rows are         *)
(* committed or the request is refused.                                    *)
LEMMA TracesStep ==
  ASSUME IInv, Counters, TracesSent, [Next]_vars
  PROVE  TracesSent'
<1> USE DEF Mirrors, Kept
<1>1. CASE Tick \/ UNCHANGED vars
  BY <1>1 DEF Tick, vars, TracesSent
<1>2. CASE Crash
  <2>1. UNCHANGED traces /\ traces \subseteq Requests
    BY <1>2 DEF Crash, Counters
  <2>2. ASSUME NEW r \in traces
        PROVE  stage'[r] \in Mirrors
    <3>1. r \in Requests /\ stage[r] \in Mirrors
      BY <2>1 DEF TracesSent
    <3>2. stage'[r] = IF stage[r] = "answering" THEN "failed"
                      ELSE IF stage[r] \in {"waiting"} \cup Handled THEN "refused"
                      ELSE stage[r]
      BY <1>2, <3>1 DEF Crash
    <3>3. QED
      BY <3>1, <3>2 DEF Handled
  <2>3. QED
    BY <2>1, <2>2 DEF TracesSent
<1>3. ASSUME NEW r \in Requests, NEW u \in Users, NEW prompt \in Prompts, Post(r, u, prompt)
      PROVE  TracesSent'
  <2>1. /\ stage[r] = "unsent" /\ stage' = [stage EXCEPT ![r] = "waiting"]
        /\ UNCHANGED traces
    BY <1>3 DEF Post, Step
  <2>2. r \notin traces
    BY <2>1 DEF TracesSent
  <2>3. QED
    BY <2>1, <2>2, OneMovesOn
<1>4. ASSUME NEW r \in Requests, NEW s, stage' = [stage EXCEPT ![r] = s], UNCHANGED traces,
             stage[r] \notin Mirrors
      PROVE  TracesSent'
  <2>1. r \notin traces
    BY <1>4 DEF TracesSent
  <2>2. QED
    BY <1>4, <2>1, OneMovesOn
<1>5. ASSUME NEW r \in Requests, NEW s \in Mirrors, stage' = [stage EXCEPT ![r] = s],
             traces' \subseteq traces \cup {r}
      PROVE  TracesSent'
  BY <1>5, OneMovesOn
<1>6. ASSUME NEW r \in Requests, HandlerFails(r) \/ AnswerFails(r)
      PROVE  TracesSent'
  BY <1>5, <1>6 DEF HandlerFails, Refuse, AnswerFails, Step
<1>7. ASSUME NEW r \in Requests, Handle(r)
      PROVE  TracesSent'
  <2>1. CASE CreateEvent(r)
    BY <1>4, <2>1 DEF CreateEvent, Step
  <2>2. CASE CompletionAnswers(r) \/ CompletionFails(r)
    <3>1. PICK reply, degraded : Completed(r, reply, degraded)
      BY <2>2 DEF CompletionAnswers, CompletionFails
    <3>2. PICK s : s = IF RulesDecide(event[r].prompt) THEN "mirroring" ELSE "judging"
      OBVIOUS
    <3>3. /\ stage[r] = "completing" /\ UNCHANGED traces
          /\ stage' = [stage EXCEPT ![r] = s]
      BY <3>1, <3>2 DEF Completed, Step
    <3>4. QED
      BY <1>4, <3>3
  <2>3. CASE Retry(r)
    BY <2>3 DEF Retry, TracesSent
  <2>4. CASE JudgeAnswers(r)
    BY <1>4, <2>4 DEF JudgeAnswers, Step
  <2>5. CASE JudgeFails(r)
    BY <1>4, <2>5 DEF JudgeFails, Refuse
  <2>6. CASE MirrorSucceeds(r) \/ MirrorFails(r)
    <3>1. PICK sent \in {{}, {r}} : \E trace : Mirrored(r, sent, trace)
      BY <2>6 DEF MirrorSucceeds, MirrorFails
    <3>2. /\ stage' = [stage EXCEPT ![r] = "committing"]
          /\ traces' \subseteq traces \cup {r}
      BY <3>1 DEF Mirrored, Step
    <3>3. QED
      BY <1>5, <3>2
  <2>7. CASE Commit(r)
    BY <1>5, <2>7 DEF Commit, Step
  <2>8. CASE Answer(r)
    BY <1>5, <2>8 DEF Answer, Step
  <2>9. QED
    BY <1>7, <2>1, <2>2, <2>3, <2>4, <2>5, <2>6, <2>7, <2>8 DEF Handle
<1>8. QED
  BY <1>1, <1>2, <1>3, <1>6, <1>7 DEF Next

(* However many events are handled, and whatever fails or crashes while    *)
(* they are, a session's row counts its stored interactions and carries    *)
(* the time of the last: its handler's copy is never stale when written.   *)
THEOREM SessionsCount == Spec => []SessionsCountTheirEvents
<1>1. IInv => SessionsCountTheirEvents
  BY DEF IInv
<1>2. QED
  BY <1>1, Invariant, PTL

(* For any number of requests and faults, 202 means exactly one stored     *)
(* interaction, a refusal none, and an error answered after the commit one.*)
THEOREM AnswersAreTrue == Spec => []AnswersTellTheTruth
<1>1. IInv => AnswersTellTheTruth
  BY DEF IInv
<1>2. QED
  BY <1>1, Invariant, PTL

(* Whatever fails, and however many requests there are: a trace without an *)
(* interaction is left behind by a request that was answered as refused,   *)
(* and by no other answer.                                                 *)
THEOREM OrphansWereRefused == Spec => []OrphanTracesWereRefused
<1>1. Init => TracesSent
  BY DEF Init, TracesSent
<1>2. IInv /\ Counters /\ TracesSent /\ [Next]_vars => TracesSent'
  BY TracesStep
<1>3. IInv /\ Counters /\ TracesSent => OrphanTracesWereRefused
  <2> SUFFICES ASSUME IInv, Counters, TracesSent, NEW r \in traces, stage[r] \in Answered
               PROVE  StoredOnce(r) \/ stage[r] = "refused"
    BY DEF OrphanTracesWereRefused
  <2>1. r \in Requests /\ stage[r] \in Mirrors
    BY DEF Counters, TracesSent
  <2>2. stage[r] \in {"accepted", "failed"} => StoredOnce(r)
    BY <2>1 DEF IInv, AnswersTellTheTruth
  <2>3. QED
    BY <2>1, <2>2 DEF Mirrors, Kept, Answered
<1>4. QED
  BY <1>1, <1>2, <1>3, Invariant, CountersAlways, PTL DEF Spec

(* For any rules, prompts and replies, what is stored as allowed has a     *)
(* reply of the model that is no refusal, and a prompt no layer matched.   *)
THEOREM AllowedIsClean == Spec => []AllowedMeansClean
<1>1. IInv => AllowedMeansClean
  BY DEF IInv
<1>2. QED
  BY <1>1, Invariant, PTL

-----------------------------------------------------------------------------
(* The rows as Intake has them.                                            *)
Short(rows) == [i \in DOMAIN rows |-> [ts |-> rows[i].ts, session |-> rows[i].session]]
ShortRows == [u \in Users |-> Short(stored[u])]

Stamp == [ts : Time, session : Nat]

LEMMA SeqOfFunction ==
  ASSUME NEW S, NEW k \in Nat, NEW f \in [1 .. k -> S]
  PROVE  f \in Seq(S) /\ Len(f) = k
OBVIOUS

LEMMA ShortAppend ==
  ASSUME NEW rows \in Seq(StoredRow), NEW row \in StoredRow
  PROVE  Short(Append(rows, row)) =
           Append(Short(rows), [ts |-> row.ts, session |-> row.session])
<1>1. PICK n : n = Len(rows) + 1
  OBVIOUS
<1>2. PICK short, cell : short = Short(rows) /\ cell = [ts |-> row.ts, session |-> row.session]
  OBVIOUS
<1>3. PICK now : now = Append(rows, row)
  OBVIOUS
<1>4. /\ Len(rows) \in Nat /\ DOMAIN rows = 1 .. Len(rows) /\ n \notin DOMAIN rows
      /\ DOMAIN now = DOMAIN rows \cup {n} /\ now[n] = row
      /\ \A i \in DOMAIN rows : now[i] = rows[i]
  BY <1>1, <1>3, Appended
<1>5. short \in Seq(Stamp) /\ Len(short) = Len(rows) /\ cell \in Stamp
  <2>1. \A i \in DOMAIN rows : rows[i] \in StoredRow
    OBVIOUS
  <2>2. \A i \in DOMAIN rows : [ts |-> rows[i].ts, session |-> rows[i].session] \in Stamp
    BY <2>1 DEF StoredRow, Stamp
  <2>3. short \in [1 .. Len(rows) -> Stamp]
    BY <1>2, <1>4, <2>2 DEF Short
  <2>4. short \in Seq(Stamp) /\ Len(short) = Len(rows)
    BY <1>4, <2>3, SeqOfFunction
  <2>5. cell \in Stamp
    BY <1>2 DEF StoredRow, Stamp
  <2>6. QED
    BY <2>4, <2>5
<1>6. PICK longer : longer = Append(short, cell)
  OBVIOUS
<1>7. /\ DOMAIN longer = DOMAIN rows \cup {n} /\ longer[n] = cell
      /\ \A i \in DOMAIN rows : longer[i] = short[i]
      /\ longer = [i \in DOMAIN longer |-> longer[i]]
  <2>1. /\ longer \in Seq(Stamp) /\ DOMAIN longer = DOMAIN short \cup {n}
        /\ longer[n] = cell /\ \A i \in DOMAIN short : longer[i] = short[i]
    BY <1>1, <1>5, <1>6, Appended
  <2>2. DOMAIN short = DOMAIN rows
    BY <1>4, <1>5
  <2>3. longer = [i \in DOMAIN longer |-> longer[i]]
    BY <2>1
  <2>4. QED
    BY <2>1, <2>2, <2>3
<1>8. \A i \in DOMAIN now : longer[i] = [ts |-> now[i].ts, session |-> now[i].session]
  BY <1>2, <1>4, <1>7 DEF Short
<1>9. Short(now) = longer
  BY <1>4, <1>7, <1>8 DEF Short
<1>10. QED
  BY <1>2, <1>3, <1>6, <1>9

(* Only the commit writes rows.                                            *)
LEMMA OnlyCommitWrites ==
  ASSUME [Next]_vars
  PROVE  UNCHANGED <<sessions, stored>> \/ \E r \in Requests : Commit(r)
<1>1. CASE Tick \/ Crash \/ UNCHANGED vars
  BY <1>1 DEF Tick, Crash, tables, vars
<1>2. ASSUME NEW r \in Requests, Handle(r)
      PROVE  UNCHANGED <<sessions, stored>> \/ Commit(r)
  BY <1>2 DEF Handle, CreateEvent, CompletionAnswers, CompletionFails, Completed, Retry,
     JudgeAnswers, JudgeFails, Refuse, MirrorSucceeds, MirrorFails, Mirrored, Answer, tables
<1>3. ASSUME NEW r \in Requests,
             \/ \E u \in Users, prompt \in Prompts : Post(r, u, prompt)
             \/ HandlerFails(r) \/ AnswerFails(r)
      PROVE  UNCHANGED <<sessions, stored>>
  BY <1>3 DEF Post, HandlerFails, Refuse, AnswerFails, tables
<1>4. QED
  BY <1>1, <1>2, <1>3 DEF Next

LEMMA SameTables ==
  /\ \A ses, requested, now :
       Tables!ResolveOrCreateSession(ses, requested, now) =
         ResolveOrCreateSession(ses, requested, now)
  /\ \A ses, s, ts : Tables!WithEvent(ses, s, ts) = WithEvent(ses, s, ts)
  /\ Tables!Time = Time
BY DEF Tables!ResolveOrCreateSession, ResolveOrCreateSession, Tables!WithEvent, WithEvent,
   Tables!Time, Time

LEMMA CommitIsIntake ==
  ASSUME IInv, NEW r \in Requests, Commit(r)
  PROVE  Tables!Next
<1>1. PICK e, u, n : e = event[r] /\ u = e.user /\ n = Len(stored[u]) + 1
  OBVIOUS
<1>2. PICK row, s, ts : row = RowOf(r, e) /\ s = e.session /\ ts = e.ts
  OBVIOUS
<1>3. /\ u \in Users /\ e \in Event /\ CopyIsCurrent(e)
      /\ row \in StoredRow /\ stored[u] \in Seq(StoredRow)
      /\ sessions' = [sessions EXCEPT ![u] = WithEvent(@, s, ts)]
      /\ stored' = [stored EXCEPT ![u] = Append(@, row)]
  BY <1>1, <1>2, CommitWrites
<1>4. ts \in Time
  BY <1>2, <1>3 DEF Event
<1>5. PICK requested \in 0 .. Len(sessions[u]) :
        s = ResolveOrCreateSession(sessions[u], requested, ts)
  BY <1>1, <1>2, <1>3 DEF CopyIsCurrent
<1>6. row.ts = ts /\ row.session = s
  BY <1>2 DEF RowOf
<1>7. PICK cell : cell = [ts |-> ts, session |-> s]
  OBVIOUS
<1>8. ShortRows' = [ShortRows EXCEPT ![u] = Append(@, cell)]
  <2>1. ShortRows' = [v \in Users |-> Short(stored'[v])]
    BY DEF ShortRows, Short
  <2>2. Short(stored'[u]) = Append(Short(stored[u]), cell)
    <3>1. stored'[u] = Append(stored[u], row)
      BY <1>3 DEF IInv, Shape
    <3>2. QED
      BY <1>3, <1>6, <1>7, <3>1, ShortAppend
  <2>3. \A v \in Users \ {u} : stored'[v] = stored[v]
    BY <1>3 DEF IInv, Shape
  <2>4. PICK before, now : before = ShortRows /\ now = ShortRows'
    OBVIOUS
  <2>5. /\ before = [v \in Users |-> Short(stored[v])]
        /\ now = [v \in Users |-> Short(stored'[v])]
    BY <2>1, <2>4 DEF ShortRows
  <2>6. \A v \in Users : now[v] = IF v = u THEN Append(before[u], cell) ELSE before[v]
    <3>1. ASSUME NEW v \in Users
          PROVE  now[v] = Short(stored'[v]) /\ before[v] = Short(stored[v])
      BY <2>5
    <3>2. now[u] = Append(before[u], cell)
      BY <1>3, <2>2, <3>1
    <3>3. ASSUME NEW v \in Users \ {u}
          PROVE  now[v] = before[v]
      BY <2>3, <3>1
    <3>4. QED
      BY <3>2, <3>3
  <2>7. now = [before EXCEPT ![u] = Append(before[u], cell)]
    BY <2>5, <2>6
  <2>8. QED
    BY <2>4, <2>7
<1>9. \A i \in DOMAIN ShortRows[u] : ShortRows[u][i].ts <= ts
  BY <1>1, <1>2, <1>3 DEF ShortRows, Short, CopyIsCurrent
<1>10. Tables!StoreEvent(u, requested, ts)
  BY <1>3, <1>5, <1>7, <1>8, <1>9, SameTables DEF Tables!StoreEvent, ShortRows, Short
<1>11. QED
  BY <1>3, <1>4, <1>5, <1>10, SameTables DEF Tables!Next

(* The pipeline of the handlers, its retries, failures and crashes store   *)
(* events as if each were stored at once, in its session as the tables     *)
(* stand and not before any earlier one: they implement Intake.            *)
THEOREM IngestionImplementsIntake == Spec => ImplementsIntake
<1>1. Init => Tables!Init
  BY DEF Init, Tables!Init
<1>2. IInv /\ [Next]_vars => [Tables!Next]_Tables!intakeVars
  <2> SUFFICES ASSUME IInv, [Next]_vars
               PROVE  [Tables!Next]_Tables!intakeVars
    OBVIOUS
  <2>1. CASE UNCHANGED <<sessions, stored>>
    BY <2>1 DEF Tables!intakeVars
  <2>2. CASE \E r \in Requests : Commit(r)
    BY <2>2, CommitIsIntake
  <2>3. QED
    BY <2>1, <2>2, OnlyCommitWrites
<1>3. QED
  BY <1>1, <1>2, Invariant, PTL DEF Spec, ImplementsIntake, Tables!Spec
=============================================================================
