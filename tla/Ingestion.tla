------------------------------ MODULE Ingestion ------------------------------
(***************************************************************************)
(* POST /v1/events (app/api/events.py): a request resolves its session,    *)
(* asks the model, evaluates the guardrail, tags the capability level,     *)
(* mirrors a trace to Langfuse, commits its rows and schedules detection.  *)
(* The model (app/llm/groq_provider.py) and Langfuse                       *)
(* (app/integrations/langfuse_mirror.py) fail at any call; the handler may *)
(* fail at any point and the process may die.                              *)
(*                                                                         *)
(* The handler is a coroutine that never awaits: the event loop runs one   *)
(* handler from its start to its answer before it starts another.          *)
(***************************************************************************)
EXTENDS SessionTables, Guardrail

CONSTANTS
  Users,
  Requests,         \* the POSTs clients may send
  MaxRetries,       \* Settings.llm_max_retries
  LangfuseEnabled,  \* LangfuseMirror.is_configured
  MaxFaults         \* bound: failures outside the model and Langfuse, crashes

ASSUME IngestionAssumption ==
  /\ MaxRetries \in Nat \ {0}
  /\ LangfuseEnabled \in BOOLEAN
  /\ MaxFaults \in Nat
  /\ NULL \notin Requests \cup Replies

VARIABLES
  clock,     \* the wall clock
  stage,     \* request -> how far it has come
  event,     \* request -> what its handler knows
  sessions,  \* user -> committed session rows
  stored,    \* user -> committed interaction rows
  traces,    \* the requests whose trace Langfuse gets, now or later
  tasks,     \* user -> background cycles scheduled
  faults     \* faults so far

vars == <<clock, stage, event, sessions, stored, traces, tasks, faults>>
tables == <<sessions, stored, tasks>>

Handled == {"completing", "judging", "mirroring", "committing", "answering"}
Answered == {"accepted", "llm_error", "refused", "failed"}
Stages == {"unsent", "waiting"} \cup Handled \cup Answered

StoredRow ==
  [id : Requests, ts : Time, session : Nat, prompt : Prompts,
   reply : Maybe(Replies), outcome : Outcomes, trace : Maybe(Requests)]

(* session is the requested one until it is resolved; 0 for none.          *)
NoEvent ==
  [user |-> NULL, prompt |-> NULL, session |-> 0, ts |-> 0, seen |-> <<>>,
   attempts |-> 0, reply |-> NULL, outcome |-> "allowed", trace |-> NULL]

Init ==
  /\ clock = 0
  /\ stage = [r \in Requests |-> "unsent"]
  /\ event = [r \in Requests |-> NoEvent]
  /\ sessions = [u \in Users |-> <<>>]
  /\ stored = [u \in Users |-> <<>>]
  /\ traces = {}
  /\ tasks = [u \in Users |-> 0]
  /\ faults = 0

-----------------------------------------------------------------------------
Tick ==
  /\ clock < MaxTime
  /\ clock' = clock + 1
  /\ UNCHANGED <<stage, event, tables, traces, faults>>

Step(r, from, to) ==
  /\ stage[r] = from
  /\ stage' = [stage EXCEPT ![r] = to]

(* A client sends a prompt, with a session id it was answered or none.     *)
Post(r, u, prompt) ==
  /\ Step(r, "unsent", "waiting")
  /\ \E requested \in 0 .. Len(sessions[u]) :
       event' = [event EXCEPT ![r] = [NoEvent EXCEPT
         !.user = u, !.session = requested, !.prompt = prompt]]
  /\ UNCHANGED <<clock, tables, traces, faults>>

AnyHandler == TRUE  \* mutant: a plain def handler, run by the thread pool

EventLoopFree == \A r \in Requests : stage[r] \notin Handled

(* The handler starts: it takes the time and reads the session.            *)
CreateEvent(r) ==
  LET ses == sessions[event[r].user] IN
  /\ Step(r, "waiting", "completing")
  /\ EventLoopFree
  /\ event' = [event EXCEPT ![r].ts = clock, ![r].seen = ses,
       ![r].session = ResolveOrCreateSession(ses, @, clock)]
  /\ UNCHANGED <<clock, tables, traces, faults>>

-----------------------------------------------------------------------------
CompletedAndMirrored(r, reply, degraded) ==  \* mutant: mirrored before tagged
  LET prompt == event[r].prompt IN
  /\ Step(r, "completing", IF RulesDecide(prompt) THEN "mirroring" ELSE "judging")
  /\ event' = [event EXCEPT
       ![r].attempts = 0,
       ![r].reply = reply,
       ![r].outcome = GuardrailEvaluate(prompt, reply, degraded).outcome]
  /\ traces' = traces \cup {r}
  /\ UNCHANGED <<clock, tables, faults>>

(* The outcome of the target completion, judged by the guardrail; the      *)
(* judge is asked when the rules do not decide the capability level.       *)
Completed(r, reply, degraded) ==
  LET prompt == event[r].prompt IN
  /\ Step(r, "completing", IF RulesDecide(prompt) THEN "mirroring" ELSE "judging")
  /\ event' = [event EXCEPT
       ![r].attempts = 0,
       ![r].reply = reply,
       ![r].outcome = GuardrailEvaluate(prompt, reply, degraded).outcome]
  /\ UNCHANGED <<clock, tables, traces, faults>>

RetryForever(r) ==  \* mutant: no stop_after_attempt
  /\ stage[r] \in {"completing", "judging"}
  /\ event[r].attempts < MaxRetries
  /\ event' = [event EXCEPT ![r].attempts =
       IF @ + 1 < MaxRetries THEN @ + 1 ELSE 0]
  /\ UNCHANGED <<clock, stage, tables, traces, faults>>

RetryOnceMore(r) ==  \* mutant: one attempt too many
  /\ stage[r] \in {"completing", "judging"}
  /\ event[r].attempts < MaxRetries
  /\ event' = [event EXCEPT ![r].attempts = @ + 1]
  /\ UNCHANGED <<clock, stage, tables, traces, faults>>

(* A retryable error with attempts left.                                   *)
Retry(r) ==
  /\ stage[r] \in {"completing", "judging"}
  /\ event[r].attempts + 1 < MaxRetries
  /\ event' = [event EXCEPT ![r].attempts = @ + 1]
  /\ UNCHANGED <<clock, stage, tables, traces, faults>>

CompletionAnswers(r) == \E reply \in Replies : Completed(r, reply, FALSE)

(* Any other error, or the last attempt: complete() swallows it.           *)
CompletionFails(r) == Completed(r, NULL, TRUE)

(* The judge's digit, or 0 when there is none, becomes the row's level.    *)
JudgeAnswers(r) ==
  /\ Step(r, "judging", "mirroring")
  /\ event' = [event EXCEPT ![r].attempts = 0]
  /\ UNCHANGED <<clock, tables, traces, faults>>

RefuseKeepingRows(r, answer) ==  \* mutant: the rows were committed early
  /\ stage' = [stage EXCEPT ![r] = answer]
  /\ stored' = [stored EXCEPT ![event[r].user] = Append(@,
       [id |-> r, ts |-> event[r].ts, session |-> event[r].session,
        prompt |-> event[r].prompt, reply |-> NULL, outcome |-> "allowed",
        trace |-> NULL])]
  /\ event' = [event EXCEPT ![r] = NoEvent]
  /\ UNCHANGED <<clock, sessions, traces, tasks>>

(* An exception leaves the handler before the commit: closing the session  *)
(* rolls the transaction back.                                             *)
Refuse(r, answer) ==
  /\ stage' = [stage EXCEPT ![r] = answer]
  /\ event' = [event EXCEPT ![r] = NoEvent]
  /\ UNCHANGED <<clock, tables, traces>>

(* judge_capability, unlike complete, lets the last error through.         *)
JudgeFails(r) ==
  /\ stage[r] = "judging"
  /\ Refuse(r, "llm_error")
  /\ UNCHANGED faults

(* The embedding, a flush or the commit fails.                             *)
HandlerFails(r) ==
  /\ faults < MaxFaults
  /\ stage[r] \in Handled \ {"answering"}
  /\ Refuse(r, "refused")
  /\ faults' = faults + 1

-----------------------------------------------------------------------------
Mirrored(r, sent, trace) ==
  /\ Step(r, "mirroring", "committing")
  /\ traces' = traces \cup sent
  /\ event' = [event EXCEPT ![r].trace = trace]
  /\ UNCHANGED <<clock, tables, faults>>

(* trace() puts the trace in the client's queue, under an id the handler   *)
(* chose, and flush() waits for the upload but does not raise its error:   *)
(* the id is returned whether or not Langfuse gets the trace.              *)
MirrorSucceeds(r) ==
  LangfuseEnabled /\ \E sent \in {{}, {r}} : Mirrored(r, sent, r)

(* Not configured, or an error is swallowed, with the trace in the queue   *)
(* or not.                                                                 *)
MirrorFails(r) ==
  \E sent \in {{}, {r}} : (sent # {} => LangfuseEnabled) /\ Mirrored(r, sent, NULL)

(* The rows become visible: the session as it was read, one event later.   *)
Commit(r) ==
  LET e == event[r]
      rows == WithEvent(e.seen, e.session, e.ts)
      before == sessions[e.user]
  IN
  /\ Step(r, "committing", "answering")
  /\ sessions' = [sessions EXCEPT ![e.user] =
       IF e.session \in DOMAIN before
         THEN [before EXCEPT ![e.session] = rows[e.session]]
         ELSE Append(before, rows[e.session])]
  /\ stored' = [stored EXCEPT ![e.user] = Append(@,
       [id |-> r, ts |-> e.ts, session |-> e.session, prompt |-> e.prompt,
        reply |-> e.reply, outcome |-> e.outcome, trace |-> e.trace])]
  /\ UNCHANGED <<clock, event, traces, tasks, faults>>

(* 202, with the detection task behind the response.                       *)
Answer(r) ==
  /\ Step(r, "answering", "accepted")
  /\ tasks' = [tasks EXCEPT ![event[r].user] = @ + 1]
  /\ event' = [event EXCEPT ![r] = NoEvent]
  /\ UNCHANGED <<clock, sessions, stored, traces, faults>>

(* The risk snapshot fails: an error is answered and no task runs.         *)
AnswerFails(r) ==
  /\ faults < MaxFaults
  /\ Step(r, "answering", "failed")
  /\ faults' = faults + 1
  /\ event' = [event EXCEPT ![r] = NoEvent]
  /\ UNCHANGED <<clock, tables, traces>>

(* The process dies: whoever waits for an answer gets a broken connection. *)
Crash ==
  /\ faults < MaxFaults
  /\ faults' = faults + 1
  /\ stage' = [r \in Requests |->
       IF stage[r] = "answering" THEN "failed"
       ELSE IF stage[r] \in {"waiting"} \cup Handled THEN "refused"
       ELSE stage[r]]
  /\ event' = [r \in Requests |-> NoEvent]
  /\ tasks' = [u \in Users |-> 0]
  /\ UNCHANGED <<clock, sessions, stored, traces>>

-----------------------------------------------------------------------------
Handle(r) ==
  \/ CreateEvent(r)
  \/ CompletionAnswers(r)
  \/ CompletionFails(r)
  \/ Retry(r)
  \/ JudgeAnswers(r)
  \/ JudgeFails(r)
  \/ MirrorSucceeds(r)
  \/ MirrorFails(r)
  \/ Commit(r)
  \/ Answer(r)

Next ==
  \/ Tick
  \/ Crash
  \/ \E r \in Requests :
       \/ \E u \in Users, prompt \in Prompts : Post(r, u, prompt)
       \/ Handle(r)
       \/ HandlerFails(r)
       \/ AnswerFails(r)

Spec == Init /\ [][Next]_vars

(* The event loop runs its handlers: every call of theirs returns, the     *)
(* model's within its timeout.                                             *)
Fairness == \A r \in Requests : WF_vars(Handle(r))

FairSpec == Spec /\ Fairness

-----------------------------------------------------------------------------
Event ==
  [user : Maybe(Users), prompt : Maybe(Prompts), session : Nat, ts : Time,
   seen : Seq(SessionRow), attempts : 0 .. MaxRetries - 1,
   reply : Maybe(Replies), outcome : Outcomes, trace : Maybe(Requests)]

TypeOK ==
  /\ clock \in Time
  /\ stage \in [Requests -> Stages]
  /\ event \in [Requests -> Event]
  /\ sessions \in [Users -> Seq(SessionRow)]
  /\ stored \in [Users -> Seq(StoredRow)]
  /\ traces \subseteq Requests
  /\ tasks \in [Users -> Nat]
  /\ faults \in 0 .. MaxFaults

RowsOf(u, s) == {i \in DOMAIN stored[u] : stored[u][i].session = s}

(* The session row and the interaction row of an event are written from a  *)
(* copy of the session read before the model was asked: each session still *)
(* counts its interactions and carries the time of the last of them,       *)
(* whatever fails in between.                                              *)
SessionsCountTheirEvents ==
  \A u \in Users : \A s \in DOMAIN sessions[u] :
    /\ sessions[u][s].interactionCount = Cardinality(RowsOf(u, s))
    /\ \E i \in RowsOf(u, s) : stored[u][i].ts = sessions[u][s].lastEventAt
    /\ \A i \in RowsOf(u, s) : stored[u][i].ts <= sessions[u][s].lastEventAt

(* The handlers implement Intake: whole events, stored in the order of     *)
(* their times, in the session the tables call for when they are stored.   *)
Tables == INSTANCE Intake WITH
  interactions <- [u \in Users |-> [i \in DOMAIN stored[u] |->
                    [ts |-> stored[u][i].ts, session |-> stored[u][i].session]]]

ImplementsIntake == Tables!Spec

(* Where the event of a request is stored, and that it is once.            *)
Copies(r) == {u \in Users : \E i \in DOMAIN stored[u] : stored[u][i].id = r}

StoredOnce(r) ==
  \E u \in Users : \E i \in DOMAIN stored[u] :
    /\ Copies(r) = {u}
    /\ {j \in DOMAIN stored[u] : stored[u][j].id = r} = {i}

(* An answer tells what became of the event: 202 means exactly one stored  *)
(* interaction, a refusal none; only a failure after the commit leaves the *)
(* event behind an error answer.                                           *)
AnswersTellTheTruth ==
  \A r \in Requests :
    IF stage[r] \in {"answering", "accepted", "failed"} THEN StoredOnce(r)
                                                      ELSE Copies(r) = {}

(* The trace leaves before the commit, and a failure between the two       *)
(* leaves a trace without an interaction. No other orphan is left behind:  *)
(* not by a model outage, a retry or an error after the commit. Whose      *)
(* event it is was told that it was refused.                               *)
OrphanTracesWereRefused ==
  \A r \in traces : stage[r] \in Answered => StoredOnce(r) \/ stage[r] = "refused"

(* "never fabricate a response": an interaction is stored as allowed only  *)
(* when the model did answer, did not refuse, and no input layer matched.  *)
AllowedMeansClean ==
  \A u \in Users : \A i \in DOMAIN stored[u] :
    LET row == stored[u][i] IN
    row.outcome = "allowed" =>
      /\ row.reply # NULL
      /\ row.reply \notin Refusals \ Blank
      /\ Denies[row.prompt] = {} /\ row.prompt \notin Sensitive

(* Every request is answered, whatever the model and Langfuse do: retries  *)
(* end and no handler keeps the event loop for ever.                       *)
EveryRequestAnswered ==
  \A r \in Requests : stage[r] = "waiting" ~> stage[r] \in Answered

-----------------------------------------------------------------------------
(* Statements of the repository's documents that the code does not keep.   *)

(* "on hard failure, mark is_degraded=true, guardrail_outcome='flagged' so *)
(* ingestion degrades gracefully": no event is refused for a failing model.*)
ModelOutagesDegrade == \A r \in Requests : stage[r] # "llm_error"
=============================================================================
