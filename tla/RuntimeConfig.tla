---------------------------- MODULE RuntimeConfig ----------------------------
(***************************************************************************)
(* The settings an operator may change while the service runs              *)
(* (app/runtime_config.py) and the request that changes them               *)
(* (PUT /v1/admin/config, app/api/admin.py). The overrides live in the     *)
(* memory of the one process; the environment gives the other values.      *)
(*                                                                         *)
(* The handlers run on threads. An update and a merge are one call each on *)
(* a built-in dictionary, so each is a step; the answer of a PUT is a      *)
(* second merge, after the update gave its lock back.                      *)
(***************************************************************************)
EXTENDS Common

CONSTANTS
  Fields,  \* _PUBLIC_CONFIG_FIELDS
  Env,     \* get_settings(): setting -> value
  Bodies,  \* the bodies of PUT requests: functions from keys to values
  Puts     \* bound: the PUT requests

ASSUME ConfigAssumption ==
  /\ Env \in [Fields -> Nat]
  /\ \A body \in Bodies : body \in [DOMAIN body -> Nat]
  /\ NULL \notin Bodies

VARIABLES
  overrides,  \* setting -> value, for the settings that were overridden
  put         \* PUT request -> where it stands

configVars == <<overrides, put>>

Settings == [Fields -> Nat]

(* after is history: the PUT requests that were answered before this one   *)
(* came in.                                                                *)
PutRequest ==
  [stage : {"new", "received", "applied", "answered", "refused", "lost"},
   body : Maybe(Bodies), answer : Maybe(Settings), after : SUBSET Puts]

ConfigInit ==
  /\ overrides = [f \in {} |-> 0]
  /\ put = [p \in Puts |->
              [stage |-> "new", body |-> NULL, answer |-> NULL, after |-> {}]]

-----------------------------------------------------------------------------
EffectiveSettings ==
  [f \in Fields |-> IF f \in DOMAIN overrides THEN overrides[f] ELSE Env[f]]

AnsweredPuts == {p \in Puts : put[p].stage = "answered"}

ReceivePut(p, body) ==
  /\ put[p].stage = "new"
  /\ put' = [put EXCEPT ![p].stage = "received", ![p].body = body,
                        ![p].after = AnsweredPuts]
  /\ UNCHANGED overrides

(* A key that is not tunable: 400, and no other key of the body is applied.*)
RefusePut(p) ==
  /\ put[p].stage = "received"
  /\ ~(DOMAIN put[p].body \subseteq Fields)
  /\ put' = [put EXCEPT ![p].stage = "refused"]
  /\ UNCHANGED overrides

UpdateUnchecked(p) ==  \* mutant: any key of the settings may be overridden
  LET body == put[p].body IN
  /\ put[p].stage = "received"
  /\ overrides' = [f \in DOMAIN overrides \cup DOMAIN body |->
                     IF f \in DOMAIN body THEN body[f] ELSE overrides[f]]
  /\ put' = [put EXCEPT ![p].stage = "applied"]

(* The values are not looked at.                                           *)
UpdateOverrides(p) ==
  LET body == put[p].body IN
  /\ put[p].stage = "received"
  /\ DOMAIN body \subseteq Fields
  /\ overrides' = [f \in DOMAIN overrides \cup DOMAIN body |->
                     IF f \in DOMAIN body THEN body[f] ELSE overrides[f]]
  /\ put' = [put EXCEPT ![p].stage = "applied"]

AnswerFromEnv(p) ==  \* mutant: answers with get_settings()
  /\ put[p].stage = "applied"
  /\ put' = [put EXCEPT ![p].stage = "answered", ![p].answer = Env]
  /\ UNCHANGED overrides

(* _build_config_response: the settings as they are by now.                *)
AnswerPut(p) ==
  /\ put[p].stage = "applied"
  /\ put' = [put EXCEPT ![p].stage = "answered", ![p].answer = EffectiveSettings]
  /\ UNCHANGED overrides

(* The process dies: the overrides are gone and open requests are lost. A  *)
(* request of the old process tells nothing about the new one.             *)
ForgetOverrides ==
  /\ overrides' = [f \in {} |-> 0]
  /\ put' = [p \in Puts |-> IF put[p].stage = "new" THEN put[p]
                            ELSE [put[p] EXCEPT !.stage = "lost"]]

ConfigStep == \E p \in Puts : RefusePut(p) \/ UpdateOverrides(p) \/ AnswerPut(p)

-----------------------------------------------------------------------------
Overrides(p, f, v) ==
  /\ put[p].stage \in {"applied", "answered"}
  /\ f \in DOMAIN put[p].body
  /\ put[p].body[f] = v

(* The value v of setting f is one a reader may see who started when the   *)
(* requests in known had been answered: nobody whose request is among them *)
(* or was answered before one of them has overwritten it.                  *)
CurrentValue(f, v, known) ==
  LET overwriting == {q \in known : f \in DOMAIN put[q].body} IN
  \/ overwriting = {} /\ v = Env[f]
  \/ \E p \in Puts : Overrides(p, f, v) /\ \A q \in overwriting : p \notin put[q].after
=============================================================================
