--------------------------- MODULE RequestProofs ---------------------------
(***************************************************************************)
(* Proofs about the operators' requests of Operations, for any number of   *)
(* requests, threads, cycles and restarts: what the answers of             *)
(* PUT /admin/config and the recomputes that follow them may be, which     *)
(* status concurrent patches leave of an alert, and what they are answered *)
(* with.                                                                   *)
(***************************************************************************)
EXTENDS Operations, TLAPS

(* The override of a setting is that of a request which no request that    *)
(* was applied has strictly followed: the last writer.                     *)
InForce(p) == put[p].stage \in {"applied", "answered"}

LastWriter(p, f) ==
  /\ Overrides(p, f, overrides[f])
  /\ \A q \in Puts : InForce(q) /\ f \in DOMAIN put[q].body => p \notin put[q].after

ConfigTypes ==
  /\ DOMAIN overrides \subseteq Fields
  /\ overrides \in [DOMAIN overrides -> Nat]
  /\ put \in [Puts -> PutRequest]
  /\ \A p \in Puts : put[p].stage = "received" => put[p].body \in Bodies
  /\ \A p \in Puts : InForce(p) =>
       put[p].body \in Bodies /\ DOMAIN put[p].body \subseteq DOMAIN overrides

AfterAnswered ==
  \A p, q \in Puts : q \in put[p].after => put[q].stage \in {"answered", "lost"}

OverridesWritten == \A f \in DOMAIN overrides : \E p \in Puts : LastWriter(p, f)

ConfigInv == ConfigTypes /\ AfterAnswered /\ OverridesWritten /\ PutAnswersShowTheUpdate

(* A recompute in progress.                                                *)
JobKeepsSettings(w) ==
  job[w] # NULL /\ job[w].kind = "recompute" =>
    /\ job[w].known \subseteq AnsweredPuts
    /\ \A f \in Fields : CurrentValue(f, job[w].settings[f], job[w].known)

JobInv == DOMAIN job = Workers /\ \A w \in Workers : JobKeepsSettings(w)

-----------------------------------------------------------------------------
LEMMA InitConfigInv == Init => ConfigInv /\ JobInv
<1> SUFFICES ASSUME Init PROVE ConfigInv /\ JobInv
  OBVIOUS
<1> USE DEF Init, ConfigInit
<1>1. ConfigTypes
  BY DEF ConfigTypes, PutRequest, InForce, Maybe
<1>2. AfterAnswered /\ OverridesWritten
  BY DEF AfterAnswered, OverridesWritten
<1>3. PutAnswersShowTheUpdate
  BY DEF PutAnswersShowTheUpdate, AnsweredPuts
<1>4. JobInv
  BY DEF JobInv, JobKeepsSettings
<1>5. QED
  BY <1>1, <1>2, <1>3, <1>4 DEF ConfigInv

(* A request that is in force stays so, with its body and its history,     *)
(* while the process lives.                                                *)
PutsKept ==
  \A p \in Puts : InForce(p) =>
    /\ InForce(p)'
    /\ put[p].stage = "answered" =>
         put'[p].stage = "answered" /\ put'[p].answer = put[p].answer
    /\ put'[p].body = put[p].body
    /\ put'[p].after = put[p].after

LEMMA RequestSteps ==
  ASSUME ConfigTypes, NEW p \in Puts,
         \/ \E body \in Bodies : ReceivePut(p, body)
         \/ RefusePut(p) \/ UpdateOverrides(p) \/ AnswerPut(p)
  PROVE  /\ PutsKept
         /\ \A q \in Puts \ {p} : put'[q] = put[q]
         /\ put[p].stage # "answered"
         /\ put[p].stage # "new" =>
              put'[p].body = put[p].body /\ put'[p].after = put[p].after
<1> USE DEF ConfigTypes, PutRequest, Maybe
<1>1. \A q \in Puts \ {p} : put'[q] = put[q]
  BY DEF ReceivePut, RefusePut, UpdateOverrides, AnswerPut
<1>2. /\ put[p].stage # "answered"
      /\ put[p].stage # "new" =>
           put'[p].body = put[p].body /\ put'[p].after = put[p].after
  <2>1. put[p] \in PutRequest
    OBVIOUS
  <2>2. ASSUME NEW body \in Bodies, ReceivePut(p, body)
        PROVE  put[p].stage = "new"
    BY <2>2 DEF ReceivePut
  <2>3. CASE RefusePut(p)
    BY <2>1, <2>3 DEF RefusePut
  <2>4. CASE UpdateOverrides(p)
    BY <2>1, <2>4 DEF UpdateOverrides
  <2>5. CASE AnswerPut(p)
    BY <2>1, <2>5 DEF AnswerPut
  <2>6. QED
    BY <2>2, <2>3, <2>4, <2>5
<1>3. InForce(p) => InForce(p)' /\ put[p].stage # "new"
  BY DEF InForce, ReceivePut, RefusePut, UpdateOverrides, AnswerPut
<1>4. QED
  BY <1>1, <1>2, <1>3 DEF PutsKept, InForce

LEMMA NewStage ==
  ASSUME ConfigTypes, NEW p \in Puts
  PROVE  /\ \A body \in Bodies : ReceivePut(p, body) =>
              /\ put[p].stage = "new" /\ put'[p].stage = "received"
              /\ put'[p].after = AnsweredPuts
         /\ RefusePut(p) => put[p].stage = "received" /\ put'[p].stage = "refused"
         /\ UpdateOverrides(p) => put[p].stage = "received" /\ put'[p].stage = "applied"
         /\ AnswerPut(p) => put[p].stage = "applied" /\ put'[p].stage = "answered"
<1>1. put[p] \in PutRequest /\ put \in [Puts -> PutRequest]
  BY DEF ConfigTypes
<1>2. ASSUME NEW body \in Bodies, ReceivePut(p, body)
      PROVE  /\ put[p].stage = "new" /\ put'[p].stage = "received"
             /\ put'[p].after = AnsweredPuts
  BY <1>1, <1>2 DEF ReceivePut, PutRequest
<1>3. RefusePut(p) => put[p].stage = "received" /\ put'[p].stage = "refused"
  BY <1>1 DEF RefusePut, PutRequest
<1>4. UpdateOverrides(p) => put[p].stage = "received" /\ put'[p].stage = "applied"
  BY <1>1 DEF UpdateOverrides, PutRequest
<1>5. AnswerPut(p) => put[p].stage = "applied" /\ put'[p].stage = "answered"
  BY <1>1 DEF AnswerPut, PutRequest
<1>6. QED
  BY <1>2, <1>3, <1>4, <1>5

-----------------------------------------------------------------------------
(* Each step of a request keeps the types, given by its kind.              *)
LEMMA MergedSettings == ConfigTypes => EffectiveSettings \in Settings
BY ConfigAssumption DEF ConfigTypes, EffectiveSettings, Settings

LEMMA ReceiveTypes ==
  ASSUME ConfigTypes, NEW p \in Puts, NEW body \in Bodies, ReceivePut(p, body)
  PROVE  ConfigTypes'
<1> DEFINE r == [put[p] EXCEPT !.stage = "received", !.body = body, !.after = AnsweredPuts]
<1>1. put[p] \in PutRequest /\ AnsweredPuts \in SUBSET Puts
  BY DEF ConfigTypes, AnsweredPuts
<1>2. r \in PutRequest /\ r.stage = "received" /\ r.body = body
  BY <1>1 DEF PutRequest, Maybe
<1>3. put' = [put EXCEPT ![p] = r] /\ overrides' = overrides
  BY <1>1 DEF ReceivePut, ConfigTypes
<1> HIDE DEF r
<1>4. put' \in [Puts -> PutRequest]
  BY <1>2, <1>3 DEF ConfigTypes
<1>5. put'[p] = r /\ \A q \in Puts \ {p} : put'[q] = put[q]
  BY <1>3 DEF ConfigTypes
<1>6. QED
  BY <1>2, <1>3, <1>4, <1>5 DEF ConfigTypes, InForce

LEMMA RefuseTypes ==
  ASSUME ConfigTypes, NEW p \in Puts, RefusePut(p)
  PROVE  ConfigTypes'
<1> DEFINE r == [put[p] EXCEPT !.stage = "refused"]
<1>1. put[p] \in PutRequest
  BY DEF ConfigTypes
<1>2. r \in PutRequest /\ r.stage = "refused"
  BY <1>1 DEF PutRequest
<1>3. put' = [put EXCEPT ![p] = r] /\ overrides' = overrides
  BY DEF RefusePut
<1> HIDE DEF r
<1>4. put' \in [Puts -> PutRequest]
  BY <1>2, <1>3 DEF ConfigTypes
<1>5. put'[p] = r /\ \A q \in Puts \ {p} : put'[q] = put[q]
  BY <1>3 DEF ConfigTypes
<1>6. QED
  BY <1>2, <1>3, <1>4, <1>5 DEF ConfigTypes, InForce

LEMMA UpdateTypes ==
  ASSUME ConfigTypes, NEW p \in Puts, UpdateOverrides(p)
  PROVE  /\ ConfigTypes'
         /\ put[p].stage = "received" /\ put'[p].stage = "applied"
         /\ \A f \in DOMAIN put[p].body : overrides'[f] = put[p].body[f]
         /\ \A f \in DOMAIN overrides' \ DOMAIN put[p].body :
              f \in DOMAIN overrides /\ overrides'[f] = overrides[f]
<1> DEFINE r == [put[p] EXCEPT !.stage = "applied"]
           body == put[p].body
<1>1. put[p] \in PutRequest /\ put[p].stage = "received" /\ body \in Bodies
  BY DEF ConfigTypes, UpdateOverrides
<1>2. r \in PutRequest /\ r.stage = "applied" /\ r.body = body
  BY <1>1 DEF PutRequest
<1>3. put' = [put EXCEPT ![p] = r]
  BY DEF UpdateOverrides
<1>4. overrides' = [f \in DOMAIN overrides \cup DOMAIN body |->
                      IF f \in DOMAIN body THEN body[f] ELSE overrides[f]]
  BY DEF UpdateOverrides
<1>5. body \in [DOMAIN body -> Nat] /\ DOMAIN body \subseteq Fields
  BY <1>1, ConfigAssumption DEF UpdateOverrides
<1> HIDE DEF r, body
<1>6. put' \in [Puts -> PutRequest]
  BY <1>2, <1>3 DEF ConfigTypes
<1>7. put'[p] = r /\ \A q \in Puts \ {p} : put'[q] = put[q]
  BY <1>3 DEF ConfigTypes
<1>8. overrides' \in [DOMAIN overrides' -> Nat] /\ DOMAIN overrides' \subseteq Fields
  BY <1>4, <1>5 DEF ConfigTypes
<1>9. ConfigTypes'
  BY <1>1, <1>2, <1>4, <1>6, <1>7, <1>8 DEF ConfigTypes, InForce
<1>10. QED
  BY <1>1, <1>2, <1>4, <1>7, <1>9 DEF body

LEMMA AnswerTypes ==
  ASSUME ConfigTypes, NEW p \in Puts, AnswerPut(p)
  PROVE  /\ ConfigTypes'
         /\ put[p].stage = "applied" /\ put'[p].stage = "answered"
         /\ put'[p].answer = EffectiveSettings
         /\ overrides' = overrides
<1> DEFINE r == [put[p] EXCEPT !.stage = "answered", !.answer = EffectiveSettings]
<1>1. put[p] \in PutRequest /\ put[p].stage = "applied"
  BY DEF ConfigTypes, AnswerPut
<1>2. /\ r \in PutRequest /\ r.stage = "answered"
      /\ r.body = put[p].body /\ r.answer = EffectiveSettings
  BY <1>1, MergedSettings DEF PutRequest, Maybe
<1>3. put' = [put EXCEPT ![p] = r] /\ overrides' = overrides
  BY <1>1 DEF AnswerPut, ConfigTypes
<1> HIDE DEF r
<1>4. put' \in [Puts -> PutRequest]
  BY <1>2, <1>3 DEF ConfigTypes
<1>5. put'[p] = r /\ \A q \in Puts \ {p} : put'[q] = put[q]
  BY <1>3 DEF ConfigTypes
<1>6. ConfigTypes'
  BY <1>1, <1>2, <1>3, <1>4, <1>5 DEF ConfigTypes, InForce
<1>7. QED
  BY <1>1, <1>2, <1>3, <1>5, <1>6

-----------------------------------------------------------------------------
(* A request that came in carries no one it was not over for.              *)
LEMMA AfterAnsweredStep ==
  ASSUME ConfigInv, NEW p \in Puts, ConfigTypes',
         \/ \E body \in Bodies : ReceivePut(p, body)
         \/ RefusePut(p) \/ UpdateOverrides(p) \/ AnswerPut(p)
  PROVE  AfterAnswered'
<1> USE DEF ConfigInv
<1>1. /\ \A q \in Puts \ {p} : put'[q] = put[q]
      /\ put[p].stage # "answered"
      /\ put[p].stage # "new" => put'[p].after = put[p].after
  BY RequestSteps
<1>2. put[p].stage # "lost"
  BY DEF ReceivePut, RefusePut, UpdateOverrides, AnswerPut
<1>3. \A q \in Puts : put[q].stage \in {"answered", "lost"} => put'[q] = put[q]
  BY <1>1, <1>2
<1>4. put[p].stage = "new" => put'[p].after = AnsweredPuts
  BY NewStage
<1>5. ASSUME NEW q \in Puts, NEW x \in put'[q].after, x \in Puts
      PROVE  put[x].stage \in {"answered", "lost"}
  <2>1. CASE q = p /\ put[p].stage = "new"
    BY <1>4, <1>5, <2>1 DEF AnsweredPuts
  <2>2. CASE ~(q = p /\ put[p].stage = "new")
    BY <1>1, <1>5, <2>2 DEF AfterAnswered
  <2>3. QED
    BY <2>1, <2>2
<1>6. QED
  BY <1>3, <1>5 DEF AfterAnswered

(* Nobody in force names a request that is not over.                       *)
LEMMA NotOver ==
  ASSUME ConfigInv, NEW p \in Puts, put[p].stage \in {"received", "applied"}
  PROVE  \A q \in Puts : p \notin put[q].after
BY DEF ConfigInv, AfterAnswered

(* The last writer stays the last writer until another request writes.     *)
LEMMA LastWriterStays ==
  ASSUME ConfigInv, PutsKept, NEW p \in Puts, NEW f, LastWriter(p, f),
         overrides'[f] = overrides[f],
         \A q \in Puts : InForce(q)' /\ f \in DOMAIN put'[q].body => InForce(q)
  PROVE  LastWriter(p, f)'
<1>1. InForce(p) /\ Overrides(p, f, overrides[f])
  BY DEF LastWriter, Overrides, InForce
<1>2. Overrides(p, f, overrides[f])'
  BY <1>1 DEF PutsKept, Overrides, InForce
<1>3. ASSUME NEW q \in Puts, InForce(q)', f \in DOMAIN put'[q].body
      PROVE  p \notin put'[q].after
  BY <1>3 DEF PutsKept, LastWriter
<1>4. QED
  BY <1>2, <1>3 DEF LastWriter

LEMMA OverridesWrittenStep ==
  ASSUME ConfigInv, NEW p \in Puts, ConfigTypes',
         \/ \E body \in Bodies : ReceivePut(p, body)
         \/ RefusePut(p) \/ UpdateOverrides(p) \/ AnswerPut(p)
  PROVE  OverridesWritten'
<1>1. /\ PutsKept
      /\ \A q \in Puts \ {p} : put'[q] = put[q]
      /\ put[p].stage # "new" =>
           put'[p].body = put[p].body /\ put'[p].after = put[p].after
  BY RequestSteps DEF ConfigInv
<1>2. CASE UpdateOverrides(p)
  <2>1. /\ put[p].stage = "received" /\ put'[p].stage = "applied"
        /\ \A f \in DOMAIN put[p].body : overrides'[f] = put[p].body[f]
        /\ \A f \in DOMAIN overrides' \ DOMAIN put[p].body :
             f \in DOMAIN overrides /\ overrides'[f] = overrides[f]
    BY <1>2, UpdateTypes DEF ConfigInv
  <2>2. put'[p].body = put[p].body /\ put'[p].after = put[p].after
    BY <1>1, <2>1
  <2>3. ASSUME NEW f \in DOMAIN overrides'
        PROVE  \E q \in Puts : LastWriter(q, f)'
    <3>1. CASE f \in DOMAIN put[p].body
      <4>1. Overrides(p, f, overrides[f])'
        BY <2>1, <2>2, <3>1 DEF Overrides
      <4>2. \A q \in Puts : p \notin put'[q].after
        BY <1>1, <2>1, <2>2, NotOver
      <4>3. QED
        BY <4>1, <4>2 DEF LastWriter
    <3>2. CASE f \notin DOMAIN put[p].body
      <4>1. f \in DOMAIN overrides /\ overrides'[f] = overrides[f]
        BY <2>1, <3>2
      <4>2. PICK q \in Puts : LastWriter(q, f)
        BY <4>1 DEF ConfigInv, OverridesWritten
      <4>3. \A x \in Puts : InForce(x)' /\ f \in DOMAIN put'[x].body => InForce(x)
        BY <1>1, <2>2, <3>2 DEF InForce
      <4>4. QED
        BY <1>1, <4>1, <4>2, <4>3, LastWriterStays
    <3>3. QED
      BY <3>1, <3>2
  <2>4. QED
    BY <2>3 DEF OverridesWritten
<1>3. CASE ~UpdateOverrides(p)
  <2>1. overrides' = overrides
    BY <1>3 DEF ReceivePut, RefusePut, AnswerPut
  <2>2. InForce(p)' => InForce(p)
    BY <1>3, NewStage DEF InForce, ConfigInv
  <2>3. ASSUME NEW f \in DOMAIN overrides'
        PROVE  \E q \in Puts : LastWriter(q, f)'
    <3>1. PICK q \in Puts : LastWriter(q, f)
      BY <2>1 DEF ConfigInv, OverridesWritten
    <3>2. \A x \in Puts : InForce(x)' => InForce(x)
      BY <1>1, <2>2 DEF InForce
    <3>3. QED
      BY <1>1, <2>1, <3>1, <3>2, LastWriterStays
  <2>4. QED
    BY <2>3 DEF OverridesWritten
<1>4. QED
  BY <1>2, <1>3

(* What a request is answered with is what it wrote, or what a request     *)
(* wrote that ran at the same time.                                        *)
LEMMA PutAnswersStep ==
  ASSUME ConfigInv, NEW p \in Puts, ConfigTypes',
         \/ \E body \in Bodies : ReceivePut(p, body)
         \/ RefusePut(p) \/ UpdateOverrides(p) \/ AnswerPut(p)
  PROVE  PutAnswersShowTheUpdate'
<1>1. /\ PutsKept
      /\ \A q \in Puts \ {p} : put'[q] = put[q]
      /\ put[p].stage # "answered"
      /\ put[p].stage # "new" =>
           put'[p].body = put[p].body /\ put'[p].after = put[p].after
  BY RequestSteps DEF ConfigInv
<1>2. ASSUME NEW x \in Puts, put'[x].stage = "answered", NEW f \in DOMAIN put'[x].body
      PROVE  (\/ put[x].answer[f] = put[x].body[f]
              \/ \E q \in Puts : /\ Overrides(q, f, put[x].answer[f])
                                 /\ x \notin put[q].after /\ q \notin put[x].after)'
  <2>1. CASE put[x].stage = "answered"
    <3>1. put'[x] = put[x]
      BY <1>1, <2>1
    <3>2. ASSUME put[x].answer[f] # put[x].body[f]
          PROVE  (\E q \in Puts : /\ Overrides(q, f, put[x].answer[f])
                                 /\ x \notin put[q].after /\ q \notin put[x].after)'
      <4>1. PICK q \in Puts : /\ Overrides(q, f, put[x].answer[f])
                              /\ x \notin put[q].after /\ q \notin put[x].after
        BY <1>2, <2>1, <3>1, <3>2 DEF ConfigInv, PutAnswersShowTheUpdate, AnsweredPuts
      <4>2. InForce(q)
        BY <4>1 DEF Overrides, InForce
      <4>3. /\ InForce(q)' /\ put'[q].body = put[q].body
            /\ put'[q].after = put[q].after
        BY <1>1, <4>2 DEF PutsKept
      <4>4. Overrides(q, f, put[x].answer[f])'
        BY <3>1, <4>1, <4>3 DEF Overrides, InForce
      <4>5. QED
        BY <3>1, <4>1, <4>3, <4>4
    <3>3. QED
      BY <3>1, <3>2
  <2>2. CASE put[x].stage # "answered"
    <3>1. x = p
      BY <1>1, <1>2, <2>2
    <3>2. AnswerPut(p)
      BY <1>2, <3>1, NewStage DEF ConfigInv
    <3>3. /\ put[p].stage = "applied" /\ put'[p].answer = EffectiveSettings
          /\ overrides' = overrides
      BY <3>2, AnswerTypes DEF ConfigInv
    <3>4. f \in DOMAIN put[p].body /\ put'[p].after = put[p].after
      BY <1>1, <1>2, <3>1, <3>3
    <3>5. f \in DOMAIN overrides /\ f \in Fields
      BY <3>3, <3>4 DEF ConfigInv, ConfigTypes, InForce
    <3>6. put'[p].answer[f] = overrides[f]
      BY <3>3, <3>5 DEF EffectiveSettings
    <3>7. PICK q \in Puts : LastWriter(q, f)
      BY <3>5 DEF ConfigInv, OverridesWritten
    <3>8. InForce(q) /\ Overrides(q, f, overrides[f])
      BY <3>7 DEF LastWriter, Overrides, InForce
    <3>9. /\ InForce(q)' /\ put'[q].body = put[q].body
          /\ put'[q].after = put[q].after
      BY <1>1, <3>8 DEF PutsKept
    <3>10. Overrides(q, f, put[x].answer[f])'
      BY <3>1, <3>6, <3>8, <3>9 DEF Overrides, InForce
    <3>11. q \notin put[p].after
      BY <3>3, <3>4, <3>7 DEF LastWriter, InForce
    <3>12. p \notin put[q].after
      BY <3>3, NotOver
    <3>13. QED
      BY <3>1, <3>4, <3>9, <3>10, <3>11, <3>12
  <2>3. QED
    BY <2>1, <2>2
<1>3. QED
  BY <1>2 DEF PutAnswersShowTheUpdate, AnsweredPuts

LEMMA RequestKeepsConfig ==
  ASSUME ConfigInv, NEW p \in Puts,
         \/ \E body \in Bodies : ReceivePut(p, body)
         \/ RefusePut(p) \/ UpdateOverrides(p) \/ AnswerPut(p)
  PROVE  ConfigInv'
<1>1. ConfigTypes'
  BY ReceiveTypes, RefuseTypes, UpdateTypes, AnswerTypes DEF ConfigInv
<1>2. QED
  BY <1>1, AfterAnsweredStep, OverridesWrittenStep, PutAnswersStep DEF ConfigInv

LEMMA ForgetKeepsConfig == ConfigInv /\ ForgetOverrides => ConfigInv'
<1> SUFFICES ASSUME ConfigInv, ForgetOverrides PROVE ConfigInv'
  OBVIOUS
<1>1. /\ put' = [p \in Puts |-> IF put[p].stage = "new" THEN put[p]
                               ELSE [put[p] EXCEPT !.stage = "lost"]]
      /\ overrides' = [f \in {} |-> 0]
  BY DEF ForgetOverrides
<1>2. put \in [Puts -> PutRequest]
  BY DEF ConfigInv, ConfigTypes
<1>3. put' \in [Puts -> PutRequest]
  BY <1>1, <1>2 DEF PutRequest
<1>4. \A p \in Puts :
        /\ put'[p].stage \in {"new", "lost"}
        /\ put'[p].after = put[p].after
        /\ put[p].stage # "new" => put'[p].stage = "lost"
  BY <1>1, <1>2 DEF PutRequest
<1>5. ConfigTypes'
  BY <1>1, <1>3, <1>4 DEF ConfigTypes, InForce
<1>6. AfterAnswered'
  <2> SUFFICES ASSUME NEW p \in Puts, NEW q \in Puts, q \in put'[p].after
               PROVE  put'[q].stage \in {"answered", "lost"}
    BY DEF AfterAnswered
  <2>1. put[q].stage \in {"answered", "lost"}
    BY <1>4 DEF ConfigInv, AfterAnswered
  <2>2. QED
    BY <1>4, <2>1
<1>7. OverridesWritten'
  BY <1>1 DEF OverridesWritten
<1>8. PutAnswersShowTheUpdate'
  <2>1. AnsweredPuts' = {}
    BY <1>4 DEF AnsweredPuts
  <2>2. QED
    BY <2>1 DEF PutAnswersShowTheUpdate
<1>9. QED
  BY <1>5, <1>6, <1>7, <1>8 DEF ConfigInv

LEMMA ConfigStutter == ConfigInv /\ UNCHANGED configVars => ConfigInv'
<1> SUFFICES ASSUME ConfigInv, put' = put, overrides' = overrides PROVE ConfigInv'
  BY DEF configVars
<1> USE DEF ConfigInv
<1>1. ConfigTypes'
  BY DEF ConfigTypes, InForce
<1>2. AfterAnswered'
  BY DEF AfterAnswered
<1>3. OverridesWritten'
  BY DEF OverridesWritten, LastWriter, Overrides, InForce
<1>4. PutAnswersShowTheUpdate'
  BY DEF PutAnswersShowTheUpdate, AnsweredPuts, Overrides
<1>5. QED
  BY <1>1, <1>2, <1>3, <1>4

-----------------------------------------------------------------------------
(* The settings a recompute is given are current when it is given them,    *)
LEMMA MergedSettingsAreCurrent ==
  ASSUME ConfigInv, NEW f \in Fields
  PROVE  CurrentValue(f, EffectiveSettings[f], AnsweredPuts)
<1>1. CASE f \in DOMAIN overrides
  <2>1. EffectiveSettings[f] = overrides[f]
    BY <1>1 DEF EffectiveSettings
  <2>2. PICK p \in Puts : LastWriter(p, f)
    BY <1>1 DEF ConfigInv, OverridesWritten
  <2>3. QED
    BY <2>1, <2>2 DEF CurrentValue, LastWriter, AnsweredPuts, InForce
<1>2. CASE f \notin DOMAIN overrides
  <2>1. EffectiveSettings[f] = Env[f]
    BY <1>2 DEF EffectiveSettings
  <2>2. \A q \in AnsweredPuts : f \notin DOMAIN put[q].body
    BY <1>2 DEF ConfigInv, ConfigTypes, AnsweredPuts, InForce
  <2>3. QED
    BY <2>1, <2>2 DEF CurrentValue
<1>3. QED
  BY <1>1, <1>2

(* and what was current for those who knew of some requests stays so.      *)
LEMMA CurrentStays ==
  ASSUME PutsKept, NEW known \in SUBSET AnsweredPuts, NEW f, NEW v,
         CurrentValue(f, v, known)
  PROVE  known \subseteq AnsweredPuts' /\ CurrentValue(f, v, known)'
<1>1. \A q \in known :
        /\ q \in Puts /\ put'[q].body = put[q].body
        /\ put'[q].after = put[q].after
        /\ put'[q].stage = "answered"
  BY DEF PutsKept, AnsweredPuts, InForce
<1>2. known \subseteq AnsweredPuts'
  BY <1>1 DEF AnsweredPuts
<1>3. \A q \in known : f \in DOMAIN put'[q].body <=> f \in DOMAIN put[q].body
  BY <1>1
<1>4. \A p \in Puts : Overrides(p, f, v) => Overrides(p, f, v)'
  BY DEF PutsKept, Overrides, InForce
<1>5. CASE v = Env[f] /\ \A q \in known : f \notin DOMAIN put[q].body
  BY <1>2, <1>3, <1>5 DEF CurrentValue
<1>6. ASSUME NEW p \in Puts, Overrides(p, f, v),
             \A q \in known : f \in DOMAIN put[q].body => p \notin put[q].after
      PROVE  CurrentValue(f, v, known)'
  <2>1. \A q \in known : f \in DOMAIN put'[q].body => p \notin put'[q].after
    BY <1>1, <1>3, <1>6
  <2>2. QED
    BY <1>4, <1>6, <2>1 DEF CurrentValue
<1>7. QED
  BY <1>2, <1>5, <1>6 DEF CurrentValue

LEMMA JobStays ==
  ASSUME PutsKept, NEW w \in Workers, JobKeepsSettings(w), job'[w] = job[w]
  PROVE  JobKeepsSettings(w)'
<1>1. PICK r : r = job[w] /\ r = job'[w]
  OBVIOUS
<1>2. SUFFICES ASSUME r # NULL, r.kind = "recompute"
               PROVE  /\ r.known \subseteq AnsweredPuts'
                      /\ \A f \in Fields : CurrentValue(f, r.settings[f], r.known)'
  BY <1>1 DEF JobKeepsSettings, CurrentValue
<1>3. /\ r.known \in SUBSET AnsweredPuts
      /\ \A f \in Fields : CurrentValue(f, r.settings[f], r.known)
  BY <1>1, <1>2 DEF JobKeepsSettings
<1>4. ASSUME NEW f \in Fields
      PROVE  r.known \subseteq AnsweredPuts' /\ CurrentValue(f, r.settings[f], r.known)'
  BY <1>3, CurrentStays
<1>5. r.known \subseteq AnsweredPuts'
  BY <1>3 DEF PutsKept, AnsweredPuts, InForce
<1>6. QED
  BY <1>4, <1>5

-----------------------------------------------------------------------------
(* Every step keeps what is known of the requests and the recomputes.      *)
LEMMA RequestStep ==
  ASSUME ConfigInv, JobInv, NEW p \in Puts, job' = job,
         \/ \E body \in Bodies : ReceivePut(p, body)
         \/ RefusePut(p) \/ UpdateOverrides(p) \/ AnswerPut(p)
  PROVE  ConfigInv' /\ JobInv'
<1>1. PutsKept
  BY RequestSteps DEF ConfigInv
<1>2. \A w \in Workers : JobKeepsSettings(w)'
  BY <1>1, JobStays DEF JobInv
<1>3. QED
  BY <1>2, RequestKeepsConfig DEF JobInv

LEMMA JobStep ==
  ASSUME ConfigInv, JobInv, UNCHANGED configVars, DOMAIN job' = Workers,
         \A w \in Workers :
           \/ job'[w] \in {job[w], NULL}
           \/ job'[w].kind = "detect"
           \/ /\ job'[w].settings = EffectiveSettings
              /\ job'[w].known = AnsweredPuts
  PROVE  ConfigInv' /\ JobInv'
<1>1. put' = put /\ overrides' = overrides
  BY DEF configVars
<1>2. PutsKept
  BY <1>1 DEF PutsKept, InForce
<1>3. ASSUME NEW w \in Workers PROVE JobKeepsSettings(w)'
  <2>1. CASE job'[w] = job[w]
    BY <1>2, <2>1, JobStays DEF JobInv
  <2>2. CASE job'[w] = NULL \/ job'[w].kind = "detect"
    BY <2>2 DEF JobKeepsSettings
  <2>3. CASE /\ job'[w].settings = EffectiveSettings
             /\ job'[w].known = AnsweredPuts
    <3>1. AnsweredPuts' = AnsweredPuts
      BY <1>1 DEF AnsweredPuts
    <3>2. \A f \in Fields : CurrentValue(f, job'[w].settings[f], AnsweredPuts)
      BY <2>3, MergedSettingsAreCurrent
    <3>3. QED
      BY <1>1, <2>3, <3>1, <3>2 DEF JobKeepsSettings, CurrentValue, Overrides
  <2>4. QED
    BY <2>1, <2>2, <2>3
<1>4. QED
  BY <1>3, ConfigStutter DEF JobInv

LEMMA OperationsStep == ConfigInv /\ JobInv /\ [Next]_vars => ConfigInv' /\ JobInv'
<1> SUFFICES ASSUME ConfigInv, JobInv, [Next]_vars PROVE ConfigInv' /\ JobInv'
  OBVIOUS
<1> USE DEF scoreVars
<1>1. ASSUME UNCHANGED <<job, configVars>>
      PROVE  ConfigInv' /\ JobInv'
  BY <1>1, JobStep DEF JobInv
<1>2. CASE Tick \/ (\E u \in Users : StoreEvent(u)) \/ UNCHANGED vars
  BY <1>1, <1>2 DEF Tick, StoreEvent, vars
<1>3. ASSUME NEW w \in Workers, RunCycle(w) \/ FailCycle(w)
      PROVE  ConfigInv' /\ JobInv'
  <2>1. job' = [job EXCEPT ![w] = NULL] /\ UNCHANGED configVars
    BY <1>3 DEF RunCycle, FailCycle, configVars
  <2>2. QED
    BY <2>1, JobStep DEF JobInv
<1>4. ASSUME NEW w \in Workers, NEW u \in Users, StartCycle(w, u)
      PROVE  ConfigInv' /\ JobInv'
  <2>1. /\ job' = [job EXCEPT ![w] =
             [user |-> u, kind |-> "detect", now |-> clock, settings |-> Env,
              known |-> AnsweredPuts]]
        /\ UNCHANGED configVars
    BY <1>4 DEF StartCycle
  <2>2. QED
    BY <2>1, JobStep DEF JobInv
<1>5. ASSUME NEW w \in Workers, NEW u \in Users, StartRecompute(w, u)
      PROVE  ConfigInv' /\ JobInv'
  <2>1. /\ job' = [job EXCEPT ![w] =
             [user |-> u, kind |-> "recompute", now |-> clock,
              settings |-> EffectiveSettings, known |-> AnsweredPuts]]
        /\ UNCHANGED configVars
    BY <1>5 DEF StartRecompute
  <2>2. QED
    BY <2>1, JobStep DEF JobInv
<1>6. ASSUME NEW p \in Puts, NEW body \in Bodies, ReceivePut(p, body), UNCHANGED job
      PROVE  ConfigInv' /\ JobInv'
  BY <1>6, RequestStep
<1>7. CASE Request
  BY <1>1, <1>5, <1>6, <1>7 DEF Request
<1>8. CASE ConfigStep /\ UNCHANGED scoreVars
  BY <1>8, RequestStep DEF ConfigStep
<1>9. CASE FeedStep /\ UNCHANGED <<scoreVars, configVars>>
  BY <1>1, <1>9
<1>10. CASE Restart
  <2>1. ConfigInv'
    BY <1>10, ForgetKeepsConfig DEF Restart
  <2>2. job' = [w \in Workers |-> NULL]
    BY <1>10 DEF Restart
  <2>3. QED
    BY <2>1, <2>2 DEF JobInv, JobKeepsSettings
<1>11. QED
  BY <1>2, <1>3, <1>4, <1>5, <1>7, <1>8, <1>9, <1>10 DEF Next

LEMMA ConfigInvAlways == Spec => [](ConfigInv /\ JobInv)
BY InitConfigInv, OperationsStep, PTL DEF Spec

(* For any number of threads and requests: what PUT /admin/config answers  *)
(* is the update it made, or that of a request that ran at the same time.  *)
THEOREM PutAnswersAreTrue == Spec => []PutAnswersShowTheUpdate
<1>1. ConfigInv => PutAnswersShowTheUpdate
  BY DEF ConfigInv
<1>2. QED
  BY ConfigInvAlways, <1>1, PTL

(* For any number of threads, requests and restarts: a recompute is scored *)
(* under settings that no request answered before it has overwritten.      *)
THEOREM RecomputesAreCurrent == Spec => []RecomputesSeeAnsweredPuts
<1>1. JobInv => RecomputesSeeAnsweredPuts
  BY DEF JobInv, JobKeepsSettings, RecomputesSeeAnsweredPuts
<1>2. QED
  BY ConfigInvAlways, <1>1, PTL

-----------------------------------------------------------------------------
(* The patches.                                                            *)

(* Rows with values of the set A in the columns that are not the status.   *)
RowsOf(A) == [user : A, at : A, score : A, threshold : A, dominant : A,
              status : AlertStatuses]

Written == {"committed", "answered", "unanswered"}
Pending(p, i) == patch[p].stage \in {"loaded", "flushed"} /\ patch[p].alert = i

PatchTypes ==
  /\ \E A : feed \in Seq(RowsOf(A))
  /\ patch \in [Patches -> PatchRequest]
  /\ \A p \in Patches : patch[p].stage # "new" =>
       patch[p].alert \in DOMAIN feed /\ patch[p].asked \in AlertStatuses

PatchAfter ==
  \A p, q \in Patches : q \in patch[p].after => patch[q].stage = "answered"

(* The status of an alert is that of a patch r which no effective patch    *)
(* strictly followed; a patch that has read another status than that is    *)
(* not strictly after r either, so r may be overwritten by it or stay.     *)
LastPatch(r, i) ==
  /\ r \in Effective(i)
  /\ feed[i].status = patch[r].asked
  /\ \A q \in Effective(i) : r \notin patch[q].after

Settled(i) ==
  \/ /\ Effective(i) = {}
     /\ feed[i].status = "open"
     /\ \A p \in Patches : Pending(p, i) => patch[p].loaded = feed[i].status
  \/ \E r \in Patches :
       /\ LastPatch(r, i)
       /\ \A p \in Patches : Pending(p, i) =>
            patch[p].loaded = feed[i].status \/ r \notin patch[p].after

AllSettled == \A i \in DOMAIN feed : Settled(i)

PatchInv == PatchTypes /\ PatchAfter /\ AllSettled /\ PatchAnswersAreRecent

-----------------------------------------------------------------------------
LEMMA InitPatchInv == Init => PatchInv
<1> SUFFICES ASSUME Init PROVE PatchInv
  OBVIOUS
<1>1. feed = <<>> /\ \A p \in Patches :
        patch[p].stage = "new" /\ patch[p].after = {}
  BY DEF Init, FeedInit
<1>2. feed \in Seq(RowsOf({}))
  BY <1>1
<1>3. patch \in [Patches -> PatchRequest]
  BY DEF Init, FeedInit, PatchRequest, Maybe
<1>4. PatchTypes
  BY <1>1, <1>2, <1>3 DEF PatchTypes
<1>5. PatchAfter /\ AllSettled
  BY <1>1 DEF PatchAfter, AllSettled
<1>6. PatchAnswersAreRecent
  BY <1>1 DEF PatchAnswersAreRecent
<1>7. QED
  BY <1>4, <1>5, <1>6 DEF PatchInv

(* What a step may do to the patches without a change for the alert i.     *)
LEMMA SettledStays ==
  ASSUME NEW i, Settled(i), feed'[i].status = feed[i].status,
         Effective(i)' = Effective(i),
         \A q \in Effective(i) :
           patch'[q].asked = patch[q].asked /\ patch'[q].after = patch[q].after,
         \A p \in Patches : Pending(p, i)' =>
           \/ patch'[p].loaded = feed[i].status
           \/ /\ Pending(p, i)
              /\ patch'[p].loaded = patch[p].loaded
              /\ patch'[p].after = patch[p].after
  PROVE  Settled(i)'
<1>1. CASE /\ Effective(i) = {}
           /\ feed[i].status = "open"
           /\ \A p \in Patches : Pending(p, i) => patch[p].loaded = feed[i].status
  BY <1>1 DEF Settled
<1>2. ASSUME NEW r \in Patches, LastPatch(r, i),
             \A p \in Patches : Pending(p, i) =>
               patch[p].loaded = feed[i].status \/ r \notin patch[p].after
      PROVE  Settled(i)'
  <2>1. LastPatch(r, i)'
    BY <1>2 DEF LastPatch
  <2>2. \A p \in Patches : Pending(p, i)' =>
          patch'[p].loaded = feed'[i].status \/ r \notin patch'[p].after
    BY <1>2
  <2>3. QED
    BY <2>1, <2>2 DEF Settled
<1>3. QED
  BY <1>1, <1>2 DEF Settled

(* A patch that is written stays so, and an answer is final.               *)
PatchesKept ==
  \A p \in Patches : patch[p].stage \in Written =>
    /\ patch'[p].stage \in Written
    /\ patch'[p].alert = patch[p].alert
    /\ patch'[p].asked = patch[p].asked
    /\ patch'[p].after = patch[p].after
    /\ patch[p].stage = "answered" => patch'[p] = patch[p]

(* An answer that was recent stays recent.                                 *)
Recent(p) ==
  \/ patch[p].answer = patch[p].asked
  \/ \E q \in Effective(patch[p].alert) :
       /\ patch[p].answer = patch[q].asked
       /\ p \notin patch[q].after /\ q \notin patch[p].after

LEMMA RecentStays ==
  ASSUME PatchesKept, NEW p \in Patches, patch[p].stage = "answered", Recent(p)
  PROVE  Recent(p)'
<1>1. patch'[p] = patch[p]
  BY DEF PatchesKept, Written
<1>2. ASSUME NEW q \in Effective(patch[p].alert),
             patch[p].answer = patch[q].asked,
             p \notin patch[q].after, q \notin patch[p].after
      PROVE  Recent(p)'
  <2>1. q \in Patches /\ patch[q].stage \in Written /\ patch[q].alert = patch[p].alert
    BY <1>2 DEF Effective, Written
  <2>2. q \in Effective(patch[p].alert)'
    BY <1>1, <2>1 DEF PatchesKept, Effective, Written
  <2>3. patch'[q].asked = patch[q].asked /\ patch'[q].after = patch[q].after
    BY <2>1 DEF PatchesKept
  <2>4. QED
    BY <1>1, <1>2, <2>2, <2>3 DEF Recent
<1>3. QED
  BY <1>1, <1>2 DEF Recent

-----------------------------------------------------------------------------
(* One patch moves: the others, and what was answered, stay as they are.   *)
Moves(p, r) == patch' = [patch EXCEPT ![p] = r]

LEMMA MovePatch ==
  ASSUME PatchInv, NEW p \in Patches, NEW r \in PatchRequest, Moves(p, r),
         DOMAIN feed' = DOMAIN feed, \E A : feed' \in Seq(RowsOf(A)),
         r.stage # "new" => r.alert \in DOMAIN feed /\ r.asked \in AlertStatuses,
         patch[p].stage # "answered",
         patch[p].stage \in Written =>
           /\ r.stage \in Written
           /\ r.alert = patch[p].alert /\ r.asked = patch[p].asked
           /\ r.after = patch[p].after,
         \A q \in r.after : patch[q].stage = "answered"
  PROVE  /\ PatchTypes' /\ PatchAfter' /\ PatchesKept
         /\ patch'[p] = r /\ \A q \in Patches \ {p} : patch'[q] = patch[q]
<1>1. patch \in [Patches -> PatchRequest]
  BY DEF PatchInv, PatchTypes
<1>2. patch'[p] = r /\ \A q \in Patches \ {p} : patch'[q] = patch[q]
  BY <1>1 DEF Moves
<1>3. patch' \in [Patches -> PatchRequest]
  BY <1>1 DEF Moves
<1>4. PatchTypes'
  BY <1>2, <1>3 DEF PatchInv, PatchTypes
<1>5. \A q \in Patches : patch[q].stage = "answered" => patch'[q].stage = "answered"
  BY <1>2
<1>6. r.after \subseteq Patches
  BY DEF PatchRequest
<1>7. PatchAfter'
  BY <1>2, <1>5, <1>6 DEF PatchInv, PatchAfter
<1>8. PatchesKept
  BY <1>2 DEF PatchesKept
<1>9. QED
  BY <1>2, <1>4, <1>7, <1>8

(* The answers that were given before the step.                            *)
LEMMA AnswersStay ==
  ASSUME PatchesKept, PatchAnswersAreRecent,
         \A q \in Patches : patch'[q].stage = "answered" /\ patch[q].stage # "answered"
           => Recent(q)'
  PROVE  PatchAnswersAreRecent'
<1>1. ASSUME NEW q \in Patches, patch'[q].stage = "answered"
      PROVE  Recent(q)'
  <2>1. CASE patch[q].stage = "answered"
    <3>1. Recent(q)
      BY <2>1 DEF PatchAnswersAreRecent, Recent
    <3>2. QED
      BY <2>1, <3>1, RecentStays
  <2>2. CASE patch[q].stage # "answered"
    BY <1>1, <2>2
  <2>3. QED
    BY <2>1, <2>2
<1>2. QED
  BY <1>1 DEF PatchAnswersAreRecent, Recent

LEMMA StatusOf ==
  ASSUME NEW A, feed \in Seq(RowsOf(A)), NEW i \in DOMAIN feed
  PROVE  i \in Nat /\ feed[i].status \in AlertStatuses
<1>1. i \in 1 .. Len(feed)
  OBVIOUS
<1>2. feed[i] \in RowsOf(A)
  BY <1>1
<1>3. feed[i].status \in AlertStatuses
  BY <1>2 DEF RowsOf
<1>4. QED
  BY <1>1, <1>3

LEMMA LoadStep ==
  ASSUME PatchInv, NEW p \in Patches, NEW i \in DOMAIN feed,
         NEW status \in AlertStatuses, LoadAlert(p, i, status)
  PROVE  PatchInv'
<1> DEFINE r == [stage |-> "loaded", alert |-> i, loaded |-> feed[i].status,
                 asked |-> status, answer |-> NULL,
                 after |-> {q \in Patches : patch[q].stage = "answered" /\ patch[q].alert = i}]
<1>1. PICK A : feed \in Seq(RowsOf(A))
  BY DEF PatchInv, PatchTypes
<1>2. feed[i].status \in AlertStatuses /\ i \in Nat
  BY <1>1, StatusOf
<1>3. r \in PatchRequest
  BY <1>2 DEF PatchRequest, Maybe
<1>4. Moves(p, r) /\ patch[p].stage = "new" /\ feed' = feed
  BY DEF LoadAlert, Moves
<1>5. r.stage = "loaded" /\ r.alert = i /\ r.asked = status /\ r.loaded = feed[i].status
  OBVIOUS
<1>6. \A q \in r.after : patch[q].stage = "answered"
  OBVIOUS
<1> HIDE DEF r
<1>7. /\ PatchTypes' /\ PatchAfter' /\ PatchesKept
      /\ patch'[p] = r /\ \A q \in Patches \ {p} : patch'[q] = patch[q]
  BY <1>1, <1>3, <1>4, <1>5, <1>6, MovePatch DEF Written
<1>8. ASSUME NEW j \in DOMAIN feed
      PROVE  Settled(j)'
  <2>1. Effective(j)' = Effective(j)
    BY <1>4, <1>5, <1>7 DEF Effective
  <2>2. \A q \in Effective(j) :
          patch'[q].asked = patch[q].asked /\ patch'[q].after = patch[q].after
    BY <1>4, <1>7 DEF Effective
  <2>3. \A q \in Patches : Pending(q, j)' =>
          \/ patch'[q].loaded = feed[j].status
          \/ /\ Pending(q, j)
             /\ patch'[q].loaded = patch[q].loaded
             /\ patch'[q].after = patch[q].after
    BY <1>5, <1>7 DEF Pending
  <2>4. Settled(j)
    BY DEF PatchInv, AllSettled
  <2>5. QED
    BY <1>4, <2>1, <2>2, <2>3, <2>4, SettledStays
<1>9. PatchAnswersAreRecent'
  BY <1>5, <1>7, AnswersStay DEF PatchInv
<1>10. QED
  BY <1>4, <1>7, <1>8, <1>9 DEF PatchInv, AllSettled

LEMMA FlushStep ==
  ASSUME PatchInv, NEW p \in Patches, FlushPatch(p)
  PROVE  PatchInv'
<1> DEFINE r == [patch[p] EXCEPT !.stage = "flushed"]
<1>1. PICK A : feed \in Seq(RowsOf(A))
  BY DEF PatchInv, PatchTypes
<1>2. patch \in [Patches -> PatchRequest] /\ patch[p] \in PatchRequest
  BY DEF PatchInv, PatchTypes
<1>3. Moves(p, r) /\ patch[p].stage = "loaded" /\ feed' = feed
  BY <1>2 DEF FlushPatch, Moves
<1>4. r \in PatchRequest
  BY <1>2 DEF PatchRequest
<1>5. /\ r.stage = "flushed" /\ r.alert = patch[p].alert /\ r.asked = patch[p].asked
      /\ r.loaded = patch[p].loaded /\ r.after = patch[p].after
  BY <1>2 DEF PatchRequest
<1>6. \A q \in r.after : patch[q].stage = "answered"
  BY <1>4, <1>5 DEF PatchInv, PatchAfter, PatchRequest
<1>7. r.alert \in DOMAIN feed /\ r.asked \in AlertStatuses
  BY <1>3, <1>5 DEF PatchInv, PatchTypes
<1> HIDE DEF r
<1>8. /\ PatchTypes' /\ PatchAfter' /\ PatchesKept
      /\ patch'[p] = r /\ \A q \in Patches \ {p} : patch'[q] = patch[q]
  BY <1>1, <1>3, <1>4, <1>5, <1>6, <1>7, MovePatch DEF Written
<1>9. ASSUME NEW j \in DOMAIN feed
      PROVE  Settled(j)'
  <2>1. Effective(j)' = Effective(j)
    BY <1>3, <1>5, <1>8 DEF Effective
  <2>2. \A q \in Effective(j) :
          patch'[q].asked = patch[q].asked /\ patch'[q].after = patch[q].after
    BY <1>3, <1>8 DEF Effective
  <2>3. \A q \in Patches : Pending(q, j)' =>
          /\ Pending(q, j)
          /\ patch'[q].loaded = patch[q].loaded
          /\ patch'[q].after = patch[q].after
    BY <1>3, <1>5, <1>8 DEF Pending
  <2>4. Settled(j)
    BY DEF PatchInv, AllSettled
  <2>5. QED
    BY <1>3, <2>1, <2>2, <2>3, <2>4, SettledStays
<1>10. PatchAnswersAreRecent'
  BY <1>5, <1>8, AnswersStay DEF PatchInv
<1>11. QED
  BY <1>3, <1>8, <1>9, <1>10 DEF PatchInv, AllSettled

(* The answer is the status of the alert: that of a patch which the one    *)
(* that is answered does not strictly follow.                              *)
LEMMA AnswerStep ==
  ASSUME PatchInv, NEW p \in Patches, AnswerPatch(p)
  PROVE  PatchInv'
<1> DEFINE i == patch[p].alert
           r == [patch[p] EXCEPT !.stage = "answered", !.answer = feed[i].status]
<1>1. PICK A : feed \in Seq(RowsOf(A))
  BY DEF PatchInv, PatchTypes
<1>2. patch \in [Patches -> PatchRequest] /\ patch[p] \in PatchRequest
  BY DEF PatchInv, PatchTypes
<1>3. Moves(p, r) /\ patch[p].stage = "committed" /\ feed' = feed
  BY <1>2 DEF AnswerPatch, Moves
<1>4. i \in DOMAIN feed /\ patch[p].asked \in AlertStatuses
  BY <1>3 DEF PatchInv, PatchTypes
<1>5. feed[i].status \in AlertStatuses
  BY <1>1, <1>4, StatusOf
<1>6. r \in PatchRequest
  BY <1>2, <1>5 DEF PatchRequest, Maybe
<1>7. /\ r.stage = "answered" /\ r.alert = i /\ r.asked = patch[p].asked
      /\ r.loaded = patch[p].loaded /\ r.after = patch[p].after
      /\ r.answer = feed[i].status
  BY <1>2 DEF PatchRequest
<1>8. \A q \in r.after : patch[q].stage = "answered"
  BY <1>6, <1>7 DEF PatchInv, PatchAfter, PatchRequest
<1> HIDE DEF r
<1>9. /\ PatchTypes' /\ PatchAfter' /\ PatchesKept
      /\ patch'[p] = r /\ \A q \in Patches \ {p} : patch'[q] = patch[q]
  BY <1>1, <1>3, <1>4, <1>6, <1>7, <1>8, MovePatch DEF Written
<1>10. \A j : Effective(j)' = Effective(j)
  BY <1>3, <1>7, <1>9 DEF Effective
<1>11. \A q \in Patches : patch'[q].asked = patch[q].asked /\ patch'[q].after = patch[q].after
  BY <1>7, <1>9
<1>12. ASSUME NEW j \in DOMAIN feed
       PROVE  Settled(j)'
  <2>1. \A q \in Patches : Pending(q, j)' =>
          /\ Pending(q, j)
          /\ patch'[q].loaded = patch[q].loaded
          /\ patch'[q].after = patch[q].after
    BY <1>7, <1>9 DEF Pending
  <2>2. Settled(j)
    BY DEF PatchInv, AllSettled
  <2>3. Effective(j) \subseteq Patches
    BY DEF Effective
  <2>4. QED
    BY <1>3, <1>10, <1>11, <2>1, <2>2, <2>3, SettledStays
<1>13. Recent(p)'
  <2>1. p \in Effective(i)
    BY <1>3 DEF Effective
  <2>2. Settled(i)
    BY <1>4 DEF PatchInv, AllSettled
  <2>3. PICK q \in Patches : LastPatch(q, i)
    BY <2>1, <2>2 DEF Settled
  <2>4. q \in Effective(i) /\ feed[i].status = patch[q].asked /\ q \notin patch[p].after
    BY <2>1, <2>3 DEF LastPatch
  <2>5. p \notin patch[q].after
    BY <1>3, <2>3 DEF PatchInv, PatchAfter
  <2>6. q \in Effective(patch[p].alert)'
    BY <1>7, <1>9, <1>10, <2>4
  <2>7. patch'[p].answer = patch'[q].asked
    BY <1>7, <1>9, <1>11, <2>4
  <2>8. p \notin patch'[q].after /\ q \notin patch'[p].after
    BY <1>11, <2>4, <2>5
  <2>9. QED
    BY <2>6, <2>7, <2>8 DEF Recent
<1>14. PatchAnswersAreRecent'
  BY <1>9, <1>13, AnswersStay DEF PatchInv
<1>15. QED
  BY <1>3, <1>9, <1>12, <1>14 DEF PatchInv, AllSettled

(* A commit settles its alert: either the row takes what the patch asked   *)
(* for, or the patch had read that status already and leaves the row alone,*)
(* and then the row has another patch's status that it did not follow.     *)
LEMMA CommitSettles ==
  ASSUME NEW i \in DOMAIN feed, NEW p \in Patches, Settled(i), Pending(p, i),
         Effective(i)' = Effective(i) \cup {p},
         \A q \in Patches : patch'[q].asked = patch[q].asked
                            /\ patch'[q].after = patch[q].after
                            /\ patch'[q].loaded = patch[q].loaded,
         \A q \in Patches : p \notin patch[q].after,
         \A q \in Patches : Pending(q, i)' => Pending(q, i),
         feed'[i].status = IF Updates(p) THEN patch[p].asked ELSE feed[i].status
  PROVE  Settled(i)'
<1>1. Effective(i) \subseteq Patches
  BY DEF Effective
<1>2. ASSUME feed'[i].status = patch[p].asked
      PROVE  Settled(i)'
  <2>1. p \in Effective(i)'
    OBVIOUS
  <2>2. \A q \in Patches : p \notin patch'[q].after
    OBVIOUS
  <2>3. feed'[i].status = patch'[p].asked
    BY <1>2
  <2>4. LastPatch(p, i)'
    BY <1>1, <2>1, <2>2, <2>3 DEF LastPatch
  <2>5. QED
    BY <2>2, <2>4 DEF Settled
<1>3. ASSUME feed'[i].status # patch[p].asked
      PROVE  Settled(i)'
  <2>1. ~Updates(p) /\ feed'[i].status = feed[i].status
    BY <1>3
  <2>2. patch[p].loaded # feed[i].status
    BY <1>3, <2>1 DEF Updates
  <2>3. PICK r \in Patches :
          /\ LastPatch(r, i)
          /\ \A q \in Patches : Pending(q, i) =>
               patch[q].loaded = feed[i].status \/ r \notin patch[q].after
    BY <2>2 DEF Settled
  <2>4. r \notin patch[p].after
    BY <2>2, <2>3
  <2>5. LastPatch(r, i)'
    BY <1>1, <2>1, <2>3, <2>4 DEF LastPatch
  <2>6. \A q \in Patches : Pending(q, i)' =>
          patch'[q].loaded = feed'[i].status \/ r \notin patch'[q].after
    BY <2>1, <2>3
  <2>7. QED
    BY <2>5, <2>6 DEF Settled
<1>4. QED
  BY <1>2, <1>3

LEMMA NewStatus ==
  ASSUME NEW A, feed \in Seq(RowsOf(A)), NEW i \in DOMAIN feed,
         NEW status \in AlertStatuses
  PROVE  /\ [feed EXCEPT ![i].status = status] \in Seq(RowsOf(A))
         /\ DOMAIN [feed EXCEPT ![i].status = status] = DOMAIN feed
         /\ [feed EXCEPT ![i].status = status][i].status = status
<1> DEFINE row == [feed[i] EXCEPT !.status = status]
           rows == [feed EXCEPT ![i] = row]
<1>1. i \in 1 .. Len(feed) /\ feed[i] \in RowsOf(A)
  OBVIOUS
<1>2. row \in RowsOf(A) /\ row.status = status
  BY <1>1 DEF RowsOf
<1> HIDE DEF row
<1>3. rows \in Seq(RowsOf(A)) /\ rows[i] = row /\ DOMAIN rows = DOMAIN feed
  BY <1>1, <1>2
<1>4. [feed EXCEPT ![i].status = status] = rows
  BY DEF row
<1>5. QED
  BY <1>2, <1>3, <1>4

LEMMA CommitStep ==
  ASSUME PatchInv, NEW p \in Patches, CommitPatch(p)
  PROVE  PatchInv'
<1> DEFINE r == [patch[p] EXCEPT !.stage = "committed"]
<1>0. PICK i : i = patch[p].alert
  OBVIOUS
<1>1. PICK A : feed \in Seq(RowsOf(A))
  BY DEF PatchInv, PatchTypes
<1>2. patch \in [Patches -> PatchRequest] /\ patch[p] \in PatchRequest
  BY DEF PatchInv, PatchTypes
<1>3. Moves(p, r) /\ patch[p].stage = "flushed"
  BY <1>2 DEF CommitPatch, Moves
<1>4. i \in DOMAIN feed /\ patch[p].asked \in AlertStatuses
  BY <1>0, <1>3 DEF PatchInv, PatchTypes
<1>5. feed' = IF Updates(p) THEN [feed EXCEPT ![i].status = patch[p].asked] ELSE feed
  BY <1>0 DEF CommitPatch
<1>6. /\ feed' \in Seq(RowsOf(A)) /\ DOMAIN feed' = DOMAIN feed
      /\ feed'[i].status = IF Updates(p) THEN patch[p].asked ELSE feed[i].status
  BY <1>1, <1>4, <1>5, NewStatus
<1>7. \A j \in DOMAIN feed \ {i} : feed'[j] = feed[j]
  BY <1>5
<1>8. r \in PatchRequest
  BY <1>2 DEF PatchRequest
<1>9. /\ r.stage = "committed" /\ r.alert = i /\ r.asked = patch[p].asked
      /\ r.loaded = patch[p].loaded /\ r.after = patch[p].after
  BY <1>0, <1>2 DEF PatchRequest
<1>10. \A q \in r.after : patch[q].stage = "answered"
  BY <1>8, <1>9 DEF PatchInv, PatchAfter, PatchRequest
<1> HIDE DEF r
<1>11. /\ PatchTypes' /\ PatchAfter' /\ PatchesKept
       /\ patch'[p] = r /\ \A q \in Patches \ {p} : patch'[q] = patch[q]
  BY <1>0, <1>3, <1>4, <1>6, <1>8, <1>9, <1>10, MovePatch DEF Written
<1>12. \A q \in Patches : patch'[q].asked = patch[q].asked
                          /\ patch'[q].after = patch[q].after
                          /\ patch'[q].loaded = patch[q].loaded
  BY <1>9, <1>11
<1>13. \A j : \A q \in Patches : Pending(q, j)' => Pending(q, j)
  BY <1>0, <1>9, <1>11 DEF Pending
<1>14. ASSUME NEW j \in DOMAIN feed, j # i
       PROVE  Settled(j)'
  <2>1. Effective(j)' = Effective(j)
    BY <1>0, <1>9, <1>11, <1>14 DEF Effective
  <2>2. Settled(j) /\ Effective(j) \subseteq Patches
    BY DEF PatchInv, AllSettled, Effective
  <2>3. feed'[j].status = feed[j].status
    BY <1>7, <1>14
  <2>4. QED
    BY <1>12, <1>13, <2>1, <2>2, <2>3, SettledStays
<1>15. Settled(i)'
  <2>1. Effective(i)' = Effective(i) \cup {p}
    BY <1>0, <1>3, <1>9, <1>11 DEF Effective
  <2>2. Settled(i) /\ Pending(p, i)
    BY <1>0, <1>3, <1>4 DEF PatchInv, AllSettled, Pending
  <2>3. \A q \in Patches : p \notin patch[q].after
    BY <1>3 DEF PatchInv, PatchAfter
  <2>4. QED
    BY <1>4, <1>6, <1>12, <1>13, <2>1, <2>2, <2>3, CommitSettles
<1>16. PatchAnswersAreRecent'
  BY <1>0, <1>9, <1>11, AnswersStay DEF PatchInv
<1>17. QED
  BY <1>6, <1>11, <1>14, <1>15, <1>16 DEF PatchInv, AllSettled

(* A restart only loses patches that have written nothing.                 *)
LEMMA DropStep ==
  ASSUME PatchInv, DropRequests
  PROVE  PatchInv'
<1>1. PICK A : feed \in Seq(RowsOf(A))
  BY DEF PatchInv, PatchTypes
<1>2. patch \in [Patches -> PatchRequest] /\ feed' = feed
  BY DEF PatchInv, PatchTypes, DropRequests
<1>3. ASSUME NEW p \in Patches
      PROVE  /\ patch'[p] \in PatchRequest
             /\ patch'[p].alert = patch[p].alert /\ patch'[p].asked = patch[p].asked
             /\ patch'[p].after = patch[p].after /\ patch'[p].answer = patch[p].answer
             /\ patch'[p].stage \notin {"loaded", "flushed"}
             /\ patch'[p].stage \in Written <=> patch[p].stage \in Written
             /\ patch'[p].stage = "answered" <=> patch[p].stage = "answered"
             /\ patch'[p].stage = "new" <=> patch[p].stage = "new"
             /\ patch[p].stage = "answered" => patch'[p] = patch[p]
  <2>1. patch[p] \in PatchRequest
    BY <1>2
  <2>2. CASE patch[p].stage = "committed"
    <3>1. patch'[p] = [patch[p] EXCEPT !.stage = "unanswered"]
      BY <2>2 DEF DropRequests
    <3>2. QED
      BY <2>1, <2>2, <3>1 DEF PatchRequest, Written
  <2>3. CASE patch[p].stage \in {"loaded", "flushed"}
    <3>1. patch'[p] = [patch[p] EXCEPT !.stage = "lost"]
      BY <2>3 DEF DropRequests
    <3>2. QED
      BY <2>1, <2>3, <3>1 DEF PatchRequest, Written
  <2>4. CASE patch[p].stage \notin {"committed", "loaded", "flushed"}
    <3>1. patch'[p] = patch[p]
      BY <2>4 DEF DropRequests
    <3>2. QED
      BY <2>1, <2>4, <3>1
  <2>5. QED
    BY <2>2, <2>3, <2>4
<1>4. patch' \in [Patches -> PatchRequest]
  BY <1>3 DEF DropRequests
<1>5. PatchTypes'
  BY <1>1, <1>2, <1>3, <1>4 DEF PatchInv, PatchTypes
<1>6. PatchAfter'
  BY <1>3 DEF PatchInv, PatchAfter
<1>7. PatchesKept
  BY <1>3 DEF PatchesKept
<1>8. PatchAnswersAreRecent'
  BY <1>3, <1>7, AnswersStay DEF PatchInv
<1>9. ASSUME NEW j \in DOMAIN feed
      PROVE  Settled(j)'
  <2>1. Effective(j)' = Effective(j)
    BY <1>3 DEF Effective, Written
  <2>2. Settled(j) /\ Effective(j) \subseteq Patches
    BY DEF PatchInv, AllSettled, Effective
  <2>3. \A q \in Patches : ~Pending(q, j)'
    BY <1>3 DEF Pending
  <2>4. QED
    BY <1>2, <1>3, <2>1, <2>2, <2>3, SettledStays
<1>10. QED
  BY <1>2, <1>5, <1>6, <1>8, <1>9 DEF PatchInv, AllSettled

(* A step that touches neither the alerts nor the patches.                 *)
LEMMA OtherSteps ==
  ASSUME PatchInv, UNCHANGED <<feed, patch>>
  PROVE  PatchInv'
<1>1. PatchTypes'
  BY DEF PatchInv, PatchTypes
<1>2. PatchAfter'
  BY DEF PatchInv, PatchAfter
<1>3. \A j : Effective(j)' = Effective(j) /\ Effective(j) \subseteq Patches
  BY DEF Effective
<1>4. PatchAnswersAreRecent'
  <2>1. PatchesKept
    BY DEF PatchesKept
  <2>2. QED
    BY <2>1, AnswersStay DEF PatchInv
<1>5. ASSUME NEW j \in DOMAIN feed
      PROVE  Settled(j)'
  <2>1. Settled(j) /\ \A p \in Patches : Pending(p, j)' => Pending(p, j)
    BY DEF PatchInv, AllSettled, Pending
  <2>2. QED
    BY <1>3, <2>1, SettledStays
<1>6. QED
  BY <1>1, <1>2, <1>4, <1>5 DEF PatchInv, AllSettled

(* A cycle adds an alert at the end of the feed; no patch can know of it.  *)
LEMMA AlertStep ==
  ASSUME PatchInv, patch' = patch, NEW u, NEW at, NEW score, NEW threshold,
         NEW dominant,
         feed' = Append(feed, [user |-> u, at |-> at, score |-> score,
                               threshold |-> threshold, dominant |-> dominant,
                               status |-> "open"])
  PROVE  PatchInv'
<1>1. PICK A : feed \in Seq(RowsOf(A))
  BY DEF PatchInv, PatchTypes
<1> DEFINE B == A \cup {u, at, score, threshold, dominant}
           row == [user |-> u, at |-> at, score |-> score, threshold |-> threshold,
                   dominant |-> dominant, status |-> "open"]
           n == Len(feed) + 1
<1>2. RowsOf(A) \subseteq RowsOf(B) /\ row \in RowsOf(B) /\ row.status = "open"
  BY DEF RowsOf, AlertStatuses
<1>3. feed' = Append(feed, row)
  OBVIOUS
<1> HIDE DEF row, B
<1>4. feed \in Seq(RowsOf(B)) /\ Len(feed) \in Nat
  BY <1>1, <1>2
<1>5. feed' \in Seq(RowsOf(B))
  BY <1>2, <1>3, <1>4
<1>6. /\ DOMAIN feed = 1 .. Len(feed) /\ DOMAIN feed' = 1 .. Len(feed) + 1
      /\ feed'[Len(feed) + 1] = row
      /\ \A j \in DOMAIN feed : feed'[j] = feed[j]
  BY <1>2, <1>3, <1>4
<1>7. n \notin DOMAIN feed /\ DOMAIN feed' = DOMAIN feed \cup {n}
  BY <1>4, <1>6
<1>8. PatchTypes'
  BY <1>5, <1>7 DEF PatchInv, PatchTypes
<1>9. PatchAfter'
  BY DEF PatchInv, PatchAfter
<1>10. PatchAnswersAreRecent'
  <2>1. PatchesKept
    BY DEF PatchesKept
  <2>2. QED
    BY <2>1, AnswersStay DEF PatchInv
<1>11. \A j : Effective(j)' = Effective(j) /\ Effective(j) \subseteq Patches
  BY DEF Effective
<1>12. ASSUME NEW j \in DOMAIN feed
       PROVE  Settled(j)'
  <2>1. Settled(j) /\ \A p \in Patches : Pending(p, j)' => Pending(p, j)
    BY DEF PatchInv, AllSettled, Pending
  <2>2. QED
    BY <1>6, <1>11, <2>1, SettledStays
<1>13. ASSUME NEW j, j = n
       PROVE  Settled(j)'
  <2>1. \A p \in Patches : patch[p].stage # "new" => patch[p].alert # j
    BY <1>7, <1>13 DEF PatchInv, PatchTypes
  <2>2. Effective(j)' = {} /\ \A p \in Patches : ~Pending(p, j)'
    BY <2>1 DEF Effective, Pending
  <2>3. feed'[j].status = "open"
    BY <1>2, <1>6, <1>13
  <2>4. QED
    BY <2>2, <2>3 DEF Settled
<1>14. QED
  BY <1>7, <1>8, <1>9, <1>10, <1>12, <1>13 DEF PatchInv, AllSettled

LEMMA CycleStep ==
  ASSUME PatchInv, NEW w \in Workers, RunCycle(w)
  PROVE  PatchInv'
<1> DEFINE u == job[w].user
           now == job[w].now
           settings == job[w].settings
           drafts == Under(settings)!CycleAlerts(<<>>, profile[u], now, Window(u, now))
<1>1. /\ patch' = patch
      /\ feed' = IF drafts = <<>> THEN feed
                 ELSE CreateAlert(feed, u, now, drafts[1], ThresholdOf(settings))
  BY DEF RunCycle
<1> HIDE DEF drafts
<1>2. CASE drafts = <<>>
  BY <1>1, <1>2, OtherSteps
<1>3. CASE drafts # <<>>
  <2>1. feed' = Append(feed, [user |-> u, at |-> now, score |-> drafts[1].score,
                              threshold |-> Rounded(ThresholdOf(settings)),
                              dominant |-> drafts[1].dominant, status |-> "open"])
    BY <1>1, <1>3 DEF CreateAlert
  <2>2. QED
    BY <1>1, <2>1, AlertStep
<1>4. QED
  BY <1>2, <1>3

LEMMA PatchSteps == PatchInv /\ [Next]_vars => PatchInv'
<1> SUFFICES ASSUME PatchInv, [Next]_vars PROVE PatchInv'
  OBVIOUS
<1>1. CASE UNCHANGED vars
  BY <1>1, OtherSteps DEF vars, feedVars
<1>2. CASE Tick
  BY <1>2, OtherSteps DEF Tick, feedVars
<1>3. CASE Restart
  BY <1>3, DropStep DEF Restart
<1>4. ASSUME NEW u \in Users, StoreEvent(u) PROVE PatchInv'
  BY <1>4, OtherSteps DEF StoreEvent, feedVars
<1>5. ASSUME NEW w \in Workers, RunCycle(w) PROVE PatchInv'
  BY <1>5, CycleStep
<1>6. ASSUME NEW w \in Workers, FailCycle(w) PROVE PatchInv'
  BY <1>6, OtherSteps DEF FailCycle, feedVars
<1>7. ASSUME NEW w \in Workers, NEW u \in Users, StartCycle(w, u) PROVE PatchInv'
  BY <1>7, OtherSteps DEF StartCycle, feedVars
<1>8. CASE Request
  <2>1. ASSUME NEW w \in Workers, NEW u \in Users, StartRecompute(w, u) PROVE PatchInv'
    BY <2>1, OtherSteps DEF StartRecompute, feedVars
  <2>2. CASE UNCHANGED feedVars
    BY <2>2, OtherSteps DEF feedVars
  <2>3. ASSUME NEW r \in Readers, NEW filter \in Filters, BeginListing(r, filter)
        PROVE  PatchInv'
    BY <2>3, OtherSteps DEF BeginListing
  <2>4. ASSUME NEW p \in Patches, NEW i \in DOMAIN feed, NEW status \in AlertStatuses,
               LoadAlert(p, i, status)
        PROVE  PatchInv'
    BY <2>4, LoadStep
  <2>5. QED
    BY <1>8, <2>1, <2>2, <2>3, <2>4 DEF Request
<1>9. CASE UNCHANGED feedVars
  BY <1>9, OtherSteps DEF feedVars
<1>10. CASE FeedStep
  <2>1. ASSUME NEW r \in Readers, CountAlerts(r) \/ ReadPage(r) PROVE PatchInv'
    BY <2>1, OtherSteps DEF CountAlerts, ReadPage
  <2>2. ASSUME NEW p \in Patches, FlushPatch(p) \/ CommitPatch(p) \/ AnswerPatch(p)
        PROVE  PatchInv'
    BY <2>2, FlushStep, CommitStep, AnswerStep
  <2>3. QED
    BY <1>10, <2>1, <2>2 DEF FeedStep
<1>11. QED
  BY <1>1, <1>2, <1>3, <1>4, <1>5, <1>6, <1>7, <1>8, <1>9, <1>10 DEF Next

(* A patch that was answered is overwritten only by a patch that had not   *)
(* been answered before it came in, or that it itself did not wait for:    *)
(* the status of an alert is that of a patch no other strictly followed,   *)
(* for any number of patches, cycles and restarts.                         *)
THEOREM LastPatchStays == Spec => []LastPatchWins
<1>1. PatchInv => LastPatchWins
  <2> SUFFICES ASSUME PatchInv, NEW i \in DOMAIN feed
               PROVE  IF Effective(i) = {} THEN feed[i].status = "open"
                      ELSE \E p \in Effective(i) :
                             /\ feed[i].status = patch[p].asked
                             /\ \A q \in Effective(i) : p \notin patch[q].after
    BY DEF LastPatchWins
  <2>1. Settled(i)
    BY DEF PatchInv, AllSettled
  <2>2. QED
    BY <2>1 DEF Settled, LastPatch
<1>2. QED
  BY <1>1, InitPatchInv, PatchSteps, PTL DEF Spec

(* The answer of PATCH /alerts/{id} tells the status asked for or that of  *)
(* a patch of the same alert that ran at the same time, never an older one.*)
THEOREM PatchAnswersAreTrue == Spec => []PatchAnswersAreRecent
<1>1. PatchInv => PatchAnswersAreRecent
  BY DEF PatchInv
<1>2. QED
  BY <1>1, InitPatchInv, PatchSteps, PTL DEF Spec
=============================================================================
