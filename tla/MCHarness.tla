------------------------------ MODULE MCHarness ------------------------------
(***************************************************************************)
(* Values for the constants of Harness: a prober who must be alerted, with *)
(* a burst of two prompts and two of one, of which the window keeps two,   *)
(* and a user who must not.                                                *)
(***************************************************************************)
EXTENDS Harness

MCPlans == << << <<1, 2>>, <<3>>, <<4>> >>, << <<5>> >> >>
MCExpected == <<"probing", NULL>>
MCStored == {0, 2, 4, 6, 8, 10, 12}  \* coarse: rounding matters
MCWeight == [t \in Techniques |-> 1]
MCDecay(s, dt) == s

(* Each probe makes the signal stronger, the fifth prompt is a weak one.   *)
MCDetect(window) ==
  LET probes == Cardinality(window \cap 1 .. 4) IN
  [signals |-> [NoSignals EXCEPT !["probing"] = probes,
                                 !["escalation"] = IF 5 \in window THEN 2 ELSE 0],
   fired |-> IF probes > 1 THEN {"probing"} ELSE {}]

(* The run is over and no cycle is due.                                    *)
Finished ==
  /\ pc \in {"done", "not_ready", "aborted"}
  /\ \A k \in Personas : queue[k] = 0
  /\ UNCHANGED vars

MCSpec == Init /\ [][Next \/ Finished]_vars /\ WF_vars(Step \/ Failure)
=============================================================================
