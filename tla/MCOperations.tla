---------------------------- MODULE MCOperations ----------------------------
(***************************************************************************)
(* Values for the constants of Operations. A score unit is a third of what *)
(* the column stores; a score halves with every instant.                   *)
(***************************************************************************)
EXTENDS Operations

MCStored == {0, 3, 6, 9, 12}
MCWeight == [t \in Techniques |-> IF t = "probing" THEN 4 ELSE 1]
MCDecay(s, dt) == s \div (2 ^ dt)
MCFields == {"alert_threshold", "watch_threshold", "inactivity_reset_seconds"}

Thresholds(alert, watch) ==
  [f \in {"alert_threshold", "watch_threshold"} |->
     IF f = "alert_threshold" THEN alert ELSE watch]

MCEnv ==
  [f \in MCFields |->
     IF f = "inactivity_reset_seconds" THEN 1 ELSE Thresholds(6, 3)[f]]

(* Both thresholds raised, one lowered, and a key that is not tunable.     *)
MCBodies ==
  {Thresholds(12, 9), [f \in {"alert_threshold"} |-> 3],
   [f \in {"alert_threshold", "admin_key"} |-> 3]}
MCLowered == {[f \in {"alert_threshold"} |-> 3]}

Probing(signal) ==
  [signals |-> [NoSignals EXCEPT !["probing"] = signal],
   fired |-> IF signal > 1 THEN {"probing"} ELSE {}]

(* A strong signal takes a new user over the threshold, a weak one does not.*)
MCStrong(window) == Probing(IF window = {} THEN 0 ELSE 2)
MCWeak(window) == Probing(IF window = {} THEN 0 ELSE 1)

Filter(status, user) == [status |-> status, user |-> user, since |-> NULL]
MCFilters ==
  {Filter(NULL, NULL), Filter("open", NULL)}
    \cup {[Filter(NULL, u) EXCEPT !.since = 1] : u \in Users}

Load(n0, n1, n2, n3, n4) ==
  [users |-> n0, recomputes |-> n1, puts |-> n2, readers |-> n3, patches |-> n4]
MCScoringLoad == {Load(1, 0, 1, 0, 0)}
MCLoads ==
  {Load(1, 1, 2, 0, 0), Load(2, 1, 0, 1, 0), Load(2, 0, 0, 1, 1), Load(2, 0, 0, 0, 2)}

Symmetry ==
  UNION {Permutations(Users), Permutations(Workers), Permutations(Puts),
         Permutations(Patches)}

(* Nothing is left to do within the bounds.                                *)
Finished ==
  /\ clock = MaxTime
  /\ \A u \in Users : queue[u] = 0 /\ Len(interactions[u]) \in {0, MaxEvents}
  /\ \A w \in Workers : job[w] = NULL
  /\ \A p \in Puts : put[p].stage \in {"new", "answered", "refused", "lost"}
  /\ \A r \in Readers : reader[r].stage \in {"new", "done"}
  /\ \A p \in Patches : patch[p].stage \in {"new", "answered", "unanswered", "lost"}
  /\ \/ Requests \in Loads
     \/ feed = <<>> /\ \E load \in Loads : Requests = [load EXCEPT !.patches = 0]
  /\ faults = MaxFaults
  /\ UNCHANGED vars

MCSpec == Init /\ [][Next \/ Finished]_vars
=============================================================================
