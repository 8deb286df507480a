-------------------------- MODULE MCDetectionCycle --------------------------
(***************************************************************************)
(* Values for the constants of DetectionCycle. A score unit is a third of  *)
(* what the column stores, so that rounding moves scores; a score halves   *)
(* with every instant.                                                     *)
(***************************************************************************)
EXTENDS DetectionCycle, TLC

MCStored == {0, 3, 6, 9, 12}
MCWeight == [t \in Techniques |-> IF t = "probing" THEN 4 ELSE 1]
MCDecay(s, dt) == s \div (2 ^ dt)
MCSameKey == [u \in Users |-> CHOOSE k \in LockKeys : TRUE]

Probing(signal, fires) ==
  [signals |-> [NoSignals EXCEPT !["probing"] = signal],
   fired |-> IF fires THEN {"probing"} ELSE {}]

(* One event is a weak signal, two are a probe.                            *)
MCDetect(window) ==
  Probing(IF Cardinality(window) > 1 THEN 2 ELSE Cardinality(window),
          Cardinality(window) > 1)

(* Every window is a probe of one strength.                                *)
MCFlatDetect(window) == Probing(IF window = {} THEN 0 ELSE 1, window # {})

MCFlatWeight == [t \in Techniques |-> 2]

WorkerSymmetry == Permutations(Workers)

(* Nothing is left to do within the bounds: the only states without a      *)
(* successor of Next.                                                      *)
Finished ==
  /\ clock = MaxTime
  /\ arriving = NULL
  /\ \A u \in Users : queue[u] = 0 /\ Len(interactions[u]) = MaxEvents
  /\ \A w \in Workers : pc[w] = "idle"
  /\ admin = MaxAdmin
  /\ faults = MaxFaults
  /\ UNCHANGED vars

MCSpec == Init /\ [][Next \/ Finished]_vars
MCFairSpec == MCSpec /\ Fairness
=============================================================================
