------------------------- MODULE MCRepeatedRecompute -------------------------
(***************************************************************************)
(* DetectionCycle with the history that tells a new event from one the     *)
(* detectors have scored already: a cycle may be the first to read an      *)
(* event whose own cycle is still to come, and then its signals are news.  *)
(***************************************************************************)
EXTENDS MCDetectionCycle

VARIABLES
  scoredEvents,  \* user -> interactions in the window of a committed cycle
  zeroed         \* users whose row a recompute's inactivity reset left at zero

trackedVars == <<vars, scoredEvents, zeroed>>

(* The transaction of w commits a cycle of user u in this step.            *)
CommitsCycle(w, u) ==
  /\ pc[w] = "staged"
  /\ job[w].user = u
  /\ job[w].kind \in Cycles
  /\ profile'[u] # profile[u]

Resets(w) == MustReset(view[w].seen, job[w].now)

Track(u) ==
  LET scores == {w \in Workers : CommitsCycle(w, u) /\ ~Resets(w)}
      resets == {w \in Workers : CommitsCycle(w, u) /\ Resets(w)}
  IN  /\ scoredEvents'[u] = scoredEvents[u] \cup UNION {view[w].window : w \in scores}
      /\ zeroed'[u] = IF scores # {} THEN FALSE
                      ELSE zeroed[u] \/ \E w \in resets : job[w].kind = "recompute"

TrackedInit ==
  /\ Init
  /\ scoredEvents = [u \in Users |-> {}]
  /\ zeroed = [u \in Users |-> FALSE]

TrackedNext ==
  /\ Next \/ Finished
  /\ scoredEvents' \in [Users -> SUBSET Ids]
  /\ zeroed' \in [Users -> BOOLEAN]
  /\ \A u \in Users : Track(u)

TrackedSpec == TrackedInit /\ [][TrackedNext]_trackedVars

(* "Repeated recompute without a new event must not re-apply detector      *)
(* signals": once a recompute has zeroed a row for inactivity, a recompute *)
(* whose window holds no event but those scored before leaves it at zero.  *)
ResetHoldsWithoutNewEvent ==
  [][\A u \in Users, w \in Workers :
       /\ zeroed[u]
       /\ CommitsCycle(w, u) /\ job[w].kind = "recompute"
       /\ view[w].window \subseteq scoredEvents[u]
       => profile'[u].signals = NoSignals]_trackedVars
=============================================================================
