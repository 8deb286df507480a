---------------------------- MODULE SerialScoring ----------------------------
(***************************************************************************)
(* What per-user serialisation promises: every change of a user's risk     *)
(* profile is one whole transaction applied to the row as it stands, and   *)
(* the patterns and alerts a cycle adds appear with the row it computed    *)
(* them from. Threads, locks and commits are absent, and nothing is said   *)
(* of the two row counts the profile carries.                              *)
(***************************************************************************)
EXTENDS ProfileUpdates

CONSTANTS Users

VARIABLES profile, patterns, alerts

serialVars == <<profile, patterns, alerts>>

Init ==
  /\ profile = [u \in Users |-> NULL]
  /\ patterns = [u \in Users |-> [t \in Techniques |-> 0]]
  /\ alerts = [u \in Users |-> <<>>]

(* u's row becomes row, up to its counts; the other rows stay.             *)
Becomes(u, row) ==
  LET q == profile'[u] IN
  /\ q # NULL
  /\ q = [row EXCEPT !.sessions = q.sessions, !.interactions = q.interactions]
  /\ \A v \in Users \ {u} : profile'[v] = profile[v]

ScoreOnce(u, now, latest, window) ==
  LET p == profile[u] IN
  /\ Becomes(u, CycleProfile(p, now, latest, window, NULL, NULL))
  /\ patterns' = [patterns EXCEPT ![u] = CyclePatterns(@, p, now, window)]
  /\ alerts' = [alerts EXCEPT ![u] = CycleAlerts(@, p, now, window)]

ResetOnce(u, now, latest) ==
  /\ Becomes(u, ResetUserRiskProfile(profile[u], now, latest, NULL, NULL))
  /\ UNCHANGED <<patterns, alerts>>

BackdateOnce(u, ts) ==
  /\ Becomes(u, SetUserLastEventAt(profile[u], ts))
  /\ UNCHANGED <<patterns, alerts>>

(* Every step writes the next version of one user's row.                   *)
Next ==
  \E u \in Users :
    /\ profile'[u] # profile[u]
    /\ \/ \E ts \in Time : BackdateOnce(u, ts)
       \/ \E now \in Time, latest \in Maybe(Time) :
            \/ ResetOnce(u, now, latest)
            \/ \E window \in SUBSET Ids : ScoreOnce(u, now, latest, window)

Spec == Init /\ [][Next]_serialVars
=============================================================================
