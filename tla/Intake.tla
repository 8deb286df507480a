------------------------------- MODULE Intake -------------------------------
(***************************************************************************)
(* What ingestion promises about the tables: an event is stored whole, its *)
(* interaction row together with the session it belongs to as the sessions *)
(* stand, in the order of the events' times. The pipeline an event passes  *)
(* through before it is stored, and its failures, are absent.              *)
(***************************************************************************)
EXTENDS SessionTables

CONSTANT Users

VARIABLES sessions, interactions

intakeVars == <<sessions, interactions>>

Init ==
  /\ sessions = [u \in Users |-> <<>>]
  /\ interactions = [u \in Users |-> <<>>]

StoreEvent(u, requested, ts) ==
  LET s == ResolveOrCreateSession(sessions[u], requested, ts) IN
  /\ \A i \in DOMAIN interactions[u] : interactions[u][i].ts <= ts
  /\ sessions' = [sessions EXCEPT ![u] = WithEvent(@, s, ts)]
  /\ interactions' = [interactions EXCEPT ![u] = Append(@, [ts |-> ts, session |-> s])]

Next ==
  \E u \in Users, ts \in Time :
    \E requested \in 0 .. Len(sessions[u]) : StoreEvent(u, requested, ts)

Spec == Init /\ [][Next]_intakeVars
=============================================================================
