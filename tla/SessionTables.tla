---------------------------- MODULE SessionTables ----------------------------
(***************************************************************************)
(* One user's rows of the sessions and interactions tables, numbered in    *)
(* commit order, and what one ingested event does to them                  *)
(* (app/db/repositories.py, app/api/events.py).                            *)
(***************************************************************************)
EXTENDS Common, Sequences

SessionRow == [startedAt : Time, lastEventAt : Time, interactionCount : Nat]
InteractionRow == [ts : Time, session : Ids]

(* The session an event at now belongs to: the requested one if it is this *)
(* user's and not stale, else the next new one. requested = 0 stands for   *)
(* no session id, or one that is not this user's.                          *)
ResolveOrCreateSession(ses, requested, now) ==
  IF requested \in DOMAIN ses /\ now - ses[requested].lastEventAt <= InactivityLimit
    THEN requested
    ELSE Len(ses) + 1

(* The session rows once an event at ts in the session s is stored.        *)
WithEvent(ses, s, ts) ==
  IF s \in DOMAIN ses
    THEN [ses EXCEPT ![s].lastEventAt = ts, ![s].interactionCount = @ + 1]
    ELSE Append(ses, [startedAt |-> ts, lastEventAt |-> ts, interactionCount |-> 1])
=============================================================================
