------------------------- MODULE InteractionTables -------------------------
(***************************************************************************)
(* What a detection cycle reads of a user's sessions and interactions      *)
(* (app/db/repositories.py).                                               *)
(***************************************************************************)
EXTENDS ProfileUpdates, SessionTables, FiniteSets

CONSTANTS
  WindowSessions,  \* Settings.window_sessions
  WindowSpan       \* Settings.window_days

ASSUME TableAssumption ==
  /\ WindowSessions \in Nat \ {0}
  /\ WindowSpan \in Nat

-----------------------------------------------------------------------------
(* Earliest started_at among the WindowSessions sessions started last.     *)
SessionCutoff(ses) ==
  LET startedAfter(i) ==
        {j \in DOMAIN ses : ses[j].startedAt > ses[i].startedAt}
      recent ==
        {ses[i].startedAt :
           i \in {k \in DOMAIN ses : Cardinality(startedAfter(k)) < WindowSessions}}
  IN  IF ses = <<>> THEN NULL
      ELSE CHOOSE t \in recent : \A r \in recent : t <= r

(* The tighter of the two cut-offs: by sessions and by days.               *)
WindowCutoff(cutoff, end) ==
  IF cutoff = NULL \/ cutoff < end - WindowSpan THEN end - WindowSpan ELSE cutoff

GetInteractionsWindow(cutoff, rows, end) ==
  {i \in DOMAIN rows : WindowCutoff(cutoff, end) <= rows[i].ts /\ rows[i].ts <= end}

(* SELECT max(ts)                                                          *)
GetLatestUserEventAt(rows) ==
  IF rows = <<>> THEN NULL
  ELSE CHOOSE t \in {rows[i].ts : i \in DOMAIN rows} :
         \A i \in DOMAIN rows : rows[i].ts <= t
=============================================================================
