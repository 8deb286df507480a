------------------------------- MODULE Common -------------------------------
(***************************************************************************)
(* What every module needs: NULL, instants and row numbers.                *)
(***************************************************************************)
EXTENDS Integers

CONSTANTS
  NULL,            \* SQL NULL, Python None
  MaxTime,         \* bound: the last instant of the model
  MaxEvents,       \* bound: interactions of a user
  InactivityLimit  \* Settings.inactivity_reset_seconds

ASSUME CommonAssumption ==
  /\ MaxTime \in Nat
  /\ MaxEvents \in Nat
  /\ InactivityLimit \in Nat
  /\ NULL \notin Int

Time == 0 .. MaxTime
Ids == 1 .. MaxEvents
Maybe(S) == S \cup {NULL}
=============================================================================
