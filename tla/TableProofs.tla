----------------------------- MODULE TableProofs -----------------------------
(***************************************************************************)
(* The queries over the tables return what their callers rely on, for      *)
(* every content of the tables.                                            *)
(***************************************************************************)
EXTENDS InteractionTables, ScoringProofs, FiniteSetTheorems

LEMMA LatestExists ==
  ASSUME NEW T \in SUBSET Time, T # {}
  PROVE  \E m \in T : \A t \in T : t <= m
<1> DEFINE S == {MaxTime - t : t \in T}
<1>1. S \in SUBSET Nat /\ S # {}
  <2>1. \A t \in T : t \in 0 .. MaxTime
    BY DEF Time
  <2>2. \A t \in T : MaxTime - t \in Nat
    BY <2>1, CommonAssumption, ScoringAssumption
  <2>3. QED
    BY <2>2
<1> HIDE DEF S
<1>2. PICK d \in S : \A e \in S : d <= e
  BY <1>1, LeastExists
<1> USE DEF S
<1>3. PICK m \in T : d = MaxTime - m
  BY DEF S
<1>4. ASSUME NEW t \in T
      PROVE  t <= m
  <2>1. MaxTime - t \in S
    OBVIOUS
  <2>2. MaxTime - m <= MaxTime - t
    BY <1>2, <1>3, <2>1
  <2>3. QED
    BY <2>2, CommonAssumption, ScoringAssumption DEF Time
<1>5. QED
  BY <1>4

-----------------------------------------------------------------------------
(* max(ts) is the time of a row, or NULL without rows.                     *)
LEMMA LatestEventType ==
  ASSUME NEW rows \in Seq(InteractionRow)
  PROVE  GetLatestUserEventAt(rows) \in Maybe(Time)
<1>1. CASE rows = <<>>
  BY <1>1 DEF GetLatestUserEventAt, Maybe
<1>2. CASE rows # <<>>
  <2> DEFINE T == {rows[i].ts : i \in DOMAIN rows}
  <2>1. T \in SUBSET Time
    <3>1. \A i \in DOMAIN rows : rows[i] \in InteractionRow
      OBVIOUS
    <3>2. \A i \in DOMAIN rows : rows[i].ts \in Time
      BY <3>1 DEF InteractionRow
    <3>3. QED
      BY <3>2
  <2>2. T # {}
    <3>1. 1 \in DOMAIN rows
      BY <1>2
    <3>2. QED
      BY <3>1
  <2>3. \E t \in T : \A s \in T : s <= t
    <3> HIDE DEF T
    <3>1. QED
      BY <2>1, <2>2, LatestExists
  <2>4. \E t \in T : \A i \in DOMAIN rows : rows[i].ts <= t
    BY <2>3
  <2>5. GetLatestUserEventAt(rows) \in T
    BY <1>2, <2>4 DEF GetLatestUserEventAt
  <2>6. QED
    BY <2>1, <2>5 DEF Maybe
<1>3. QED
  BY <1>1, <1>2

(* The session cut-off is the start of a session: there is one that fewer  *)
(* than WindowSessions others started after, the last one.                 *)
LEMMA SessionCutoffType ==
  ASSUME NEW ses \in Seq(SessionRow)
  PROVE  SessionCutoff(ses) \in Maybe(Time)
<1>1. CASE ses = <<>>
  BY <1>1 DEF SessionCutoff, Maybe
<1>2. CASE ses # <<>>
  <2> DEFINE startedAfter(i) == {j \in DOMAIN ses : ses[j].startedAt > ses[i].startedAt}
             few == {k \in DOMAIN ses : Cardinality(startedAfter(k)) < WindowSessions}
             recent == {ses[i].startedAt : i \in few}
             starts == {ses[i].startedAt : i \in DOMAIN ses}
  <2>0. \A i \in DOMAIN ses : ses[i].startedAt \in Time
    <3>1. \A i \in DOMAIN ses : ses[i] \in SessionRow
      OBVIOUS
    <3>2. QED
      BY <3>1 DEF SessionRow
  <2>1. starts \in SUBSET Time /\ starts # {}
    <3>1. 1 \in DOMAIN ses
      BY <1>2
    <3>2. QED
      BY <2>0, <3>1
  <2>2. \E t \in starts : \A s \in starts : s <= t
    <3> HIDE DEF starts
    <3>1. QED
      BY <2>1, LatestExists
  <2>3. PICK k \in DOMAIN ses : \A j \in DOMAIN ses : ses[j].startedAt <= ses[k].startedAt
    BY <2>2
  <2>4. \A j \in DOMAIN ses : ses[j].startedAt \in Int
    BY <2>0 DEF Time
  <2>5. startedAfter(k) = {}
    BY <2>3, <2>4
  <2>6. Cardinality(startedAfter(k)) = 0
    BY <2>5, FS_EmptySet
  <2>7. k \in few
    BY <2>6, TableAssumption
  <2>8. recent \in SUBSET Time /\ recent # {}
    <3>1. few \subseteq DOMAIN ses
      OBVIOUS
    <3> HIDE DEF few
    <3>2. QED
      BY <2>0, <2>7, <3>1
  <2>9. \E t \in recent : \A r \in recent : t <= r
    <3> HIDE DEF recent
    <3>1. Time \subseteq Nat
      BY CommonAssumption, ScoringAssumption DEF Time
    <3>2. QED
      BY <2>8, <3>1, LeastExists
  <2>10. SessionCutoff(ses) \in recent
    BY <1>2, <2>9 DEF SessionCutoff
  <2>11. QED
    BY <2>8, <2>10 DEF Maybe
<1>3. QED
  BY <1>1, <1>2

(* A window holds numbers of rows, and no row outside its two ends.        *)
LEMMA WindowType ==
  ASSUME NEW rows \in Seq(InteractionRow), Len(rows) <= MaxEvents,
         NEW cutoff, NEW end
  PROVE  GetInteractionsWindow(cutoff, rows, end) \in SUBSET Ids
BY CommonAssumption, ProfileAssumption DEF GetInteractionsWindow, Ids

(* The session of an event is an existing one of the user or the next.     *)
LEMMA SessionOfEventType ==
  ASSUME NEW ses \in Seq(SessionRow), NEW requested \in Nat, NEW now
  PROVE  ResolveOrCreateSession(ses, requested, now) \in 1 .. Len(ses) + 1
BY DEF ResolveOrCreateSession
=============================================================================
