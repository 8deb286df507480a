--------------------------- MODULE DetectorProofs ----------------------------
(***************************************************************************)
(* Proofs about RollingWindow, for windows of any length, any similarities,*)
(* levels and settings: what harmless traffic does to the detectors, what  *)
(* their evidence is worth, that their signals are fractions and that the  *)
(* one named as dominant fired.                                            *)
(***************************************************************************)
EXTENDS RollingWindow, FiniteSetTheorems, WellFoundedInduction, TLAPS

WindowOK == window \in Seq(Row)

LEMMA WindowStep == WindowOK /\ [Next]_window => WindowOK'
<1> SUFFICES ASSUME WindowOK, [Next]_window PROVE WindowOK'
  OBVIOUS
<1>1. ASSUME NEW kind \in Kinds, NEW s \in 1 .. MaxSessions, Ingest(kind, s)
      PROVE  WindowOK'
  <2>1. [kind |-> kind, session |-> s] \in Row
    BY DEF Row
  <2>2. QED
    BY <1>1, <2>1 DEF Ingest, WindowOK
<1>2. CASE Slide
  BY <1>2 DEF Slide, WindowOK
<1>3. CASE UNCHANGED window
  BY <1>3 DEF WindowOK
<1>4. QED
  BY <1>1, <1>2, <1>3 DEF Next

LEMMA WindowAlways == Spec => []WindowOK
<1>1. Init => WindowOK
  BY DEF Init, WindowOK
<1>2. QED
  BY <1>1, WindowStep, PTL DEF Spec

(* A step that makes the window longer adds one row at its end.            *)
LEMMA GrownWindow ==
  ASSUME WindowOK, [Next]_window, Grows
  PROVE  \E row \in Row : window' = Append(window, row) /\ Last(window') = row
<1>1. PICK kind \in Kinds, s \in 1 .. MaxSessions : Ingest(kind, s)
  <2>1. ~Slide
    BY DEF Slide, Grows, WindowOK
  <2>2. ~UNCHANGED window
    BY DEF Grows, WindowOK
  <2>3. QED
    BY <2>1, <2>2 DEF Next
<1>2. [kind |-> kind, session |-> s] \in Row
  BY DEF Row
<1>3. QED
  BY <1>1, <1>2 DEF Ingest, Last, WindowOK

-----------------------------------------------------------------------------
(* The highest of a set of levels.                                         *)
LEMMA HighestLevel ==
  ASSUME NEW L \in SUBSET (0 .. 4), L # {}
  PROVE  Max(L) \in L /\ \A l \in L : l <= Max(L)
<1>1. \E m \in L : \A l \in L : m >= l
  <2>1. CASE 4 \in L
    BY <2>1
  <2>2. CASE 4 \notin L /\ 3 \in L
    BY <2>2
  <2>3. CASE 4 \notin L /\ 3 \notin L /\ 2 \in L
    BY <2>3
  <2>4. CASE 4 \notin L /\ 3 \notin L /\ 2 \notin L /\ 1 \in L
    BY <2>4
  <2>5. CASE 4 \notin L /\ 3 \notin L /\ 2 \notin L /\ 1 \notin L
    <3>1. \A l \in L : l = 0
      BY <2>5
    <3>2. 0 \in L
      BY <3>1
    <3>3. QED
      BY <3>1, <3>2
  <2>6. QED
    BY <2>1, <2>2, <2>3, <2>4, <2>5
<1>2. Max(L) \in L /\ \A l \in L : Max(L) >= l
  BY <1>1 DEF Max
<1>3. QED
  BY <1>2

LEMMA ChatterKeepsLevels ==
  ASSUME NEW rows \in Seq(Row), NEW row \in Row, row.session \in SessionsOf(rows),
         Level[row.kind] <= SessionLevel(rows, row.session)
  PROVE  LevelSeries(Append(rows, row)) = LevelSeries(rows)
<1> DEFINE more == Append(rows, row)
           n == Len(rows)
<1>1. /\ n \in Nat /\ DOMAIN rows = 1 .. n /\ DOMAIN more = 1 .. n + 1
      /\ \A i \in 1 .. n : more[i] = rows[i]
      /\ more[n + 1] = row
  OBVIOUS
<1>2. \A i \in DOMAIN rows : rows[i] \in Row
  OBVIOUS
<1>3. \A k \in Kinds : Level[k] \in 0 .. 4
  BY DetectorAssumption
<1> HIDE DEF more, n
<1>4. SessionsOf(more) = SessionsOf(rows)
  BY <1>1 DEF SessionsOf
<1>5. ASSUME NEW s
      PROVE  SessionLevel(more, s) = SessionLevel(rows, s)
  <2> DEFINE old == {Level[rows[i].kind] : i \in RowsIn(rows, s)}
             new == {Level[more[i].kind] : i \in RowsIn(more, s)}
  <2>2. CASE s # row.session
    <3>1. RowsIn(more, s) = RowsIn(rows, s) /\ \A i \in RowsIn(rows, s) : more[i] = rows[i]
      BY <1>1, <2>2 DEF RowsIn
    <3>2. new = old
      BY <3>1
    <3>3. QED
      BY <3>2 DEF SessionLevel
  <2>3. CASE s = row.session
    <3>1. /\ RowsIn(more, s) = RowsIn(rows, s) \cup {n + 1}
          /\ \A i \in RowsIn(rows, s) : more[i] = rows[i]
      BY <1>1, <2>3 DEF RowsIn
    <3>2. new = old \cup {Level[row.kind]}
      BY <1>1, <3>1
    <3>3. Max(old) = SessionLevel(rows, s) /\ Max(new) = SessionLevel(more, s)
      BY DEF SessionLevel
    <3>4. Level[row.kind] <= Max(old) /\ Level[row.kind] \in 0 .. 4
      BY <1>3, <2>3, <3>3 DEF Row
    <3>0. old \in SUBSET (0 .. 4) /\ old # {}
      <4>1. \A i \in DOMAIN rows : Level[rows[i].kind] \in 0 .. 4
        BY <1>2, <1>3 DEF Row
      <4>2. PICK i \in DOMAIN rows : rows[i].session = s
        BY <2>3 DEF SessionsOf
      <4>3. RowsIn(rows, s) \subseteq DOMAIN rows /\ i \in RowsIn(rows, s)
        BY <4>2 DEF RowsIn
      <4>4. QED
        BY <4>1, <4>3
    <3> HIDE DEF old, new
    <3>5. new \in SUBSET (0 .. 4) /\ new # {}
      BY <3>0, <3>2, <3>4
    <3>6. Max(old) \in old /\ \A l \in old : l <= Max(old)
      BY <3>0, HighestLevel
    <3>7. Max(new) \in new /\ \A l \in new : l <= Max(new)
      BY <3>5, HighestLevel
    <3>8. Max(new) = Max(old)
      <4>1. Max(old) \in new /\ Max(old) <= Max(new)
        BY <3>2, <3>6, <3>7
      <4>2. Max(new) <= Max(old)
        BY <3>2, <3>4, <3>6, <3>7
      <4>3. Max(old) \in Int /\ Max(new) \in Int
        <5>1. Max(old) \in 0 .. 4 /\ Max(new) \in 0 .. 4
          BY <3>0, <3>6, <3>5, <3>7
        <5>2. QED
          BY <5>1
      <4>4. QED
        BY <4>1, <4>2, <4>3
    <3>9. QED
      BY <3>3, <3>8
  <2>4. QED
    BY <2>2, <2>3
<1>6. LevelSeries(more) = LevelSeries(rows)
  BY <1>4, <1>5 DEF LevelSeries
<1>7. QED
  BY <1>6 DEF more

(* The verdict of the escalation detector is one about the level series.   *)
LEMMA VerdictOfLevels ==
  ASSUME NEW rows, NEW more, LevelSeries(more) = LevelSeries(rows)
  PROVE  /\ EscalationDetect(more).signal = EscalationDetect(rows).signal
         /\ EscalationDetect(more).fired = EscalationDetect(rows).fired
BY DEF EscalationDetect, DetectorResult, Silent

(* Prompts at or below the level their session has reached leave the       *)
(* verdict of the escalation detector alone: the series it looks at is one *)
(* of maxima.                                                              *)
THEOREM ChatterIsIgnored == Spec => ChatterLeavesEscalation
<1>1. WindowOK /\ [Next]_window => ChatterIsNoEscalation
  <2> SUFFICES ASSUME WindowOK, [Next]_window, Grows, NEW last, last = Last(window'),
                      last.session \in SessionsOf(window),
                      Level[last.kind] <= SessionLevel(window, last.session)
               PROVE  /\ EscalationDetect(window').signal = EscalationDetect(window).signal
                      /\ EscalationDetect(window').fired = EscalationDetect(window).fired
    BY DEF ChatterIsNoEscalation
  <2>1. PICK row \in Row : window' = Append(window, row) /\ Last(window') = row
    BY GrownWindow
  <2>2. LevelSeries(window') = LevelSeries(window)
    BY <2>1, ChatterKeepsLevels DEF WindowOK
  <2>3. QED
    BY <2>2, VerdictOfLevels
<1>2. QED
  BY <1>1, WindowAlways, PTL DEF Spec, ChatterLeavesEscalation

-----------------------------------------------------------------------------
LEMMA LeastExists ==
  ASSUME NEW T \in SUBSET Nat, T # {}
  PROVE  \E m \in T : \A t \in T : m <= t
<1> DEFINE R == OpToRel(<, Nat)
<1>1. \E x \in T : \A y \in T : ~(<<y, x>> \in R)
  BY NatLessThanWellFounded, WFMin
<1>2. \A x, y \in Nat : ~(<<y, x>> \in R) => x <= y
  BY DEF OpToRel
<1>3. QED
  BY <1>1, <1>2

(* The sum of a function into the naturals, which the library takes by     *)
(* recursion over the subsets of its domain, is a natural.                 *)
AnyOf(s) == CHOOSE x \in s : TRUE

AddUp(f, sum, s) == IF s = {} THEN 0 ELSE f[AnyOf(s)] + sum[s \ {AnyOf(s)}]

UpTo(S, m) == {s \in SUBSET S : Cardinality(s) <= m}

LEMMA OneLess ==
  ASSUME NEW S, IsFiniteSet(S), NEW m \in Nat, NEW s \in UpTo(S, m), s # {}
  PROVE  /\ AnyOf(s) \in s /\ AnyOf(s) \in S
         /\ m - 1 \in Nat /\ s \ {AnyOf(s)} \in UpTo(S, m - 1)
<1>1. s \in SUBSET S /\ Cardinality(s) <= m
  BY DEF UpTo
<1>2. AnyOf(s) \in s
  BY DEF AnyOf
<1>3. IsFiniteSet(s) /\ Cardinality(s) \in Nat
  BY <1>1, FS_Subset, FS_CardinalityType
<1>4. Cardinality(s \ {AnyOf(s)}) = Cardinality(s) - 1
  BY <1>2, <1>3, FS_RemoveElement
<1>5. Cardinality(s \ {AnyOf(s)}) \in Nat
  BY <1>3, FS_RemoveElement, FS_CardinalityType
<1>6. m - 1 \in Nat /\ Cardinality(s) - 1 <= m - 1
  BY <1>1, <1>3, <1>4, <1>5
<1>7. QED
  BY <1>1, <1>2, <1>4, <1>6 DEF UpTo

LEMMA SumExists ==
  ASSUME NEW f, NEW S, IsFiniteSet(S)
  PROVE  \E sum : sum = [s \in SUBSET S |-> AddUp(f, sum, s)]
<1> DEFINE Sol(sum, m) == sum = [s \in UpTo(S, m) |-> AddUp(f, sum, s)]
           T == {m \in Nat : ~\E sum : Sol(sum, m)}
<1>1. CASE T = {}
  <2>1. Cardinality(S) \in Nat /\ UpTo(S, Cardinality(S)) = SUBSET S
    BY FS_Subset, FS_CardinalityType DEF UpTo
  <2>2. \E sum : Sol(sum, Cardinality(S))
    BY <1>1, <2>1
  <2>3. QED
    BY <2>1, <2>2
<1>2. CASE T # {}
  <2>1. PICK m \in T : \A t \in T : m <= t
    <3> HIDE DEF T
    <3>1. T \subseteq Nat
      BY DEF T
    <3>2. QED
      BY <1>2, <3>1, LeastExists
  <2>2. m \in Nat /\ ~\E sum : Sol(sum, m)
    OBVIOUS
  <2>3. CASE m = 0
    <3>1. \A s \in UpTo(S, 0) : s = {}
      <4>1. ~(0 - 1 \in Nat)
        OBVIOUS
      <4>2. QED
        BY <4>1, OneLess
    <3>2. Sol([s \in UpTo(S, 0) |-> 0], 0)
      BY <3>1 DEF AddUp
    <3>3. QED
      BY <2>2, <2>3, <3>2
  <2>4. CASE m # 0
    <3>1. m - 1 \in Nat /\ m - 1 < m
      BY <2>2, <2>4
    <3>2. m - 1 \notin T
      <4> HIDE DEF T
      <4>1. ~(m <= m - 1)
        BY <2>2
      <4>2. QED
        BY <2>1, <4>1
    <3>3. PICK sum : Sol(sum, m - 1)
      BY <3>1, <3>2
    <3> DEFINE more == [s \in UpTo(S, m) |-> AddUp(f, sum, s)]
    <3>4. \A s \in UpTo(S, m - 1) : s \in UpTo(S, m) /\ more[s] = sum[s]
      <4>1. \A s \in UpTo(S, m - 1) : s \in UpTo(S, m)
        <5> SUFFICES ASSUME NEW s \in UpTo(S, m - 1) PROVE s \in UpTo(S, m)
          OBVIOUS
        <5>1. Cardinality(s) \in Nat /\ Cardinality(s) <= m - 1
          BY FS_Subset, FS_CardinalityType DEF UpTo
        <5>2. Cardinality(s) <= m
          BY <2>2, <5>1
        <5>3. QED
          BY <5>2 DEF UpTo
      <4>2. \A s \in UpTo(S, m - 1) : sum[s] = AddUp(f, sum, s)
        BY <3>3
      <4>3. QED
        BY <4>1, <4>2
    <3>5. \A s \in UpTo(S, m) : AddUp(f, sum, s) = AddUp(f, more, s)
      <4> HIDE DEF more
      <4>1. \A s \in UpTo(S, m) : s # {} => s \ {AnyOf(s)} \in UpTo(S, m - 1)
        BY <2>2, OneLess
      <4>2. QED
        BY <3>4, <4>1 DEF AddUp
    <3>6. Sol(more, m)
      BY <3>5
    <3>7. QED
      BY <2>2, <3>6
  <2>5. QED
    BY <2>3, <2>4
<1>3. QED
  BY <1>1, <1>2

Sums(f, S) == CHOOSE sum : sum = [s \in SUBSET S |-> AddUp(f, sum, s)]

LEMMA SumsAddUp ==
  ASSUME NEW S, IsFiniteSet(S), NEW f
  PROVE  /\ \A s \in SUBSET S : Sums(f, S)[s] = AddUp(f, Sums(f, S), s)
         /\ DOMAIN f = S => SumFunction(f) = Sums(f, S)[S]
<1>1. Sums(f, S) = [s \in SUBSET S |-> AddUp(f, Sums(f, S), s)]
  BY SumExists DEF Sums
<1>2. DOMAIN f = S => SumFunction(f) = Sums(f, S)[S]
  BY DEF SumFunction, SumFunctionOnSet, FoldFunctionOnSet, MapThenFoldSet, AddUp, AnyOf, Sums
<1>3. QED
  BY <1>1, <1>2

LEMMA SumsAreNat ==
  ASSUME NEW S, IsFiniteSet(S), NEW f \in [S -> Nat], NEW s \in SUBSET S
  PROVE  Sums(f, S)[s] \in Nat
<1> DEFINE sum == Sums(f, S)
           T == {n \in Nat : \E t \in SUBSET S : Cardinality(t) = n /\ sum[t] \notin Nat}
<1>1. \A t \in SUBSET S : sum[t] = AddUp(f, sum, t)
  BY SumsAddUp
<1> HIDE DEF sum
<1>2. T = {}
  <2> SUFFICES ASSUME T # {} PROVE FALSE
    OBVIOUS
  <2>1. PICK n \in T : \A t \in T : n <= t
    <3> HIDE DEF T
    <3>1. T \subseteq Nat
      BY DEF T
    <3>2. QED
      BY <3>1, LeastExists
  <2>2. PICK t \in SUBSET S : n \in Nat /\ Cardinality(t) = n /\ sum[t] \notin Nat
    OBVIOUS
  <2>3. sum[t] = AddUp(f, sum, t)
    BY <1>1
  <2>4. t # {}
    BY <2>2, <2>3 DEF AddUp
  <2>5. AnyOf(t) \in t /\ AnyOf(t) \in S /\ n - 1 \in Nat
    <3>1. t \in UpTo(S, n)
      BY <2>2 DEF UpTo
    <3>2. QED
      BY <2>2, <2>4, <3>1, OneLess
  <2>6. sum[t \ {AnyOf(t)}] \in Nat
    <3>1. IsFiniteSet(t) /\ t \ {AnyOf(t)} \in SUBSET S
      BY FS_Subset
    <3>2. Cardinality(t \ {AnyOf(t)}) = n - 1
      BY <2>2, <2>5, <3>1, FS_RemoveElement
    <3>3. n - 1 \notin T
      <4> HIDE DEF T
      <4>1. ~(n <= n - 1)
        BY <2>2
      <4>2. QED
        BY <2>1, <4>1
    <3>4. QED
      BY <2>5, <3>1, <3>2, <3>3
  <2>7. f[AnyOf(t)] \in Nat
    BY <2>5
  <2>8. QED
    BY <2>2, <2>3, <2>4, <2>6, <2>7 DEF AddUp
<1>3. IsFiniteSet(s) /\ Cardinality(s) \in Nat
  BY FS_Subset, FS_CardinalityType
<1>4. QED
  BY <1>2, <1>3 DEF sum

LEMMA SumNat ==
  ASSUME NEW S, IsFiniteSet(S), NEW f \in [S -> Nat]
  PROVE  SumFunction(f) \in Nat
<1>1. SumFunction(f) = Sums(f, S)[S] /\ S \in SUBSET S
  BY SumsAddUp
<1>2. QED
  BY <1>1, SumsAreNat

-----------------------------------------------------------------------------
(* Shares and signals.                                                     *)
LEMMA Quotient ==
  ASSUME NEW a \in Nat, NEW n \in Nat, n > 0
  PROVE  /\ a \div n \in Nat
         /\ n * (a \div n) <= a
         /\ a < n * (a \div n) + n
BY Z3

LEMMA LargerWhole ==
  ASSUME NEW a \in Nat, NEW n \in Nat, n > 0
  PROVE  a \div (n + 1) <= a \div n
<1> DEFINE p == a \div n
           q == a \div (n + 1)
<1>1. p \in Nat /\ a < n * p + n
  BY Quotient
<1>2. q \in Nat /\ (n + 1) * q <= a
  <2>1. n + 1 \in Nat /\ n + 1 > 0
    OBVIOUS
  <2>2. QED
    BY <2>1, Quotient
<1> HIDE DEF p, q
<1>3. ASSUME q >= p + 1 PROVE FALSE
  <2>1. (n + 1) * q >= (n + 1) * (p + 1)
    BY <1>1, <1>2, <1>3
  <2>2. (n + 1) * (p + 1) = n * p + p + n + 1
    BY <1>1
  <2>3. n * p \in Nat /\ (n + 1) * q \in Nat
    BY <1>1, <1>2
  <2>4. QED
    BY <1>1, <1>2, <2>1, <2>2, <2>3
<1>4. q <= p
  BY <1>1, <1>2, <1>3
<1>5. QED
  BY <1>4 DEF p, q

LEMMA Hundredths ==
  ASSUME NEW v \in Int, NEW w \in Int, v <= w
  PROVE  v \div 100 <= w \div 100 /\ v \div 100 \in Int
OBVIOUS

LEMMA GateIsMonotone ==
  ASSUME NEW v \in Nat, NEW w \in Nat, v <= w,
         NEW f, NEW g, f => g
  PROVE  GatedSignal(v, f) <= GatedSignal(w, g)
<1>1. (30 * v) \div 100 <= (30 * w) \div 100 /\ (30 * w) \div 100 <= w
  OBVIOUS
<1>2. (30 * v) \div 100 \in Int /\ (30 * w) \div 100 \in Int
  OBVIOUS
<1>3. QED
  BY <1>1, <1>2 DEF GatedSignal, Unit

LEMMA WeightedIsMonotone ==
  ASSUME NEW s \in Nat, NEW t \in Nat, NEW v \in Nat, NEW w \in Nat, v <= w
  PROVE  /\ Weighted(50, s, 20, t, 30, v) \in Nat /\ Weighted(50, s, 20, t, 30, w) \in Nat
         /\ Weighted(50, s, 20, t, 30, v) <= Weighted(50, s, 20, t, 30, w)
BY DEF Weighted, Unit

-----------------------------------------------------------------------------
(* The clusters are made of blocked rows.                                  *)
LEMMA LeastOfSet ==
  ASSUME NEW C \in SUBSET Nat, C # {}
  PROVE  Min(C) \in C
BY LeastExists DEF Min

Reached(near, core, i, reach, n) ==
  IF n = 0 THEN {i}
  ELSE reach[n - 1] \cup UNION {near[k] \cap core : k \in reach[n - 1]}

LEMMA ReachExists ==
  ASSUME NEW near, NEW core, NEW i, NEW N \in Nat
  PROVE  \E reach : reach = [n \in 0 .. N |-> Reached(near, core, i, reach, n)]
<1> DEFINE Sol(reach, m) == reach = [n \in 0 .. m |-> Reached(near, core, i, reach, n)]
           T == {m \in Nat : ~\E reach : Sol(reach, m)}
<1>1. CASE T = {}
  BY <1>1
<1>2. CASE T # {}
  <2>1. PICK m \in T : \A t \in T : m <= t
    <3> HIDE DEF T
    <3>1. T \subseteq Nat
      BY DEF T
    <3>2. QED
      BY <1>2, <3>1, LeastExists
  <2>2. m \in Nat /\ ~\E reach : Sol(reach, m)
    OBVIOUS
  <2>3. CASE m = 0
    <3>1. \A n \in 0 .. 0 : n = 0
      OBVIOUS
    <3>2. Sol([n \in 0 .. 0 |-> {i}], 0)
      BY <3>1 DEF Reached
    <3>3. QED
      BY <2>2, <2>3, <3>2
  <2>4. CASE m # 0
    <3>1. m - 1 \in Nat /\ m - 1 < m
      BY <2>2, <2>4
    <3>2. m - 1 \notin T
      <4> HIDE DEF T
      <4>1. ~(m <= m - 1)
        BY <2>2
      <4>2. QED
        BY <2>1, <4>1
    <3>3. PICK reach : Sol(reach, m - 1)
      BY <3>1, <3>2
    <3> DEFINE more == [n \in 0 .. m |-> Reached(near, core, i, reach, n)]
    <3>4. \A n \in 0 .. m - 1 : n \in 0 .. m /\ more[n] = reach[n]
      <4>1. \A n \in 0 .. m - 1 : n \in 0 .. m
        BY <2>2
      <4>2. \A n \in 0 .. m - 1 : reach[n] = Reached(near, core, i, reach, n)
        BY <3>3
      <4>3. QED
        BY <4>1, <4>2
    <3>5. \A n \in 0 .. m : Reached(near, core, i, reach, n) = Reached(near, core, i, more, n)
      <4> HIDE DEF more
      <4>1. \A n \in 0 .. m : n # 0 => n - 1 \in 0 .. m - 1
        BY <2>2
      <4>2. QED
        BY <3>4, <4>1 DEF Reached
    <3>6. Sol(more, m)
      BY <3>5
    <3>7. QED
      BY <2>2, <3>6
  <2>5. QED
    BY <2>3, <2>4
<1>3. QED
  BY <1>1, <1>2

LEMMA ChainIsCore ==
  ASSUME NEW near, NEW core, IsFiniteSet(core), NEW i \in core
  PROVE  i \in Connected(near, core, i) /\ Connected(near, core, i) \subseteq core
<1> DEFINE N == Cardinality(core)
           reach == CHOOSE reach : reach = [n \in 0 .. N |-> Reached(near, core, i, reach, n)]
           Good(n) == i \in reach[n] /\ reach[n] \subseteq core
           T == {n \in Nat : n \in 0 .. N /\ ~Good(n)}
<1>1. N \in Nat
  BY FS_CardinalityType
<1>2. Connected(near, core, i) = reach[N]
  BY DEF Connected, Reached
<1>3. reach = [n \in 0 .. N |-> Reached(near, core, i, reach, n)]
  BY <1>1, ReachExists
<1> HIDE DEF N, reach
<1>4. T = {}
  <2> SUFFICES ASSUME T # {} PROVE FALSE
    OBVIOUS
  <2>1. PICK n \in T : \A t \in T : n <= t
    <3> HIDE DEF T
    <3>1. T \subseteq Nat
      BY DEF T
    <3>2. QED
      BY <3>1, LeastExists
  <2>2. n \in 0 .. N /\ ~Good(n)
    OBVIOUS
  <2>3. reach[n] = Reached(near, core, i, reach, n)
    BY <1>3, <2>2
  <2>4. n # 0
    BY <2>2, <2>3 DEF Reached
  <2>5. n - 1 \in Nat /\ n - 1 \in 0 .. N /\ ~(n <= n - 1)
    BY <1>1, <2>2, <2>4
  <2>6. Good(n - 1)
    <3>1. n - 1 \notin T
      <4> HIDE DEF T
      <4>1. QED
        BY <2>1, <2>5
    <3>2. QED
      BY <2>5, <3>1
  <2>7. QED
    BY <2>2, <2>3, <2>4, <2>6 DEF Reached
<1>5. N \in 0 .. N
  BY <1>1
<1>6. QED
  BY <1>1, <1>2, <1>4, <1>5

LEMMA ClustersOfRows ==
  ASSUME NEW D, IsFiniteSet(D), NEW near \in [D -> SUBSET D]
  PROVE  Clusters(near) \subseteq (SUBSET D) \ {{}}
<1> DEFINE core == CorePoints(near)
           chains == {Connected(near, core, i) : i \in core}
           Border(chain) == UNION {near[i] : i \in chain} \ core
           Earlier(chain) == {c \in chains : Min(c) < Min(chain)}
<1>1. core \subseteq D /\ IsFiniteSet(core)
  <2>1. core \subseteq D
    BY DEF CorePoints
  <2>2. QED
    BY <2>1, FS_Subset
<1>2. \A chain \in chains : chain \subseteq D /\ chain # {}
  BY <1>1, ChainIsCore
<1> HIDE DEF core
<1>3. \A chain \in chains : Border(chain) \subseteq D
  BY <1>2
<1>4. Clusters(near) =
        {chain \cup (Border(chain) \ UNION {Border(c) : c \in Earlier(chain)}) : chain \in chains}
  BY DEF Clusters, core
<1> HIDE DEF chains, Border, Earlier
<1>5. QED
  BY <1>2, <1>3, <1>4

LEMMA LargestIsOne ==
  ASSUME NEW D \in SUBSET Nat, IsFiniteSet(D), NEW K, K \subseteq (SUBSET D) \ {{}}, K # {}
  PROVE  LargestCluster(K) \in K
<1> DEFINE Behind == {Cardinality(D) - Cardinality(C) : C \in K}
<1>1. \A C \in K : /\ Cardinality(C) \in Nat /\ Cardinality(D) - Cardinality(C) \in Nat
                   /\ Min(C) \in Nat
  <2> SUFFICES ASSUME NEW C \in K
               PROVE  /\ Cardinality(C) \in Nat /\ Cardinality(D) - Cardinality(C) \in Nat
                      /\ Min(C) \in Nat
    OBVIOUS
  <2>1. C \in SUBSET D /\ C # {}
    OBVIOUS
  <2>2. Cardinality(C) \in Nat /\ Cardinality(D) \in Nat /\ Cardinality(C) <= Cardinality(D)
    BY <2>1, FS_Subset, FS_CardinalityType
  <2>3. Min(C) \in C
    BY <2>1, LeastOfSet
  <2>4. \A a, b \in Nat : a <= b => b - a \in Nat
    OBVIOUS
  <2>5. Min(C) \in Nat
    BY <2>1, <2>3
  <2>6. QED
    BY <2>2, <2>4, <2>5
<1>2. PICK B \in K : \A D2 \in K :
        Cardinality(D) - Cardinality(B) <= Cardinality(D) - Cardinality(D2)
  <2>1. Behind \in SUBSET Nat /\ Behind # {}
    BY <1>1
  <2>2. \E m \in Behind : \A t \in Behind : m <= t
    <3> HIDE DEF Behind
    <3>1. QED
      BY <2>1, LeastExists
  <2>3. QED
    BY <2>2
<1>3. \A C \in K : Cardinality(C) <= Cardinality(B)
  <2>1. Cardinality(D) \in Nat
    BY FS_CardinalityType
  <2>2. QED
    BY <1>1, <1>2, <2>1
<1> DEFINE Biggest == {C \in K : Cardinality(C) = Cardinality(B)}
           Firsts == {Min(C) : C \in Biggest}
<1>4. PICK C \in Biggest : \A E \in Biggest : Min(C) <= Min(E)
  <2>1. Firsts \in SUBSET Nat /\ Firsts # {}
    BY <1>1
  <2>2. \E m \in Firsts : \A t \in Firsts : m <= t
    <3> HIDE DEF Firsts
    <3>1. QED
      BY <2>1, LeastExists
  <2>3. QED
    BY <2>2
<1>5. ASSUME NEW E \in K
      PROVE  \/ Cardinality(C) > Cardinality(E)
             \/ Cardinality(C) = Cardinality(E) /\ Min(C) <= Min(E)
  <2>1. Cardinality(E) \in Nat /\ Cardinality(B) \in Nat /\ Cardinality(E) <= Cardinality(B)
    BY <1>1, <1>3
  <2>2. Cardinality(C) = Cardinality(B)
    OBVIOUS
  <2>3. CASE Cardinality(E) = Cardinality(B)
    BY <1>4, <2>2, <2>3
  <2>4. CASE Cardinality(E) # Cardinality(B)
    BY <2>1, <2>2, <2>4
  <2>5. QED
    BY <2>3, <2>4
<1>6. QED
  BY <1>4, <1>5 DEF LargestCluster

-----------------------------------------------------------------------------
(* The probing detector over the rows of a window.                         *)
LEMMA RowsBlocked ==
  ASSUME NEW rows \in Seq(Row)
  PROVE  LET D == BlockedRows(rows) IN
         /\ D \subseteq DOMAIN rows /\ D \in SUBSET Nat /\ IsFiniteSet(D)
         /\ Cardinality(D) \in Nat /\ Len(rows) \in Nat
         /\ Neighbourhoods(rows) \in [D -> SUBSET D]
<1> DEFINE D == BlockedRows(rows)
<1>1. Len(rows) \in Nat /\ DOMAIN rows = 1 .. Len(rows)
  OBVIOUS
<1>2. D \subseteq DOMAIN rows
  BY DEF BlockedRows
<1>3. IsFiniteSet(DOMAIN rows)
  BY <1>1, FS_Interval
<1>4. IsFiniteSet(D) /\ Cardinality(D) \in Nat
  BY <1>2, <1>3, FS_Subset, FS_CardinalityType
<1>5. D \in SUBSET Nat
  BY <1>1, <1>2
<1>6. Neighbourhoods(rows) \in [D -> SUBSET D]
  BY DEF Neighbourhoods
<1>7. QED
  BY <1>1, <1>2, <1>4, <1>5, <1>6

LEMMA ClustersOfWindow ==
  ASSUME NEW rows \in Seq(Row)
  PROVE  LET K == Clusters(Neighbourhoods(rows)) IN
         K # {} => LargestCluster(K) \subseteq DOMAIN rows /\ LargestCluster(K) # {}
<1> DEFINE D == BlockedRows(rows)
           K == Clusters(Neighbourhoods(rows))
<1>1. D \subseteq DOMAIN rows /\ D \in SUBSET Nat /\ IsFiniteSet(D)
      /\ Neighbourhoods(rows) \in [D -> SUBSET D]
  BY RowsBlocked
<1>2. K \subseteq (SUBSET D) \ {{}}
  BY <1>1, ClustersOfRows
<1> HIDE DEF D, K
<1>3. K # {} => LargestCluster(K) \in K
  BY <1>1, <1>2, LargestIsOne
<1>4. K # {} => LargestCluster(K) \subseteq DOMAIN rows /\ LargestCluster(K) # {}
  BY <1>1, <1>2, <1>3
<1>5. QED
  BY <1>4 DEF K

LEMMA SimilarityOfRows ==
  ASSUME NEW rows \in Seq(Row), NEW i \in DOMAIN rows, NEW j \in DOMAIN rows
  PROVE  Similarity[rows[i].kind][rows[j].kind] \in Nat
<1>1. rows[i] \in Row /\ rows[j] \in Row
  OBVIOUS
<1>2. rows[i].kind \in Kinds /\ rows[j].kind \in Kinds
  BY <1>1 DEF Row
<1>3. Similarity[rows[i].kind][rows[j].kind] \in 0 .. Unit
  BY <1>2, DetectorAssumption
<1>4. \A v \in 0 .. Unit : v \in Nat
  BY DEF Unit
<1>5. QED
  BY <1>3, <1>4

LEMMA MeanOfRows ==
  ASSUME NEW rows \in Seq(Row), NEW I, I \subseteq DOMAIN rows
  PROVE  MeanPairwiseCosineSimilarity(rows, I) \in Nat
<1> DEFINE pairs == {p \in I \X I : p[1] < p[2]}
           sim == [p \in pairs |-> Similarity[rows[p[1]].kind][rows[p[2]].kind]]
<1>1. IsFiniteSet(pairs) /\ Cardinality(pairs) \in Nat
  <2>1. Len(rows) \in Nat /\ DOMAIN rows = 1 .. Len(rows)
    OBVIOUS
  <2>2. IsFiniteSet(DOMAIN rows)
    BY <2>1, FS_Interval
  <2>3. IsFiniteSet(I)
    BY <2>2, FS_Subset
  <2>4. IsFiniteSet(I \X I)
    BY <2>3, FS_Product
  <2>5. pairs \in SUBSET (I \X I)
    OBVIOUS
  <2>6. QED
    BY <2>4, <2>5, FS_Subset, FS_CardinalityType
<1>2. sim \in [pairs -> Nat]
  <2>1. \A p \in pairs : p[1] \in DOMAIN rows /\ p[2] \in DOMAIN rows
    OBVIOUS
  <2>2. QED
    BY <2>1, SimilarityOfRows
<1>3. SumFunction(sim) \in Nat
  <2> HIDE DEF pairs, sim
  <2>1. QED
    BY <1>1, <1>2, SumNat
<1>4. pairs # {} => Cardinality(pairs) > 0
  <2> HIDE DEF pairs
  <2>1. QED
    BY <1>1, FS_EmptySet
<1>5. pairs # {} => SumFunction(sim) \div Cardinality(pairs) \in Nat
  <2> HIDE DEF pairs, sim
  <2>1. QED
    BY <1>1, <1>3, <1>4, Quotient
<1>6. MeanPairwiseCosineSimilarity(rows, I) =
        IF pairs # {} THEN SumFunction(sim) \div Cardinality(pairs)
        ELSE IF I # {} THEN Unit ELSE 0
  BY DEF MeanPairwiseCosineSimilarity
<1>7. Unit \in Nat
  BY DEF Unit
<1> HIDE DEF pairs, sim
<1>8. QED
  BY <1>5, <1>6, <1>7

(* A row that passed the guardrail changes nothing but the block rate.     *)
LEMMA PassedRow ==
  ASSUME NEW rows \in Seq(Row), NEW row \in Row, Outcome[row.kind] # "blocked"
  PROVE  LET more == Append(rows, row) IN
         /\ BlockedRows(more) = BlockedRows(rows)
         /\ Neighbourhoods(more) = Neighbourhoods(rows)
         /\ \A I : I \subseteq DOMAIN rows =>
              MeanPairwiseCosineSimilarity(more, I) = MeanPairwiseCosineSimilarity(rows, I)
<1> DEFINE more == Append(rows, row)
           n == Len(rows)
<1>1. /\ n \in Nat /\ DOMAIN rows = 1 .. n /\ DOMAIN more = 1 .. n + 1
      /\ \A i \in DOMAIN rows : more[i] = rows[i]
      /\ more[n + 1] = row
  OBVIOUS
<1> HIDE DEF more, n
<1>2. BlockedRows(more) = BlockedRows(rows)
  BY <1>1 DEF BlockedRows
<1>3. \A i \in BlockedRows(rows) : more[i] = rows[i]
  BY <1>1 DEF BlockedRows
<1>4. Neighbourhoods(more) = Neighbourhoods(rows)
  <2> DEFINE near(w) == [i \in BlockedRows(rows) |-> {j \in BlockedRows(rows) :
               Similarity[w[i].kind][w[j].kind] >= Unit - Config.probing_dbscan_eps}]
  <2>1. near(more) = near(rows)
    BY <1>3
  <2>2. QED
    BY <1>2, <2>1 DEF Neighbourhoods
<1>5. ASSUME NEW I, I \subseteq DOMAIN rows
      PROVE  MeanPairwiseCosineSimilarity(more, I) = MeanPairwiseCosineSimilarity(rows, I)
  <2> DEFINE pairs == {p \in I \X I : p[1] < p[2]}
             sim(w) == [p \in pairs |-> Similarity[w[p[1]].kind][w[p[2]].kind]]
  <2>1. sim(more) = sim(rows)
    <3>1. \A p \in pairs : more[p[1]] = rows[p[1]] /\ more[p[2]] = rows[p[2]]
      BY <1>1, <1>5
    <3>2. QED
      BY <3>1
  <2>2. QED
    BY <2>1 DEF MeanPairwiseCosineSimilarity
<1>6. QED
  BY <1>2, <1>4, <1>5 DEF more

(* The parts of the signal that are about the largest cluster C.           *)
SizeTerm(C) == AtMost(Unit, Percent(Cardinality(C), Config.probing_cluster_saturation))

SimTerm(rows, C) ==
  Clamp(Percent(MeanPairwiseCosineSimilarity(rows, C) - Config.probing_min_mean_sim,
                Config.probing_sim_term_high - Config.probing_min_mean_sim))

Dense(rows, C) ==
  /\ Cardinality(C) >= Config.probing_min_cluster_size
  /\ MeanPairwiseCosineSimilarity(rows, C)
       \in Config.probing_min_mean_sim .. Config.probing_max_mean_sim

ClusterSignal(rows, C) ==
  GatedSignal(Weighted(50, SizeTerm(C), 20, SimTerm(rows, C), 30, BlockRate(rows)),
              Dense(rows, C) /\ BlockRate(rows) >= Config.probing_min_block_rate)

LEMMA ProbingSignal ==
  ASSUME NEW rows, rows # <<>>
  PROVE  LET K == Clusters(Neighbourhoods(rows)) IN
         /\ K = {} => ProbingDetect(rows).signal =
                        GatedSignal(Weighted(0, 0, 0, 0, 30, BlockRate(rows)), FALSE)
         /\ K # {} => ProbingDetect(rows).signal = ClusterSignal(rows, LargestCluster(K))
BY Zenon DEF ProbingDetect, DetectorResult, ClusterSignal, SizeTerm, SimTerm, Dense

LEMMA RateType ==
  ASSUME NEW rows \in Seq(Row), rows # <<>>
  PROVE  BlockRate(rows) \in Nat
<1>1. Cardinality(BlockedRows(rows)) \in Nat /\ Len(rows) \in Nat /\ Len(rows) > 0
  BY RowsBlocked
<1>2. 100 * Cardinality(BlockedRows(rows)) \in Nat
  BY <1>1
<1>3. (100 * Cardinality(BlockedRows(rows))) \div Len(rows) \in Nat
  BY <1>1, <1>2, Quotient
<1>4. QED
  BY <1>3 DEF BlockRate, Percent, Unit

LEMMA TermTypes ==
  ASSUME NEW rows \in Seq(Row), NEW C, C \subseteq DOMAIN rows
  PROVE  SizeTerm(C) \in Nat /\ SimTerm(rows, C) \in Nat
<1>1. Cardinality(C) \in Nat
  <2>1. Len(rows) \in Nat /\ DOMAIN rows = 1 .. Len(rows)
    OBVIOUS
  <2>2. IsFiniteSet(DOMAIN rows)
    BY <2>1, FS_Interval
  <2>3. QED
    BY <2>2, FS_Subset, FS_CardinalityType
<1>2. SizeTerm(C) \in Nat
  <2> DEFINE a == 100 * Cardinality(C)
             n == Config.probing_cluster_saturation
  <2>1. a \in Nat /\ n \in Nat /\ n > 0
    BY <1>1, ProbingAssumption
  <2> HIDE DEF a, n
  <2>2. a \div n \in Nat
    BY <2>1, Quotient
  <2>3. AtMost(100, a \div n) \in Nat
    BY <2>2 DEF AtMost
  <2>4. QED
    BY <2>3 DEF SizeTerm, Percent, Unit, a, n
<1>3. SimTerm(rows, C) \in Nat
  <2> DEFINE m == MeanPairwiseCosineSimilarity(rows, C)
             low == Config.probing_min_mean_sim
             high == Config.probing_sim_term_high
  <2>1. m \in Int /\ low \in Int /\ high \in Int /\ low < high
    BY MeanOfRows, ProbingAssumption
  <2> HIDE DEF m, low, high
  <2>2. 100 * (m - low) \in Int /\ high - low \in Nat /\ high - low > 0
    BY <2>1
  <2>3. (100 * (m - low)) \div (high - low) \in Int
    BY <2>2
  <2>4. \A v \in Int : Clamp(v) \in Nat
    BY DEF Clamp, AtMost, Unit
  <2>5. Clamp((100 * (m - low)) \div (high - low)) \in Nat
    BY <2>3, <2>4
  <2>6. QED
    BY <2>5 DEF SimTerm, Percent, Unit, m, low, high
<1>4. QED
  BY <1>2, <1>3

LEMMA RateFalls ==
  ASSUME NEW rows \in Seq(Row), NEW row \in Row, Outcome[row.kind] # "blocked", rows # <<>>
  PROVE  BlockRate(Append(rows, row)) <= BlockRate(rows)
<1>1. Cardinality(BlockedRows(rows)) \in Nat /\ Len(rows) \in Nat /\ Len(rows) > 0
  BY RowsBlocked
<1>2. /\ BlockedRows(Append(rows, row)) = BlockedRows(rows)
      /\ Len(Append(rows, row)) = Len(rows) + 1
  BY PassedRow
<1>3. 100 * Cardinality(BlockedRows(rows)) \in Nat
  BY <1>1
<1>4. (100 * Cardinality(BlockedRows(rows))) \div (Len(rows) + 1)
        <= (100 * Cardinality(BlockedRows(rows))) \div Len(rows)
  BY <1>1, <1>3, LargerWhole
<1>5. QED
  BY <1>2, <1>4 DEF BlockRate, Percent, Unit

LEMMA PassedRowDilutes ==
  ASSUME NEW rows \in Seq(Row), NEW row \in Row, Outcome[row.kind] # "blocked", rows # <<>>
  PROVE  ProbingDetect(Append(rows, row)).signal <= ProbingDetect(rows).signal
<1> DEFINE more == Append(rows, row)
           K == Clusters(Neighbourhoods(rows))
           C == LargestCluster(K)
           v == BlockRate(more)
           w == BlockRate(rows)
<1>1. more \in Seq(Row) /\ more # <<>>
  OBVIOUS
<1>2. v \in Nat /\ w \in Nat /\ v <= w
  BY <1>1, RateType, RateFalls
<1>3. Clusters(Neighbourhoods(more)) = K
  BY PassedRow
<1>4. CASE K = {}
  <2>1. /\ ProbingDetect(more).signal = GatedSignal(Weighted(0, 0, 0, 0, 30, v), FALSE)
        /\ ProbingDetect(rows).signal = GatedSignal(Weighted(0, 0, 0, 0, 30, w), FALSE)
    BY <1>1, <1>3, <1>4, ProbingSignal
  <2> HIDE DEF v, w
  <2>2. Weighted(0, 0, 0, 0, 30, v) \in Nat /\ Weighted(0, 0, 0, 0, 30, w) \in Nat
        /\ Weighted(0, 0, 0, 0, 30, v) <= Weighted(0, 0, 0, 0, 30, w)
    BY <1>2 DEF Weighted, Unit
  <2>3. GatedSignal(Weighted(0, 0, 0, 0, 30, v), FALSE)
          <= GatedSignal(Weighted(0, 0, 0, 0, 30, w), FALSE)
    BY <2>2, GateIsMonotone
  <2>4. QED
    BY <2>1, <2>3
<1>5. CASE K # {}
  <2>1. /\ ProbingDetect(more).signal = ClusterSignal(more, C)
        /\ ProbingDetect(rows).signal = ClusterSignal(rows, C)
    BY <1>1, <1>3, <1>5, ProbingSignal
  <2>2. C \subseteq DOMAIN rows
    BY <1>5, ClustersOfWindow
  <2>3. MeanPairwiseCosineSimilarity(more, C) = MeanPairwiseCosineSimilarity(rows, C)
    BY <2>2, PassedRow
  <2>4. SimTerm(more, C) = SimTerm(rows, C) /\ (Dense(more, C) <=> Dense(rows, C))
    BY <2>3 DEF SimTerm, Dense
  <2>5. SizeTerm(C) \in Nat /\ SimTerm(rows, C) \in Nat
    BY <2>2, TermTypes
  <2> DEFINE s == SizeTerm(C)
             t == SimTerm(rows, C)
             low == Config.probing_min_block_rate
  <2>6. v >= low => w >= low
    BY <1>2, ProbingAssumption
  <2>7. ClusterSignal(more, C) =
          GatedSignal(Weighted(50, s, 20, t, 30, v), Dense(more, C) /\ v >= low)
    BY <2>4 DEF ClusterSignal
  <2>8. ClusterSignal(rows, C) =
          GatedSignal(Weighted(50, s, 20, t, 30, w), Dense(rows, C) /\ w >= low)
    BY DEF ClusterSignal
  <2> HIDE DEF s, t, v, w, low
  <2>9. /\ Weighted(50, s, 20, t, 30, v) \in Nat /\ Weighted(50, s, 20, t, 30, w) \in Nat
        /\ Weighted(50, s, 20, t, 30, v) <= Weighted(50, s, 20, t, 30, w)
    BY <1>2, <2>5, WeightedIsMonotone DEF s, t
  <2>10. Dense(more, C) /\ v >= low => Dense(rows, C) /\ w >= low
    BY <2>4, <2>6
  <2>11. GatedSignal(Weighted(50, s, 20, t, 30, v), Dense(more, C) /\ v >= low)
           <= GatedSignal(Weighted(50, s, 20, t, 30, w), Dense(rows, C) /\ w >= low)
    BY <2>9, <2>10, GateIsMonotone
  <2>12. QED
    BY <2>1, <2>7, <2>8, <2>11
<1>6. QED
  BY <1>4, <1>5

LEMMA FirstRowPassed ==
  ASSUME NEW row \in Row, Outcome[row.kind] # "blocked"
  PROVE  ProbingDetect(Append(<<>>, row)).signal = 0 /\ ProbingDetect(<<>>).signal = 0
<1> DEFINE more == Append(<<>>, row)
<1>1. more \in Seq(Row) /\ more # <<>> /\ Len(more) = 1 /\ more[1] = row /\ DOMAIN more = 1 .. 1
  OBVIOUS
<1>2. BlockedRows(more) = {}
  BY <1>1 DEF BlockedRows
<1>3. Clusters(Neighbourhoods(more)) = {}
  <2>1. Neighbourhoods(more) \in [BlockedRows(more) -> SUBSET BlockedRows(more)]
    BY <1>1, RowsBlocked
  <2>2. Clusters(Neighbourhoods(more)) \subseteq (SUBSET {}) \ {{}}
    BY <1>2, <2>1, ClustersOfRows, FS_EmptySet
  <2>3. QED
    BY <2>2
<1>4. BlockRate(more) = 0
  <2>1. Cardinality(BlockedRows(more)) = 0
    BY <1>2, FS_EmptySet
  <2>2. (100 * 0) \div 1 = 0
    OBVIOUS
  <2>3. QED
    BY <1>1, <2>1, <2>2 DEF BlockRate, Percent, Unit
<1>5. ProbingDetect(more).signal = GatedSignal(Weighted(0, 0, 0, 0, 30, 0), FALSE)
  BY <1>1, <1>3, <1>4, ProbingSignal
<1>6. GatedSignal(Weighted(0, 0, 0, 0, 30, 0), FALSE) = 0
  BY DEF GatedSignal, Weighted, Unit
<1>7. ProbingDetect(<<>>).signal = 0
  BY DEF ProbingDetect, Silent, DetectorResult
<1>8. QED
  BY <1>5, <1>6, <1>7

(* Traffic that passes the guardrail never raises the probing signal, for  *)
(* any similarities, clusters and thresholds, and whether or not the       *)
(* detector had fired.                                                     *)
THEOREM PassedTrafficDilutes == Spec => PassedPromptsNeverRaiseProbing
<1>1. WindowOK /\ [Next]_window => PassedPromptOnlyDilutes
  <2> SUFFICES ASSUME WindowOK, [Next]_window, Grows,
                      Outcome[Last(window').kind] # "blocked"
               PROVE  ProbingDetect(window').signal <= ProbingDetect(window).signal
    BY DEF PassedPromptOnlyDilutes
  <2>1. PICK row \in Row : window' = Append(window, row) /\ Last(window') = row
    BY GrownWindow
  <2>2. PICK rows \in Seq(Row) : rows = window
    BY DEF WindowOK
  <2>3. ProbingDetect(Append(rows, row)).signal <= ProbingDetect(rows).signal
    <3>1. CASE rows = <<>>
      BY <2>1, <3>1, FirstRowPassed
    <3>2. CASE rows # <<>>
      BY <2>1, <3>2, PassedRowDilutes
    <3>3. QED
      BY <3>1, <3>2
  <2>4. QED
    BY <2>1, <2>2, <2>3
<1>2. QED
  BY <1>1, WindowAlways, PTL DEF Spec, PassedPromptsNeverRaiseProbing

-----------------------------------------------------------------------------
(* The members of a finite set of numbers in their order.                  *)
LEMMA OrderedSet ==
  ASSUME NEW S \in SUBSET Nat, IsFiniteSet(S)
  PROVE  /\ Cardinality(S) \in Nat
         /\ InOrder(S) \in [1 .. Cardinality(S) -> S]
         /\ \A x \in S : \E n \in 1 .. Cardinality(S) : InOrder(S)[n] = x
         /\ \A m, n \in 1 .. Cardinality(S) : m < n => InOrder(S)[m] < InOrder(S)[n]
<1> DEFINE N == Cardinality(S)
           upto(x) == {y \in S : y <= x}
           rank == [x \in S |-> Cardinality(upto(x))]
<1>1. N \in Nat
  BY FS_CardinalityType
<1>2. ASSUME NEW x \in S
      PROVE  IsFiniteSet(upto(x)) /\ rank[x] \in 1 .. N
  <2>1. upto(x) \in SUBSET S /\ x \in upto(x)
    OBVIOUS
  <2>2. IsFiniteSet(upto(x)) /\ Cardinality(upto(x)) <= N /\ Cardinality(upto(x)) \in Nat
    BY <2>1, FS_Subset, FS_CardinalityType
  <2>3. Cardinality(upto(x)) # 0
    <3> HIDE DEF upto
    <3>1. QED
      BY <2>1, <2>2, FS_EmptySet
  <2>4. QED
    BY <1>1, <2>2, <2>3
<1>3. ASSUME NEW x \in S, NEW y \in S, x < y
      PROVE  rank[x] < rank[y]
  <2>0. x \in Nat /\ y \in Nat
    OBVIOUS
  <2>1. upto(x) \in SUBSET upto(y)
    <3>1. \A z \in S : z <= x => z <= y
      BY <1>3, <2>0
    <3>2. QED
      BY <3>1
  <2>5. y \in upto(y) /\ y \notin upto(x)
    BY <1>3, <2>0
  <2>2. IsFiniteSet(upto(y))
    BY <1>2
  <2>3. Cardinality(upto(x)) <= Cardinality(upto(y)) /\ Cardinality(upto(x)) # Cardinality(upto(y))
    <3> HIDE DEF upto
    <3>1. QED
      BY <2>1, <2>2, <2>5, FS_Subset
  <2>4. rank[x] \in Nat /\ rank[y] \in Nat
    BY <1>1, <1>2
  <2> HIDE DEF N
  <2>6. QED
    BY <2>3, <2>4
<1>4. \A x, y \in S : rank[x] = rank[y] => x = y
  <2>1. \A x \in S : rank[x] \in Nat
    BY <1>1, <1>2
  <2> HIDE DEF rank
  <2>2. QED
    BY <1>3, <2>1
<1>5. \A n \in 1 .. N : \E x \in S : rank[x] = n
  <2>1. rank \in [S -> 1 .. N]
    BY <1>2
  <2>2. rank \in Injection(S, 1 .. N)
    <3> HIDE DEF rank
    <3>1. QED
      BY <1>4, <2>1 DEF Injection, IsInjective
  <2>3. IsFiniteSet(1 .. N) /\ Cardinality(1 .. N) = N
    BY <1>1, FS_Interval
  <2>4. rank \in Surjection(S, 1 .. N)
    <3> HIDE DEF rank
    <3>1. QED
      BY <2>2, <2>3, FS_Injection
  <2> HIDE DEF rank
  <2>5. QED
    BY <2>4 DEF Surjection
<1>6. \A n \in 1 .. N : InOrder(S)[n] = CHOOSE x \in S : Cardinality(upto(x)) = n
  BY DEF InOrder
<1>7. \A n \in 1 .. N : InOrder(S)[n] \in S /\ rank[InOrder(S)[n]] = n
  <2> SUFFICES ASSUME NEW n \in 1 .. N
               PROVE  InOrder(S)[n] \in S /\ rank[InOrder(S)[n]] = n
    OBVIOUS
  <2>1. \E x \in S : Cardinality(upto(x)) = n
    BY <1>5
  <2> HIDE DEF upto, N
  <2>2. InOrder(S)[n] \in S /\ Cardinality(upto(InOrder(S)[n])) = n
    BY <1>6, <2>1
  <2>3. QED
    BY <2>2
<1>8. \A m, n \in 1 .. N : m < n => InOrder(S)[m] < InOrder(S)[n]
  <2> SUFFICES ASSUME NEW m \in 1 .. N, NEW n \in 1 .. N, m < n
               PROVE  InOrder(S)[m] < InOrder(S)[n]
    OBVIOUS
  <2> PICK x, y \in S : x = InOrder(S)[m] /\ y = InOrder(S)[n]
    BY <1>7
  <2>1. rank[x] = m /\ rank[y] = n
    BY <1>7
  <2>2. x # y /\ ~(y < x)
    <3> HIDE DEF rank
    <3>1. m \in Int /\ n \in Int
      BY <1>1
    <3>2. QED
      BY <1>3, <2>1, <3>1
  <2>3. x \in Nat /\ y \in Nat
    OBVIOUS
  <2>4. QED
    BY <2>2, <2>3
<1>9. \A x \in S : rank[x] \in 1 .. N /\ InOrder(S)[rank[x]] = x
  <2> HIDE DEF rank
  <2>1. QED
    BY <1>2, <1>4, <1>7
<1>10. InOrder(S) \in [1 .. N -> S]
  <2>1. InOrder(S) = [n \in 1 .. N |-> InOrder(S)[n]]
    BY DEF InOrder
  <2> HIDE DEF rank, N
  <2>2. QED
    BY <1>7, <2>1
<1>11. QED
  BY <1>1, <1>8, <1>9, <1>10

LEMMA OrderedInterval ==
  ASSUME NEW n \in Nat
  PROVE  InOrder(1 .. n) = [i \in 1 .. n |-> i]
<1>1. IsFiniteSet(1 .. n) /\ Cardinality(1 .. n) = n
  BY FS_Interval
<1>2. ASSUME NEW i \in 1 .. n, NEW x \in 1 .. n
      PROVE  Cardinality({y \in 1 .. n : y <= x}) = x
  <2>1. {y \in 1 .. n : y <= x} = 1 .. x
    OBVIOUS
  <2>2. Cardinality(1 .. x) = x
    BY FS_Interval
  <2>3. QED
    BY <2>1, <2>2
<1>3. ASSUME NEW i \in 1 .. n
      PROVE  (CHOOSE x \in 1 .. n : Cardinality({y \in 1 .. n : y <= x}) = i) = i
  BY <1>2
<1>4. QED
  BY <1>1, <1>3 DEF InOrder

-----------------------------------------------------------------------------
(* The rows of a window at the positions I, which they keep in their order.*)
LEMMA Restricted ==
  ASSUME NEW rows \in Seq(Row), NEW I, I \subseteq DOMAIN rows
  PROVE  LET few == Restriction(rows, I)
             n == Cardinality(I)
         IN  /\ n \in Nat /\ IsFiniteSet(I) /\ I \in SUBSET Nat
             /\ few \in Seq(Row) /\ Len(few) = n /\ DOMAIN few = 1 .. n
             /\ InOrder(I) \in [1 .. n -> I]
             /\ \A i \in 1 .. n : few[i] = rows[InOrder(I)[i]]
<1> DEFINE few == Restriction(rows, I)
           n == Cardinality(I)
           at == InOrder(I)
<1>1. Len(rows) \in Nat /\ DOMAIN rows = 1 .. Len(rows)
  OBVIOUS
<1>2. IsFiniteSet(DOMAIN rows)
  BY <1>1, FS_Interval
<1>3. IsFiniteSet(I) /\ n \in Nat
  BY <1>2, FS_Subset, FS_CardinalityType
<1>4. I \in SUBSET Nat
  BY <1>1
<1>5. at \in [1 .. n -> I]
  BY <1>3, <1>4, OrderedSet
<1> HIDE DEF at, n
<1>6. few = [i \in 1 .. n |-> rows[at[i]]]
  BY <1>5 DEF Restriction, at
<1>7. \A i \in 1 .. n : rows[at[i]] \in Row
  <2>1. \A i \in DOMAIN rows : rows[i] \in Row
    OBVIOUS
  <2>2. QED
    BY <1>5, <2>1
<1> HIDE DEF few
<1>8. few \in [1 .. n -> Row]
  BY <1>6, <1>7
<1>9. few \in Seq(Row) /\ Len(few) = n /\ DOMAIN few = 1 .. n
  BY <1>3, <1>8
<1>10. QED
  BY <1>3, <1>4, <1>5, <1>6, <1>9 DEF few, at, n

(* The rows that reached their session's level keep the level of every     *)
(* session.                                                                *)
LEMMA RisesKeepLevels ==
  ASSUME NEW rows \in Seq(Row)
  PROVE  LevelSeries(Restriction(rows, Rises(rows))) = LevelSeries(rows)
<1> DEFINE I == Rises(rows)
           few == Restriction(rows, I)
           n == Cardinality(I)
           at == InOrder(I)
<1>1. I \subseteq DOMAIN rows
  BY DEF Rises
<1>2. /\ n \in Nat /\ IsFiniteSet(I) /\ I \in SUBSET Nat
      /\ DOMAIN few = 1 .. n /\ at \in [1 .. n -> I]
      /\ \A i \in 1 .. n : few[i] = rows[at[i]]
  BY <1>1, Restricted
<1>3. \A x \in I : \E i \in 1 .. n : at[i] = x
  BY <1>2, OrderedSet
<1>4. \A i \in DOMAIN rows : Level[rows[i].kind] \in 0 .. 4
  <2>1. \A i \in DOMAIN rows : rows[i] \in Row
    OBVIOUS
  <2>2. QED
    BY <2>1, DetectorAssumption DEF Row
<1> DEFINE all(s) == {Level[rows[i].kind] : i \in RowsIn(rows, s)}
           some(s) == {Level[few[i].kind] : i \in RowsIn(few, s)}
<1>5. ASSUME NEW s
      PROVE  all(s) \in SUBSET (0 .. 4)
  BY <1>4 DEF RowsIn
<1>6. ASSUME NEW s
      PROVE  some(s) \subseteq all(s)
  <2> SUFFICES ASSUME NEW i \in RowsIn(few, s) PROVE Level[few[i].kind] \in all(s)
    OBVIOUS
  <2>1. i \in 1 .. n /\ few[i].session = s
    BY <1>2 DEF RowsIn
  <2> HIDE DEF I, at, few, n
  <2>2. at[i] \in RowsIn(rows, s) /\ few[i] = rows[at[i]]
    BY <1>1, <1>2, <2>1 DEF RowsIn
  <2>3. QED
    BY <2>2
<1>7. ASSUME NEW s, all(s) # {}
      PROVE  Max(all(s)) \in some(s)
  <2>1. Max(all(s)) \in all(s) /\ \A l \in all(s) : l <= Max(all(s))
    <3> HIDE DEF all
    <3>1. QED
      BY <1>5, <1>7, HighestLevel
  <2>2. PICK i \in RowsIn(rows, s) : Level[rows[i].kind] = Max(all(s))
    BY <2>1
  <2>3. i \in DOMAIN rows /\ rows[i].session = s
    BY DEF RowsIn
  <2>4. \A j \in RowsIn(rows, s) : Level[rows[j].kind] <= Level[rows[i].kind]
    BY <2>1, <2>2
  <2>5. i \in I
    BY <2>3, <2>4 DEF Rises
  <2>6. PICK k \in 1 .. n : at[k] = i
    BY <1>3, <2>5
  <2> HIDE DEF I, at, few, n
  <2>7. few[k] = rows[i] /\ k \in RowsIn(few, s)
    BY <1>2, <2>3, <2>6 DEF RowsIn
  <2>8. QED
    BY <2>2, <2>7
<1>8. ASSUME NEW s
      PROVE  SessionLevel(few, s) = SessionLevel(rows, s)
  <2>1. CASE all(s) = {}
    <3>1. some(s) = all(s)
      BY <1>6, <2>1
    <3>2. QED
      BY <3>1 DEF SessionLevel
  <2>2. CASE all(s) # {}
    <3>1. /\ all(s) \in SUBSET (0 .. 4) /\ some(s) \in SUBSET (0 .. 4)
          /\ Max(all(s)) \in some(s) /\ some(s) \subseteq all(s)
      BY <1>5, <1>6, <1>7, <2>2
    <3>2. SessionLevel(few, s) = Max(some(s)) /\ SessionLevel(rows, s) = Max(all(s))
      BY DEF SessionLevel
    <3> DEFINE A == all(s)
               B == some(s)
    <3> HIDE DEF all, some, A, B
    <3>3. A \in SUBSET (0 .. 4) /\ B \in SUBSET (0 .. 4) /\ Max(A) \in B /\ B \subseteq A
      BY <3>1 DEF A, B
    <3>4. Max(A) \in A /\ \A l \in A : l <= Max(A)
      BY <3>3, HighestLevel
    <3>5. Max(B) \in B /\ \A l \in B : l <= Max(B)
      BY <3>3, HighestLevel
    <3>6. Max(A) \in Int /\ Max(B) \in Int
      <4>1. Max(A) \in 0 .. 4 /\ Max(B) \in 0 .. 4
        BY <3>3, <3>5
      <4>2. QED
        BY <4>1
    <3>7. Max(A) = Max(B)
      BY <3>3, <3>4, <3>5, <3>6
    <3>8. QED
      BY <3>2, <3>7 DEF A, B
  <2>3. QED
    BY <2>1, <2>2
<1>9. SessionsOf(few) = SessionsOf(rows)
  <2>1. ASSUME NEW s
        PROVE  s \in SessionsOf(few) <=> some(s) # {}
    BY DEF SessionsOf, RowsIn
  <2>2. ASSUME NEW s
        PROVE  s \in SessionsOf(rows) <=> all(s) # {}
    BY DEF SessionsOf, RowsIn
  <2>3. ASSUME NEW s
        PROVE  some(s) # {} <=> all(s) # {}
    BY <1>6, <1>7
  <2> HIDE DEF all, some, few
  <2>4. QED
    BY <2>1, <2>2, <2>3
<1>10. QED
  BY <1>8, <1>9 DEF LevelSeries

LEMMA EscalationEvidence ==
  ASSUME NEW rows \in Seq(Row), EscalationDetect(rows).fired
  PROVE  EscalationDetect(Restriction(rows, EscalationDetect(rows).evidence)).fired
<1>1. EscalationDetect(rows).evidence = Rises(rows)
  BY DEF EscalationDetect, DetectorResult, Silent
<1>2. QED
  BY <1>1, RisesKeepLevels, VerdictOfLevels

-----------------------------------------------------------------------------
(* A sum may be taken from any member, and along any renaming of the       *)
(* members.                                                                *)
LEMMA SumFromAny ==
  ASSUME NEW S, IsFiniteSet(S), NEW f \in [S -> Nat], NEW s \in SUBSET S, NEW b \in s
  PROVE  Sums(f, S)[s] = f[b] + Sums(f, S)[s \ {b}]
<1> DEFINE sum == Sums(f, S)
           Wrong(t) == \E x \in t : sum[t] # f[x] + sum[t \ {x}]
           T == {n \in Nat : \E t \in SUBSET S : Cardinality(t) = n /\ Wrong(t)}
<1>1. \A t \in SUBSET S : sum[t] = AddUp(f, sum, t)
  BY SumsAddUp
<1>2. \A t \in SUBSET S : sum[t] \in Nat
  BY SumsAreNat
<1> HIDE DEF sum
<1>3. T = {}
  <2> SUFFICES ASSUME T # {} PROVE FALSE
    OBVIOUS
  <2>1. PICK n \in T : \A t \in T : n <= t
    <3> HIDE DEF T
    <3>1. T \subseteq Nat
      BY DEF T
    <3>2. QED
      BY <3>1, LeastExists
  <2>2. PICK t \in SUBSET S : n \in Nat /\ Cardinality(t) = n /\ Wrong(t)
    OBVIOUS
  <2>3. PICK x \in t : sum[t] # f[x] + sum[t \ {x}]
    BY <2>2
  <2> DEFINE c == AnyOf(t)
  <2>4. IsFiniteSet(t) /\ c \in t
    BY FS_Subset DEF AnyOf
  <2> HIDE DEF c
  <2>5. sum[t] = f[c] + sum[t \ {c}]
    BY <1>1, <2>4 DEF AddUp, c
  <2>6. c # x
    BY <2>3, <2>5
  <2>7. ASSUME NEW y \in t
        PROVE  ~Wrong(t \ {y})
    <3>1. t \ {y} \in SUBSET S /\ Cardinality(t \ {y}) = n - 1 /\ Cardinality(t \ {y}) \in Nat
      BY <2>2, <2>4, FS_RemoveElement, FS_Subset, FS_CardinalityType
    <3>2. n - 1 \notin T
      <4> HIDE DEF T
      <4>1. ~(n <= n - 1)
        BY <2>2
      <4>2. QED
        BY <2>1, <4>1
    <3> HIDE DEF Wrong
    <3>3. QED
      BY <3>1, <3>2
  <2>8. x \in t \ {c} /\ c \in t \ {x}
    BY <2>4, <2>6
  <2>9. sum[t \ {c}] = f[x] + sum[(t \ {c}) \ {x}]
    BY <2>4, <2>7, <2>8
  <2>10. sum[t \ {x}] = f[c] + sum[(t \ {x}) \ {c}]
    BY <2>4, <2>7, <2>8
  <2>11. (t \ {c}) \ {x} = (t \ {x}) \ {c}
    OBVIOUS
  <2>12. f[x] \in Nat /\ f[c] \in Nat /\ sum[(t \ {x}) \ {c}] \in Nat
    BY <1>2, <2>4
  <2>13. PICK p \in Nat : p = sum[(t \ {x}) \ {c}]
    BY <2>12
  <2>14. sum[t \ {c}] = f[x] + p /\ sum[t \ {x}] = f[c] + p
    BY <2>9, <2>10, <2>11, <2>13
  <2>15. f[c] + (f[x] + p) = f[x] + (f[c] + p)
    BY <2>12
  <2>16. sum[t] = f[x] + sum[t \ {x}]
    BY <2>5, <2>14, <2>15
  <2>17. QED
    BY <2>3, <2>16
<1>4. IsFiniteSet(s) /\ Cardinality(s) \in Nat
  BY FS_Subset, FS_CardinalityType
<1>5. QED
  BY <1>3, <1>4 DEF sum

LEMMA SumRenamed ==
  ASSUME NEW S, IsFiniteSet(S), NEW R, IsFiniteSet(R), NEW h \in Bijection(S, R),
         NEW f \in [R -> Nat], NEW g \in [S -> Nat], \A x \in S : g[x] = f[h[x]]
  PROVE  SumFunction(g) = SumFunction(f)
<1> DEFINE image(s) == {h[x] : x \in s}
           Wrong(s) == Sums(g, S)[s] # Sums(f, R)[image(s)]
           T == {n \in Nat : \E s \in SUBSET S : Cardinality(s) = n /\ Wrong(s)}
<1>1. /\ \A x \in S : h[x] \in R
      /\ \A x, y \in S : h[x] = h[y] => x = y
      /\ \A r \in R : \E x \in S : h[x] = r
  BY DEF Bijection, Injection, Surjection, IsInjective
<1>2. /\ \A s \in SUBSET S : Sums(g, S)[s] = AddUp(g, Sums(g, S), s)
      /\ \A s \in SUBSET R : Sums(f, R)[s] = AddUp(f, Sums(f, R), s)
      /\ SumFunction(g) = Sums(g, S)[S] /\ SumFunction(f) = Sums(f, R)[R]
  <2>1. DOMAIN g = S /\ DOMAIN f = R
    OBVIOUS
  <2>2. \A s \in SUBSET S : Sums(g, S)[s] = AddUp(g, Sums(g, S), s)
    BY SumsAddUp
  <2>3. \A s \in SUBSET R : Sums(f, R)[s] = AddUp(f, Sums(f, R), s)
    BY SumsAddUp
  <2>4. SumFunction(g) = Sums(g, S)[S]
    BY <2>1, SumsAddUp
  <2>5. SumFunction(f) = Sums(f, R)[R]
    BY <2>1, SumsAddUp
  <2>6. QED
    BY <2>2, <2>3, <2>4, <2>5
<1>3. T = {}
  <2> SUFFICES ASSUME T # {} PROVE FALSE
    OBVIOUS
  <2>1. PICK n \in T : \A t \in T : n <= t
    <3> HIDE DEF T
    <3>1. T \subseteq Nat
      BY DEF T
    <3>2. QED
      BY <3>1, LeastExists
  <2>2. PICK s \in SUBSET S : n \in Nat /\ Cardinality(s) = n /\ Wrong(s)
    OBVIOUS
  <2>3. s # {}
    <3>1. image({}) = {}
      OBVIOUS
    <3>2. Sums(g, S)[{}] = 0 /\ Sums(f, R)[{}] = 0
      <4>1. {} \in SUBSET S /\ {} \in SUBSET R
        OBVIOUS
      <4>2. Sums(g, S)[{}] = AddUp(g, Sums(g, S), {}) /\ Sums(f, R)[{}] = AddUp(f, Sums(f, R), {})
        BY <1>2, <4>1
      <4>3. QED
        BY <4>2 DEF AddUp
    <3>3. QED
      BY <2>2, <3>1, <3>2
  <2>4. PICK a \in s : TRUE
    BY <2>3
  <2>5. Sums(g, S)[s] = g[a] + Sums(g, S)[s \ {a}]
    BY SumFromAny
  <2>6. image(s) \in SUBSET R /\ h[a] \in image(s) /\ image(s) \ {h[a]} = image(s \ {a})
    BY <1>1
  <2>7. Sums(f, R)[image(s)] = f[h[a]] + Sums(f, R)[image(s) \ {h[a]}]
    <3> HIDE DEF image
    <3>1. QED
      BY <2>6, SumFromAny
  <2>8. ~Wrong(s \ {a})
    <3>1. IsFiniteSet(s)
      BY FS_Subset
    <3>2. s \ {a} \in SUBSET S /\ Cardinality(s \ {a}) = n - 1 /\ Cardinality(s \ {a}) \in Nat
      BY <2>2, <3>1, FS_RemoveElement, FS_Subset, FS_CardinalityType
    <3>3. n - 1 \notin T
      <4> HIDE DEF T
      <4>1. ~(n <= n - 1)
        BY <2>2
      <4>2. QED
        BY <2>1, <4>1
    <3> HIDE DEF Wrong
    <3>4. QED
      BY <3>2, <3>3
  <2>9. g[a] = f[h[a]]
    OBVIOUS
  <2> HIDE DEF image
  <2>10. QED
    BY <2>2, <2>5, <2>6, <2>7, <2>8, <2>9
<1>4. S \in SUBSET S /\ Cardinality(S) \in Nat
  BY FS_CardinalityType
<1>5. image(S) = R
  BY <1>1
<1>6. ~Wrong(S)
  <2> HIDE DEF Wrong
  <2>1. QED
    BY <1>3, <1>4
<1>7. QED
  BY <1>2, <1>5, <1>6

-----------------------------------------------------------------------------
(* The rows at I alone are as similar to each other as they were among the *)
(* others.                                                                 *)
LEMMA PairsRenamed ==
  ASSUME NEW I \in SUBSET Nat, IsFiniteSet(I), NEW n, n = Cardinality(I)
  PROVE  LET at == InOrder(I)
             before == {p \in I \X I : p[1] < p[2]}
             after == {p \in (1 .. n) \X (1 .. n) : p[1] < p[2]}
         IN  [p \in after |-> <<at[p[1]], at[p[2]]>>] \in Bijection(after, before)
<1> DEFINE at == InOrder(I)
           before == {p \in I \X I : p[1] < p[2]}
           after == {p \in (1 .. n) \X (1 .. n) : p[1] < p[2]}
           h == [p \in after |-> <<at[p[1]], at[p[2]]>>]
<1>1. /\ n \in Nat /\ at \in [1 .. n -> I]
      /\ \A x \in I : \E i \in 1 .. n : at[i] = x
      /\ \A i, j \in 1 .. n : i < j => at[i] < at[j]
  BY OrderedSet
<1> HIDE DEF at
<1>2. \A i, j \in 1 .. n : at[i] < at[j] => i < j
  <2> SUFFICES ASSUME NEW i \in 1 .. n, NEW j \in 1 .. n, at[i] < at[j] PROVE i < j
    OBVIOUS
  <2>1. at[i] \in Nat /\ at[j] \in Nat /\ i \in Nat /\ j \in Nat
    <3>1. at[i] \in I /\ at[j] \in I
      BY <1>1
    <3>2. \A x \in I : x \in Nat
      OBVIOUS
    <3>3. i \in Nat /\ j \in Nat
      BY <1>1
    <3>4. QED
      BY <3>1, <3>2, <3>3
  <2>2. CASE i = j
    BY <2>1, <2>2
  <2>3. CASE j < i
    <3>1. at[j] < at[i]
      BY <1>1, <2>3
    <3>2. QED
      BY <2>1, <3>1
  <2>4. QED
    BY <2>1, <2>2, <2>3
<1>3. \A i, j \in 1 .. n : at[i] = at[j] => i = j
  <2> SUFFICES ASSUME NEW i \in 1 .. n, NEW j \in 1 .. n, at[i] = at[j] PROVE i = j
    OBVIOUS
  <2>1. at[i] \in Nat /\ at[j] \in Nat /\ i \in Nat /\ j \in Nat
    <3>1. at[i] \in I /\ at[j] \in I
      BY <1>1
    <3>2. \A x \in I : x \in Nat
      OBVIOUS
    <3>3. i \in Nat /\ j \in Nat
      BY <1>1
    <3>4. QED
      BY <3>1, <3>2, <3>3
  <2>2. ~(i < j)
    BY <1>1, <2>1
  <2>3. ~(j < i)
    BY <1>1, <2>1
  <2>4. QED
    BY <2>1, <2>2, <2>3
<1>4. ASSUME NEW p \in after
      PROVE  h[p] \in before
  BY <1>1
<1>5. ASSUME NEW p \in after, NEW q \in after, h[p] = h[q]
      PROVE  p = q
  <2>1. PICK i, j, k, l \in 1 .. n : p = <<i, j>> /\ q = <<k, l>>
    OBVIOUS
  <2>2. at[i] = at[k] /\ at[j] = at[l]
    BY <1>5, <2>1
  <2>3. QED
    BY <1>3, <2>1, <2>2
<1>6. ASSUME NEW r \in before
      PROVE  \E p \in after : h[p] = r
  <2>0. r \in I \X I /\ r[1] < r[2]
    OBVIOUS
  <2> HIDE DEF before
  <2>1. PICK x \in I, y \in I : r = <<x, y>> /\ x < y
    <3>1. r = <<r[1], r[2]>> /\ r[1] \in I /\ r[2] \in I
      BY <2>0
    <3>2. QED
      BY <2>0, <3>1
  <2>2. PICK i, j \in 1 .. n : at[i] = x /\ at[j] = y
    BY <1>1
  <2>3. i < j
    BY <1>2, <2>1, <2>2
  <2>4. <<i, j>> \in after /\ h[<<i, j>>] = r
    BY <2>1, <2>2, <2>3
  <2>5. QED
    BY <2>4
<1>7. h \in [after -> before]
  BY <1>4
<1> HIDE DEF h, after, before
<1>8. h \in Bijection(after, before)
  BY <1>5, <1>6, <1>7 DEF Bijection, Injection, Surjection, IsInjective
<1>9. QED
  BY <1>8 DEF h, after, before, at

LEMMA MeanIsKept ==
  ASSUME NEW rows \in Seq(Row), NEW I, I \subseteq DOMAIN rows
  PROVE  MeanPairwiseCosineSimilarity(Restriction(rows, I), 1 .. Cardinality(I)) =
           MeanPairwiseCosineSimilarity(rows, I)
<1> DEFINE few == Restriction(rows, I)
           n == Cardinality(I)
           at == InOrder(I)
           before == {p \in I \X I : p[1] < p[2]}
           after == {p \in (1 .. n) \X (1 .. n) : p[1] < p[2]}
           h == [p \in after |-> <<at[p[1]], at[p[2]]>>]
           f == [p \in before |-> Similarity[rows[p[1]].kind][rows[p[2]].kind]]
           g == [p \in after |-> Similarity[few[p[1]].kind][few[p[2]].kind]]
<1>1. /\ n \in Nat /\ IsFiniteSet(I) /\ I \in SUBSET Nat
      /\ few \in Seq(Row) /\ DOMAIN few = 1 .. n /\ at \in [1 .. n -> I]
      /\ \A i \in 1 .. n : few[i] = rows[at[i]]
  BY Restricted
<1>2. h \in Bijection(after, before)
  BY <1>1, PairsRenamed
<1>3. IsFiniteSet(before) /\ IsFiniteSet(after)
  <2>1. IsFiniteSet(1 .. n)
    <3> HIDE DEF n
    <3>1. QED
      BY <1>1, FS_Interval
  <2>2. IsFiniteSet(I \X I) /\ IsFiniteSet((1 .. n) \X (1 .. n))
    BY <1>1, <2>1, FS_Product
  <2>3. before \in SUBSET (I \X I) /\ after \in SUBSET ((1 .. n) \X (1 .. n))
    OBVIOUS
  <2> HIDE DEF before, after
  <2>4. QED
    BY <2>2, <2>3, FS_Subset
<1>4. Cardinality(after) = Cardinality(before)
  <2> HIDE DEF h, before, after
  <2>1. ExistsBijection(after, before)
    BY <1>2 DEF ExistsBijection
  <2>2. QED
    BY <1>3, <2>1, FS_Bijection
<1>5. after = {} <=> before = {}
  <2> HIDE DEF h, before, after
  <2>1. QED
    BY <1>3, <1>4, FS_EmptySet
<1>6. f \in [before -> Nat]
  <2>1. \A p \in before : p[1] \in DOMAIN rows /\ p[2] \in DOMAIN rows
    OBVIOUS
  <2>2. QED
    BY <2>1, SimilarityOfRows
<1>7. g \in [after -> Nat]
  <2>1. \A p \in after : p[1] \in DOMAIN few /\ p[2] \in DOMAIN few
    BY <1>1
  <2> HIDE DEF few
  <2>2. QED
    BY <1>1, <2>1, SimilarityOfRows
<1>8. \A p \in after : g[p] = f[h[p]]
  <2> SUFFICES ASSUME NEW p \in after PROVE g[p] = f[h[p]]
    OBVIOUS
  <2>1. PICK i, j \in 1 .. n : p = <<i, j>>
    OBVIOUS
  <2>2. h[p] = <<at[i], at[j]>>
    BY <2>1
  <2>3. h[p] \in before
    <3> HIDE DEF h, after, before
    <3>1. QED
      BY <1>2 DEF Bijection, Injection
  <2>4. few[i] = rows[at[i]] /\ few[j] = rows[at[j]]
    BY <1>1
  <2> HIDE DEF few, at, h
  <2>5. f[h[p]] = Similarity[rows[at[i]].kind][rows[at[j]].kind]
    BY <2>2, <2>3
  <2>6. g[p] = Similarity[few[i].kind][few[j].kind]
    BY <2>1
  <2>7. QED
    BY <2>4, <2>5, <2>6
<1>9. SumFunction(g) = SumFunction(f)
  <2> HIDE DEF f, g, h, before, after
  <2>1. QED
    BY <1>2, <1>3, <1>6, <1>7, <1>8, SumRenamed
<1>10. I # {} <=> 1 .. n # {}
  <2>1. I = {} <=> n = 0
    BY <1>1, FS_EmptySet
  <2>2. 1 .. n = {} <=> n = 0
    BY <1>1
  <2>3. QED
    BY <2>1, <2>2
<1>11. /\ MeanPairwiseCosineSimilarity(rows, I) =
            IF before # {} THEN SumFunction(f) \div Cardinality(before)
            ELSE IF I # {} THEN Unit ELSE 0
       /\ MeanPairwiseCosineSimilarity(few, 1 .. n) =
            IF after # {} THEN SumFunction(g) \div Cardinality(after)
            ELSE IF 1 .. n # {} THEN Unit ELSE 0
  BY DEF MeanPairwiseCosineSimilarity
<1> HIDE DEF f, g, before, after, few, n
<1>12. MeanPairwiseCosineSimilarity(few, 1 .. n) = MeanPairwiseCosineSimilarity(rows, I)
  BY <1>4, <1>5, <1>9, <1>10, <1>11
<1>13. QED
  BY <1>12 DEF few, n

-----------------------------------------------------------------------------
(* The largest group of a window, alone, is the largest group.             *)
LEMMA LargestGroupIsOne ==
  ASSUME NEW rows \in Seq(Row), rows # <<>>
  PROVE  /\ LargestGroup(rows) \in Groups(rows)
         /\ LargestGroup(rows) \subseteq DOMAIN rows /\ LargestGroup(rows) # {}
<1>1. Len(rows) \in Nat /\ DOMAIN rows = 1 .. Len(rows) /\ Len(rows) # 0
  OBVIOUS
<1>2. DOMAIN rows \in SUBSET Nat /\ IsFiniteSet(DOMAIN rows) /\ 1 \in DOMAIN rows
  BY <1>1, FS_Interval
<1>3. Groups(rows) \subseteq (SUBSET DOMAIN rows) \ {{}} /\ Groups(rows) # {}
  <2>1. \A i \in DOMAIN rows : /\ Group(rows, Template[rows[i].kind]) \subseteq DOMAIN rows
                               /\ i \in Group(rows, Template[rows[i].kind])
    BY DEF Group
  <2>2. \A H \in Groups(rows) : H \subseteq DOMAIN rows /\ H # {}
    BY <2>1 DEF Groups
  <2>3. Groups(rows) # {}
    BY <1>2 DEF Groups
  <2>4. QED
    BY <2>2, <2>3
<1>4. LargestGroup(rows) = LargestCluster(Groups(rows))
  BY DEF LargestGroup, LargestCluster
<1>5. LargestCluster(Groups(rows)) \in Groups(rows)
  BY <1>2, <1>3, LargestIsOne
<1>6. QED
  BY <1>3, <1>4, <1>5

LEMMA GroupAlone ==
  ASSUME NEW rows \in Seq(Row), rows # <<>>
  PROVE  LET G == LargestGroup(rows)
             few == Restriction(rows, G)
         IN  few # <<>> /\ LargestGroup(few) = 1 .. Cardinality(G)
<1> DEFINE G == LargestGroup(rows)
           few == Restriction(rows, G)
           n == Cardinality(G)
<1>1. G \in Groups(rows) /\ G \subseteq DOMAIN rows /\ G # {}
  BY LargestGroupIsOne
<1>2. /\ n \in Nat /\ IsFiniteSet(G) /\ few \in Seq(Row) /\ Len(few) = n
      /\ DOMAIN few = 1 .. n /\ InOrder(G) \in [1 .. n -> G]
      /\ \A i \in 1 .. n : few[i] = rows[InOrder(G)[i]]
  BY <1>1, Restricted
<1>3. n # 0
  BY <1>1, <1>2, FS_EmptySet
<1>4. PICK t : \A i \in G : Template[rows[i].kind] = t
  BY <1>1 DEF Groups, Group
<1> HIDE DEF G, few, n
<1>5. \A i \in 1 .. n : Template[few[i].kind] = t
  BY <1>2, <1>4
<1>6. few # <<>>
  BY <1>2, <1>3
<1>7. Groups(few) = {1 .. n}
  <2>1. \A i \in 1 .. n : Group(few, Template[few[i].kind]) = 1 .. n
    BY <1>2, <1>5 DEF Group
  <2>2. 1 \in 1 .. n
    BY <1>2, <1>3
  <2>3. QED
    BY <1>2, <2>1, <2>2 DEF Groups
<1>8. LargestGroup(few) = 1 .. n
  BY <1>2, <1>6, <1>7, LargestGroupIsOne
<1>9. QED
  BY <1>6, <1>8 DEF G, few, n

(* What makes the group G of a window a systematic enumeration.            *)
Systematic(rows, G) ==
  LET ordered == SlotValues(rows, G) IN
  /\ Cardinality(G) >= Config.enumeration_min_group_size
  /\ Percent(Cardinality(G), Len(rows)) >= Config.enumeration_min_dominance
  /\ Regularity(ordered) >= Config.enumeration_min_regularity
  /\ MeanPairwiseCosineSimilarity(rows, G) >= Config.enumeration_min_mean_sim
  /\ \/ Coverage(ordered) >= Config.enumeration_min_coverage
     \/ IsArithmeticProgression(ordered)

LEMMA EnumerationVerdict ==
  ASSUME NEW rows
  PROVE  /\ EnumerationDetect(<<>>).fired = FALSE
         /\ rows # <<>> => /\ EnumerationDetect(rows).fired = Systematic(rows, LargestGroup(rows))
                           /\ EnumerationDetect(rows).evidence = LargestGroup(rows)
BY Zenon DEF EnumerationDetect, DetectorResult, Silent, Systematic

LEMMA FullShare ==
  ASSUME NEW size \in Nat, NEW len \in Nat, size <= len, size # 0
  PROVE  /\ Percent(size, len) \in Int /\ Percent(size, len) <= 100
         /\ Percent(size, size) = 100
<1>1. 100 * size \in Nat /\ 100 * size <= 100 * len /\ len > 0 /\ size > 0
  OBVIOUS
<1>2. /\ (100 * size) \div len \in Nat /\ len * ((100 * size) \div len) <= 100 * size
      /\ (100 * size) \div size \in Nat /\ size * ((100 * size) \div size) <= 100 * size
      /\ 100 * size < size * ((100 * size) \div size) + size
  BY <1>1, Quotient
<1>3. ASSUME NEW m \in Nat, m > 0, NEW q \in Nat, m * q <= 100 * m
      PROVE  q <= 100
  BY <1>3, Z3
<1>4. (100 * size) \div len <= 100
  BY <1>1, <1>2, <1>3
<1>5. (100 * size) \div size = 100
  OBVIOUS
<1>6. QED
  BY <1>2, <1>4, <1>5 DEF Percent, Unit

LEMMA EnumerationEvidence ==
  ASSUME NEW rows \in Seq(Row), EnumerationDetect(rows).fired
  PROVE  EnumerationDetect(Restriction(rows, EnumerationDetect(rows).evidence)).fired
<1> DEFINE G == LargestGroup(rows)
           few == Restriction(rows, G)
           n == Cardinality(G)
<1>1. rows # <<>>
  BY EnumerationVerdict
<1>2. Systematic(rows, G) /\ EnumerationDetect(rows).evidence = G
  BY <1>1, EnumerationVerdict
<1>3. G \subseteq DOMAIN rows /\ G # {}
  BY <1>1, LargestGroupIsOne
<1>4. /\ n \in Nat /\ IsFiniteSet(G) /\ Len(few) = n /\ InOrder(G) \in [1 .. n -> G]
      /\ \A i \in 1 .. n : few[i] = rows[InOrder(G)[i]]
  BY <1>3, Restricted
<1>5. few # <<>> /\ LargestGroup(few) = 1 .. n
  BY <1>1, GroupAlone
<1>6. Cardinality(1 .. n) = n
  <2> HIDE DEF n
  <2>1. QED
    BY <1>4, FS_Interval
<1>7. MeanPairwiseCosineSimilarity(few, 1 .. n) = MeanPairwiseCosineSimilarity(rows, G)
  BY <1>3, MeanIsKept
<1>8. SlotValues(few, 1 .. n) = SlotValues(rows, G)
  <2> DEFINE before == [i \in DOMAIN InOrder(G) |-> Values[rows[InOrder(G)[i]].kind]]
             after == [i \in DOMAIN InOrder(1 .. n) |-> Values[few[InOrder(1 .. n)[i]].kind]]
  <2>1. InOrder(1 .. n) = [i \in 1 .. n |-> i]
    <3> HIDE DEF n
    <3>1. QED
      BY <1>4, OrderedInterval
  <2>2. DOMAIN InOrder(G) = 1 .. n
    BY <1>4
  <2>3. after = before
    <3> HIDE DEF n, few, G
    <3>1. QED
      BY <1>4, <2>1, <2>2
  <2> HIDE DEF before, after
  <2>4. QED
    BY <2>3 DEF SlotValues, before, after
<1>9. Percent(n, Len(few)) >= Config.enumeration_min_dominance
  <2>1. Len(rows) \in Nat /\ DOMAIN rows = 1 .. Len(rows)
    OBVIOUS
  <2>2. n <= Len(rows)
    <3>1. IsFiniteSet(1 .. Len(rows)) /\ Cardinality(1 .. Len(rows)) = Len(rows)
      BY <2>1, FS_Interval
    <3>2. QED
      BY <1>3, <2>1, <3>1, FS_Subset
  <2>3. n # 0
    BY <1>3, <1>4, FS_EmptySet
  <2> HIDE DEF n
  <2>4. Percent(n, Len(rows)) \in Int /\ Percent(n, Len(rows)) <= 100 /\ Percent(n, n) = 100
    BY <1>4, <2>1, <2>2, <2>3, FullShare
  <2>5. Percent(n, Len(rows)) >= Config.enumeration_min_dominance
    BY <1>2 DEF Systematic, n
  <2>6. QED
    BY <1>4, <2>4, <2>5, EnumerationAssumption
<1>10. Systematic(few, 1 .. n)
  <2> HIDE DEF few, n, G
  <2>1. n = Cardinality(G)
    BY DEF n
  <2>2. QED
    BY <1>2, <1>6, <1>7, <1>8, <1>9, <2>1 DEF Systematic
<1>11. EnumerationDetect(few).fired
  BY <1>5, <1>10, EnumerationVerdict
<1>12. QED
  BY <1>2, <1>11

(* The contributing interactions of an escalation or enumeration pattern,  *)
(* without the rest of the window, make the detector fire again: an        *)
(* analyst who opens them sees the pattern, for any window and settings.   *)
THEOREM EvidenceSuffices == Spec => []EvidenceStandsAlone
<1>1. WindowOK => EvidenceStandsAlone
  <2> SUFFICES ASSUME WindowOK, NEW t \in Fired(Results(window)) \ {"probing"}
               PROVE  Results(Restriction(window, Results(window)[t].evidence))[t].fired
    BY DEF EvidenceStandsAlone
  <2>1. PICK rows \in Seq(Row) : rows = window
    BY DEF WindowOK
  <2>2. t \in {"escalation", "enumeration"} /\ Results(rows)[t].fired
    BY <2>1 DEF Fired, Techniques
  <2>3. ASSUME NEW more
        PROVE  /\ Results(more)["escalation"] = EscalationDetect(more)
               /\ Results(more)["enumeration"] = EnumerationDetect(more)
    BY DEF Results, Techniques
  <2>4. CASE t = "escalation"
    BY <2>1, <2>2, <2>3, <2>4, EscalationEvidence
  <2>5. CASE t = "enumeration"
    BY <2>1, <2>2, <2>3, <2>5, EnumerationEvidence
  <2>6. QED
    BY <2>2, <2>4, <2>5
<1>2. QED
  BY <1>1, WindowAlways, PTL

-----------------------------------------------------------------------------
(* What the weights and the dampener make of terms that are fractions.     *)
LEMMA IntQuotient ==
  ASSUME NEW a \in Int, NEW n \in Nat, n > 0
  PROVE  /\ a \div n \in Int
         /\ n * (a \div n) <= a
         /\ a < n * (a \div n) + n
BY Z3

LEMMA QuotientGrows ==
  ASSUME NEW a \in Int, NEW b \in Int, a <= b, NEW n \in Nat, n > 0
  PROVE  a \div n <= b \div n /\ a \div n \in Int /\ b \div n \in Int
<1>1. PICK p \in Int : p = a \div n /\ n * p <= a
  BY IntQuotient
<1>2. PICK q \in Int : q = b \div n /\ b < n * q + n
  BY IntQuotient
<1>3. ASSUME p >= q + 1 PROVE FALSE
  <2>1. n * p >= n * (q + 1)
    BY <1>3
  <2>2. n * (q + 1) = n * q + n
    OBVIOUS
  <2>3. n * p \in Int /\ n * q \in Int
    OBVIOUS
  <2>4. QED
    BY <1>1, <1>2, <2>1, <2>2, <2>3
<1>4. p <= q
  BY <1>3
<1>5. QED
  BY <1>1, <1>2, <1>4

(* A signal, or a term of one, in hundredths.                              *)
Fraction == 0 .. 100

LEMMA FractionIsInt == \A f \in Fraction : f \in Int
BY DEF Fraction

LEMMA CappedShare ==
  ASSUME NEW a \in Int, NEW b \in Nat, a <= b, NEW n \in Nat, n > 0
  PROVE  /\ AtMost(Unit, Percent(b, n)) \in Fraction
         /\ AtMost(Unit, Percent(a, n)) \in Int
         /\ AtMost(Unit, Percent(a, n)) <= AtMost(Unit, Percent(b, n))
<1>1. 100 * a \in Int /\ 100 * b \in Nat /\ 100 * b \in Int /\ 100 * a <= 100 * b
  OBVIOUS
<1>2. PICK p \in Int, q \in Int : p = (100 * a) \div n /\ q = (100 * b) \div n /\ p <= q
  BY <1>1, QuotientGrows
<1>3. q \in Nat
  BY <1>1, <1>2, Quotient
<1>4. QED
  BY <1>2, <1>3 DEF AtMost, Percent, Unit, Fraction

LEMMA ClampGrows ==
  ASSUME NEW v \in Int
  PROVE  /\ Clamp(v) \in Fraction
         /\ \A w \in Int : w <= v => Clamp(w) <= Clamp(v) /\ Clamp(w) \in Fraction
BY DEF Clamp, AtMost, Unit, Fraction

LEMMA WeightedFractions ==
  ASSUME NEW r \in Fraction, NEW s \in Fraction, NEW t \in Fraction
  PROVE  /\ Weighted(50, r, 20, s, 30, t) \in Fraction
         /\ Weighted(50, r, 30, s, 20, t) \in Fraction
         /\ Weighted(40, r, 30, s, 30, t) \in Fraction
BY DEF Weighted, Unit, Fraction

LEMMA WeightedGrows ==
  ASSUME NEW a \in Int, NEW b \in Int, NEW c \in Int,
         NEW r \in Int, NEW s \in Int, NEW t \in Int, a <= r, b <= s, c <= t
  PROVE  /\ Weighted(50, a, 20, b, 30, c) <= Weighted(50, r, 20, s, 30, t)
         /\ Weighted(50, a, 30, b, 20, c) <= Weighted(50, r, 30, s, 20, t)
         /\ Weighted(40, a, 30, b, 30, c) <= Weighted(40, r, 30, s, 30, t)
         /\ Weighted(50, a, 20, b, 30, c) \in Int
         /\ Weighted(50, a, 30, b, 20, c) \in Int
         /\ Weighted(40, a, 30, b, 30, c) \in Int
BY DEF Weighted, Unit

LEMMA FractionsWeigh ==
  ASSUME NEW a \in Int, NEW c \in Int,
         NEW r \in Fraction, NEW s \in Fraction, NEW t \in Fraction, a <= r, c <= t
  PROVE  /\ Weighted(50, a, 20, 0, 30, c) <= Weighted(50, r, 20, s, 30, t)
         /\ Weighted(50, a, 20, 0, 30, c) \in Int /\ Weighted(50, r, 20, s, 30, t) \in Int
<1>1. r \in Int /\ s \in Int /\ t \in Int /\ 0 \in Int /\ 0 <= s
  BY DEF Fraction
<1>2. /\ Weighted(50, a, 20, 0, 30, c) <= Weighted(50, r, 20, s, 30, t)
      /\ Weighted(50, a, 20, 0, 30, c) \in Int
  BY <1>1, WeightedGrows
<1>3. Weighted(50, r, 20, s, 30, t) \in Int
  BY <1>1 DEF Weighted, Unit
<1>4. QED
  BY <1>2, <1>3

(* What a full raw signal leaves when the detector does not fire.          *)
Dampest == 30

LEMMA GateSeparates ==
  ASSUME NEW raw \in Fraction, NEW f
  PROVE  /\ GatedSignal(raw, f) \in Fraction
         /\ f => GatedSignal(raw, f) = raw
         /\ ~f => GatedSignal(raw, f) <= Dampest
<1>1. (30 * raw) \div 100 \in 0 .. 30
  BY DEF Fraction
<1>2. CASE f
  BY <1>2 DEF GatedSignal
<1>3. CASE ~f
  BY <1>1, <1>3 DEF GatedSignal, Unit, Fraction, Dampest
<1>4. QED
  BY <1>2, <1>3

-----------------------------------------------------------------------------
(* A part of the rows, as a share of them.                                 *)
LEMMA PartOfRows ==
  ASSUME NEW rows \in Seq(Row), NEW I, I \subseteq DOMAIN rows
  PROVE  /\ Cardinality(I) \in Nat /\ IsFiniteSet(I)
         /\ Cardinality(I) <= Len(rows) /\ Len(rows) \in Nat
<1>1. PICK n \in Nat : n = Len(rows) /\ DOMAIN rows = 1 .. n
  OBVIOUS
<1>2. IsFiniteSet(1 .. n) /\ Cardinality(1 .. n) = n
  BY FS_Interval
<1>3. QED
  BY <1>1, <1>2, FS_Subset, FS_CardinalityType

LEMMA ShareOfMany ==
  ASSUME NEW m \in Nat, m # 0, NEW I \in SUBSET (1 .. m)
  PROVE  Percent(Cardinality(I), m) \in Fraction
<1>1. IsFiniteSet(1 .. m) /\ Cardinality(1 .. m) = m
  BY FS_Interval
<1>2. PICK size \in Nat : size = Cardinality(I) /\ size <= m
  <2>1. Cardinality(I) \in Nat /\ Cardinality(I) <= m
    BY <1>1, FS_Subset, FS_CardinalityType
  <2>2. QED
    BY <2>1
<1>3. CASE size # 0
  <2>1. Percent(size, m) \in Int /\ Percent(size, m) <= 100
    BY <1>2, <1>3, FullShare
  <2>2. m > 0 /\ 100 * size \in Nat
    OBVIOUS
  <2>3. (100 * size) \div m \in Nat
    BY <2>2, Quotient
  <2>4. PICK p \in Nat : p = Percent(size, m)
    BY <2>3 DEF Percent, Unit
  <2>5. p \in Fraction
    BY <2>1, <2>4 DEF Fraction
  <2>6. QED
    BY <1>2, <2>4, <2>5
<1>4. CASE size = 0
  <2>1. m > 0
    OBVIOUS
  <2>2. 0 \div m = 0
    BY <2>1, Z3
  <2>3. Percent(size, m) = 0
    BY <1>4, <2>2 DEF Percent, Unit
  <2>4. QED
    BY <1>2, <2>3 DEF Fraction
<1>5. QED
  BY <1>3, <1>4

LEMMA ShareOfRows ==
  ASSUME NEW rows \in Seq(Row), rows # <<>>, NEW I, I \subseteq DOMAIN rows
  PROVE  /\ Cardinality(I) \in Nat
         /\ Percent(Cardinality(I), Len(rows)) \in Fraction
<1>1. PICK n \in Nat : n = Len(rows) /\ n # 0 /\ I \in SUBSET (1 .. n)
  OBVIOUS
<1>2. QED
  BY <1>1, PartOfRows, ShareOfMany

(* What makes the largest cluster C of a window probing.                   *)
ProbingFires(rows, C) ==
  Dense(rows, C) /\ BlockRate(rows) >= Config.probing_min_block_rate

LEMMA ProbingVerdict ==
  ASSUME NEW rows, rows # <<>>
  PROVE  LET K == Clusters(Neighbourhoods(rows)) IN
         /\ K = {} => /\ ProbingDetect(rows).fired = FALSE
                      /\ ProbingDetect(rows).evidence = {}
         /\ K # {} => /\ ProbingDetect(rows).fired = ProbingFires(rows, LargestCluster(K))
                      /\ ProbingDetect(rows).evidence = LargestCluster(K)
BY Zenon DEF ProbingDetect, DetectorResult, Dense, ProbingFires

(* The least signal of each detector that fires.                           *)
ProbingFloor ==
  Weighted(50, AtMost(Unit, Percent(Config.probing_min_cluster_size,
                                    Config.probing_cluster_saturation)),
           20, 0, 30, Config.probing_min_block_rate)

EscalationFloor ==
  Weighted(50, Clamp(Config.escalation_min_rho),
           30, Percent(Config.escalation_min_level_range, 4),
           20, Config.escalation_min_nondec_frac)

EnumerationFloor ==
  Weighted(40, AtMost(Unit, Percent(Config.enumeration_min_group_size,
                                    Config.enumeration_group_saturation)),
           30, Config.enumeration_min_regularity,
           30, Config.enumeration_min_dominance)

(* A result over the rows in order: its signal a fraction, dampened unless *)
(* it fired, and at least the floor if it did.                             *)
Graded(result, rows, floor) ==
  /\ result.signal \in Fraction
  /\ result.evidence \subseteq DOMAIN rows
  /\ result.fired => result.signal >= floor
  /\ ~result.fired => result.signal <= Dampest

LEMMA SilentIsGraded ==
  ASSUME NEW rows, NEW floor
  PROVE  Graded(Silent, rows, floor)
BY DEF Graded, Silent, DetectorResult, Fraction, Dampest

LEMMA ProbingIsGraded ==
  ASSUME NEW rows \in Seq(Row), rows # <<>>
  PROVE  Graded(ProbingDetect(rows), rows, ProbingFloor)
<1> DEFINE K == Clusters(Neighbourhoods(rows))
           C == LargestCluster(K)
           rate == BlockRate(rows)
<1>1. rate \in Fraction
  <2>1. BlockedRows(rows) \subseteq DOMAIN rows
    BY RowsBlocked
  <2>2. QED
    BY <2>1, ShareOfRows DEF BlockRate
<1>2. CASE K = {}
  <2> DEFINE raw == Weighted(0, 0, 0, 0, 30, rate)
  <2>1. ProbingDetect(rows).signal = GatedSignal(raw, FALSE)
    BY <1>2, ProbingSignal
  <2>2. ProbingDetect(rows).fired = FALSE /\ ProbingDetect(rows).evidence = {}
    BY <1>2, ProbingVerdict
  <2>3. raw \in Fraction
    <3> HIDE DEF rate
    <3>1. QED
      BY <1>1 DEF Weighted, Unit, Fraction
  <2> HIDE DEF raw
  <2>4. GatedSignal(raw, FALSE) \in Fraction /\ GatedSignal(raw, FALSE) <= Dampest
    BY <2>3, GateSeparates
  <2>5. QED
    BY <2>1, <2>2, <2>4 DEF Graded
<1>3. CASE K # {}
  <2> DEFINE raw == Weighted(50, SizeTerm(C), 20, SimTerm(rows, C), 30, rate)
             size == Cardinality(C)
             saturation == Config.probing_cluster_saturation
             least == Config.probing_min_cluster_size
             min == Config.probing_min_block_rate
  <2>1. C \subseteq DOMAIN rows
    BY <1>3, ClustersOfWindow
  <2>2. ProbingDetect(rows).signal = GatedSignal(raw, ProbingFires(rows, C))
    BY <1>3, ProbingSignal DEF ClusterSignal, ProbingFires
  <2>3. ProbingDetect(rows).fired = ProbingFires(rows, C)
        /\ ProbingDetect(rows).evidence = C
    BY <1>3, ProbingVerdict
  <2>4. size \in Nat
    BY <2>1, ShareOfRows
  <2>5. least \in Int /\ min \in Int /\ saturation \in Nat /\ saturation > 0
    BY ProbingAssumption
  <2>6. SizeTerm(C) \in Fraction
    <3> HIDE DEF size, saturation
    <3>1. size \in Int /\ size <= size
      BY <2>4
    <3>2. AtMost(Unit, Percent(size, saturation)) \in Fraction
      BY <2>4, <2>5, <3>1, CappedShare
    <3>3. QED
      BY <3>2 DEF SizeTerm, size, saturation
  <2>7. SimTerm(rows, C) \in Fraction
    <3> DEFINE m == MeanPairwiseCosineSimilarity(rows, C)
               low == Config.probing_min_mean_sim
               high == Config.probing_sim_term_high
    <3>1. m \in Int /\ low \in Int /\ high \in Int /\ low < high
      BY <2>1, MeanOfRows, ProbingAssumption
    <3> HIDE DEF m, low, high
    <3>2. 100 * (m - low) \in Int /\ high - low \in Nat /\ high - low > 0
      BY <3>1
    <3>3. (100 * (m - low)) \div (high - low) \in Int
      BY <3>2, IntQuotient
    <3>4. Clamp((100 * (m - low)) \div (high - low)) \in Fraction
      BY <3>3, ClampGrows
    <3>5. QED
      BY <3>4 DEF SimTerm, Percent, Unit, m, low, high
  <2>8. raw \in Fraction
    <3> HIDE DEF rate, C
    <3>1. QED
      BY <1>1, <2>6, <2>7, WeightedFractions
  <2>9. ProbingFires(rows, C) => raw >= ProbingFloor
    <3> SUFFICES ASSUME ProbingFires(rows, C) PROVE raw >= ProbingFloor
      OBVIOUS
    <3>1. size >= least /\ rate >= min
      BY DEF ProbingFires, Dense
    <3>2. PICK a \in Int, r \in Fraction, s \in Fraction, t \in Fraction, c \in Int :
            /\ a = AtMost(Unit, Percent(least, saturation)) /\ r = SizeTerm(C)
            /\ s = SimTerm(rows, C) /\ t = rate /\ c = min /\ a <= r
      <4>1. least <= size
        BY <2>4, <2>5, <3>1
      <4> HIDE DEF least, size, saturation, min, rate
      <4>2. /\ AtMost(Unit, Percent(least, saturation)) \in Int
            /\ AtMost(Unit, Percent(least, saturation)) <= AtMost(Unit, Percent(size, saturation))
        BY <2>4, <2>5, <4>1, CappedShare
      <4>3. AtMost(Unit, Percent(size, saturation)) = SizeTerm(C)
        BY DEF SizeTerm, size, saturation
      <4>4. QED
        BY <1>1, <2>5, <2>6, <2>7, <4>2, <4>3
    <3>3. c <= t
      BY <3>1, <3>2
    <3>4. Weighted(50, a, 20, 0, 30, c) <= Weighted(50, r, 20, s, 30, t)
          /\ Weighted(50, a, 20, 0, 30, c) \in Int /\ Weighted(50, r, 20, s, 30, t) \in Int
      <4> HIDE DEF rate, min
      <4>1. QED
        BY <3>2, <3>3, FractionsWeigh
    <3>5. ProbingFloor = Weighted(50, a, 20, 0, 30, c) /\ raw = Weighted(50, r, 20, s, 30, t)
      BY <3>2 DEF ProbingFloor
    <3>6. QED
      BY <3>4, <3>5
  <2> HIDE DEF raw, C
  <2>10. PICK sig : sig = GatedSignal(raw, ProbingFires(rows, C))
    OBVIOUS
  <2>11. /\ sig \in Fraction
         /\ ProbingFires(rows, C) => sig = raw
         /\ ~ProbingFires(rows, C) => sig <= Dampest
    BY <2>8, <2>10, GateSeparates
  <2>12. QED
    BY <2>1, <2>2, <2>3, <2>9, <2>10, <2>11 DEF Graded
<1>4. QED
  BY <1>2, <1>3

-----------------------------------------------------------------------------
(* The slot values of the rows, one row after the other, are counted by    *)
(* the table of logarithms.                                                *)
Joined(seqs, f, i) == IF i = 1 THEN seqs[i] ELSE f[i - 1] \o seqs[i]

LEMMA JoinedExist ==
  ASSUME NEW seqs, NEW n \in Nat
  PROVE  \E f : f = [i \in 1 .. n |-> Joined(seqs, f, i)]
<1> DEFINE Sol(f, m) == f = [i \in 1 .. m |-> Joined(seqs, f, i)]
           T == {m \in Nat : ~\E f : Sol(f, m)}
<1>1. CASE T = {}
  BY <1>1
<1>2. CASE T # {}
  <2>1. PICK m \in T : \A t \in T : m <= t
    <3> HIDE DEF T
    <3>1. T \subseteq Nat
      BY DEF T
    <3>2. QED
      BY <1>2, <3>1, LeastExists
  <2>2. \A t \in Nat : t < m => t \notin T
    <3>1. m \in Nat
      OBVIOUS
    <3> HIDE DEF T
    <3>2. QED
      BY <2>1, <3>1
  <2>3. m \in Nat /\ ~\E f : Sol(f, m)
    OBVIOUS
  <2>4. CASE m = 0
    <3>1. Sol([i \in 1 .. 0 |-> <<>>], m)
      BY <2>4
    <3>2. QED
      BY <2>3, <3>1
  <2>5. CASE m # 0
    <3>1. m - 1 \in Nat /\ m - 1 < m
      BY <2>3, <2>5
    <3>2. PICK f : Sol(f, m - 1)
      BY <2>2, <3>1
    <3>3. PICK g : g = [i \in 1 .. m |-> IF i = m THEN Joined(seqs, f, m) ELSE f[i]]
      OBVIOUS
    <3>4. \A i \in 1 .. m - 1 : g[i] = f[i]
      BY <2>3, <3>3
    <3>5. \A i \in 1 .. m - 1 : f[i] = Joined(seqs, f, i)
      BY <3>2
    <3>6. \A i \in 1 .. m : g[i] = Joined(seqs, g, i)
      <4> SUFFICES ASSUME NEW i \in 1 .. m
                   PROVE  g[i] = Joined(seqs, g, i)
        OBVIOUS
      <4>1. i # 1 => Joined(seqs, g, i) = Joined(seqs, f, i)
        <5>1. i # 1 => i - 1 \in 1 .. m - 1
          BY <2>3
        <5>2. QED
          BY <3>4, <5>1 DEF Joined
      <4>2. i = 1 => Joined(seqs, g, i) = Joined(seqs, f, i)
        BY DEF Joined
      <4>3. g[i] = Joined(seqs, f, i)
        <5>1. CASE i = m
          BY <3>3, <5>1
        <5>2. CASE i # m
          <6>1. i \in 1 .. m - 1
            BY <2>3, <5>2
          <6>2. QED
            BY <3>4, <3>5, <6>1
        <5>3. QED
          BY <5>1, <5>2
      <4>4. QED
        BY <4>1, <4>2, <4>3
    <3>7. Sol(g, m)
      BY <3>3, <3>6
    <3>8. QED
      BY <2>3, <3>7
  <2>6. QED
    BY <2>4, <2>5
<1>3. QED
  BY <1>1, <1>2

(* No step of the joining outgrows its share of the table.                 *)
LEMMA Outgrown ==
  ASSUME NEW a \in Nat, NEW b \in Nat, NEW i \in Nat, NEW most \in Nat, NEW table \in Nat,
         most * a <= i * table, most * b <= table
  PROVE  most * (a + b) <= (i + 1) * table
<1>1. most * (a + b) = most * a + most * b
  OBVIOUS
<1>2. (i + 1) * table = i * table + table
  OBVIOUS
<1>3. most * a \in Nat /\ most * b \in Nat /\ i * table \in Nat
  OBVIOUS
<1>4. QED
  BY <1>1, <1>2, <1>3

LEMMA FitsInTable ==
  ASSUME NEW a \in Nat, NEW n \in Nat, NEW most \in Nat, NEW table \in Nat,
         n # 0, n <= most, most * a <= n * table
  PROVE  a <= table
<1>1. PICK d \in Nat : most = n + d
  <2>1. most - n \in Nat /\ most = n + (most - n)
    OBVIOUS
  <2>2. QED
    BY <2>1
<1>2. ASSUME a >= table + 1 PROVE FALSE
  <2>1. PICK e \in Nat : a = table + 1 + e
    <3>1. a - (table + 1) \in Nat /\ a = table + 1 + (a - (table + 1))
      BY <1>2
    <3>2. QED
      BY <3>1
  <2>2. (n + d) * (table + 1 + e) =
          n * table + n + n * e + d * table + d + d * e
    OBVIOUS
  <2>3. n * table \in Nat /\ n * e \in Nat /\ d * table \in Nat /\ d * e \in Nat
    OBVIOUS
  <2>4. QED
    BY <1>1, <2>1, <2>2, <2>3
<1>3. QED
  BY <1>2

LEMMA JoinedFits ==
  ASSUME NEW most \in Nat, NEW table \in Nat, NEW T,
         NEW seqs \in Seq(Seq(T)), Len(seqs) <= most,
         \A i \in DOMAIN seqs : most * Len(seqs[i]) <= table
  PROVE  /\ FlattenSeq(seqs) \in Seq(T)
         /\ Len(FlattenSeq(seqs)) <= table
<1>1. PICK n \in Nat : n = Len(seqs) /\ DOMAIN seqs = 1 .. n /\ n <= most
  OBVIOUS
<1>2. \A i \in 1 .. n : seqs[i] \in Seq(T) /\ Len(seqs[i]) \in Nat /\ most * Len(seqs[i]) <= table
  BY <1>1
<1>3. CASE n = 0
  <2>1. FlattenSeq(seqs) = seqs /\ seqs = <<>>
    BY <1>1, <1>3 DEF FlattenSeq
  <2>2. QED
    BY <2>1
<1>4. CASE n # 0
  <2>1. PICK f : f = [i \in 1 .. n |-> Joined(seqs, f, i)] /\ FlattenSeq(seqs) = f[n]
    <3> DEFINE F == CHOOSE f : f = [i \in 1 .. n |-> Joined(seqs, f, i)]
    <3>1. FlattenSeq(seqs) = F[n]
      BY <1>1, <1>4 DEF FlattenSeq, Joined
    <3>2. F = [i \in 1 .. n |-> Joined(seqs, F, i)]
      BY JoinedExist
    <3>3. QED
      BY <3>1, <3>2
  <2>2. \A i \in 1 .. n : f[i] = Joined(seqs, f, i)
    BY <2>1
  <2> DEFINE Fits(i) == f[i] \in Seq(T) /\ most * Len(f[i]) <= i * table
             W == {i \in 1 .. n : ~Fits(i)}
  <2>3. W = {}
    <3> SUFFICES ASSUME W # {} PROVE FALSE
      OBVIOUS
    <3>1. PICK i \in W : \A t \in W : i <= t
      <4> HIDE DEF W
      <4>1. W \subseteq Nat
        BY DEF W
      <4>2. QED
        BY <4>1, LeastExists
    <3>2. i \in 1 .. n /\ ~Fits(i)
      OBVIOUS
    <3>3. CASE i = 1
      <4>1. f[1] = seqs[1]
        BY <2>2, <3>2, <3>3 DEF Joined
      <4>2. 1 * table = table
        OBVIOUS
      <4>3. QED
        BY <1>2, <3>2, <3>3, <4>1, <4>2
    <3>4. CASE i # 1
      <4>1. i - 1 \in 1 .. n /\ ~(i <= i - 1)
        BY <3>2, <3>4
      <4>2. Fits(i - 1)
        <5>1. i - 1 \notin W
          <6> HIDE DEF W
          <6>1. QED
            BY <3>1, <4>1
        <5>2. QED
          BY <4>1, <5>1
      <4>3. f[i] = f[i - 1] \o seqs[i]
        BY <2>2, <3>2, <3>4 DEF Joined
      <4>4. PICK p \in Seq(T), q \in Seq(T) : p = f[i - 1] /\ q = seqs[i]
        BY <1>2, <3>2, <4>2
      <4>5. PICK a \in Nat, b \in Nat : a = Len(p) /\ b = Len(q)
        BY <4>4
      <4>6. p \o q \in Seq(T) /\ Len(p \o q) = a + b
        BY <4>4, <4>5
      <4>7. PICK j \in Nat : j = i - 1 /\ i = j + 1
        BY <3>2, <4>1
      <4>8. most * a <= j * table /\ most * b <= table
        BY <1>2, <3>2, <4>2, <4>4, <4>5, <4>7
      <4>9. most * (a + b) <= (j + 1) * table
        BY <4>8, Outgrown
      <4>10. Fits(i)
        BY <4>3, <4>4, <4>6, <4>7, <4>9
      <4>11. QED
        BY <3>2, <4>10
    <3>5. QED
      BY <3>3, <3>4
  <2>4. n \in 1 .. n
    BY <1>4
  <2>5. f[n] \in Seq(T) /\ most * Len(f[n]) <= n * table
    BY <2>3, <2>4
  <2>6. PICK a \in Nat : a = Len(f[n])
    BY <2>5
  <2>7. most * a <= n * table
    BY <2>5, <2>6
  <2>8. a <= table
    BY <1>1, <1>4, <2>7, FitsInTable
  <2>9. QED
    BY <2>1, <2>5, <2>6, <2>8
<1>5. QED
  BY <1>3, <1>4

-----------------------------------------------------------------------------
(* The first m values: the positions of those in s, and the weight of each *)
(* distinct one in the entropy.                                            *)
At(values, m, s) == {i \in 1 .. m : values[i] \in s}

Spread(values, m) ==
  [v \in {values[i] : i \in 1 .. m} |->
     Cardinality(At(values, m, {v})) * Log2[Cardinality(At(values, m, {v}))]]

LEMMA LogType ==
  /\ Len(Log2) \in Nat
  /\ \A n \in 1 .. Len(Log2) : Log2[n] \in Nat /\ (n >= 2 => Log2[n] > 0)
  /\ \A n, k \in 1 .. Len(Log2) : n <= k => Log2[n] <= Log2[k]
BY LogAssumption

LEMMA ValuesCounted ==
  ASSUME NEW values, NEW m \in Nat
  PROVE  LET D == {values[i] : i \in 1 .. m} IN
         /\ IsFiniteSet(D) /\ Cardinality(D) \in Nat /\ Cardinality(D) <= m
         /\ \A s : /\ IsFiniteSet(At(values, m, s)) /\ Cardinality(At(values, m, s)) \in Nat
                   /\ Cardinality(At(values, m, s)) <= m
         /\ \A v \in D : Cardinality(At(values, m, {v})) # 0
<1> DEFINE D == {values[i] : i \in 1 .. m}
<1>1. IsFiniteSet(1 .. m) /\ Cardinality(1 .. m) = m
  BY FS_Interval
<1>2. IsFiniteSet(D) /\ Cardinality(D) <= Cardinality(1 .. m)
  <2>1. [i \in 1 .. m |-> values[i]] \in Surjection(1 .. m, D)
    BY DEF Surjection
  <2> HIDE DEF D
  <2>2. QED
    BY <1>1, <2>1, FS_Surjection
<1>3. ASSUME NEW s
      PROVE  /\ IsFiniteSet(At(values, m, s)) /\ Cardinality(At(values, m, s)) \in Nat
             /\ Cardinality(At(values, m, s)) <= m
  <2>1. At(values, m, s) \in SUBSET (1 .. m)
    BY DEF At
  <2>2. QED
    BY <1>1, <2>1, FS_Subset, FS_CardinalityType
<1>4. ASSUME NEW v \in D
      PROVE  Cardinality(At(values, m, {v})) # 0
  <2>1. At(values, m, {v}) # {}
    BY DEF At
  <2>2. QED
    BY <1>3, <2>1, FS_EmptySet
<1>5. QED
  BY <1>1, <1>2, <1>3, <1>4, FS_CardinalityType

LEMMA WeighsLess ==
  ASSUME NEW c \in Nat, NEW d \in Nat, NEW log \in Nat, NEW top \in Nat, NEW rest \in Nat,
         log <= top, rest <= d * top
  PROVE  c * log + rest <= (c + d) * top
<1>1. PICK e \in Nat : top = log + e
  <2>1. top - log \in Nat /\ top = log + (top - log)
    OBVIOUS
  <2>2. QED
    BY <2>1
<1>2. PICK w \in Nat : w = d * top
  OBVIOUS
<1>3. (c + d) * top = c * top + d * top
  OBVIOUS
<1>4. c * top = c * log + c * e
  BY <1>1
<1>5. c * log \in Nat /\ c * e \in Nat
  OBVIOUS
<1>6. QED
  BY <1>2, <1>3, <1>4, <1>5

(* Each value weighs at most what it would among all of them.              *)
LEMMA SpreadIsBounded ==
  ASSUME NEW values, NEW m \in 1 .. Len(Log2)
  PROVE  /\ Spread(values, m) \in [{values[i] : i \in 1 .. m} -> Nat]
         /\ SumFunction(Spread(values, m)) \in Nat
         /\ SumFunction(Spread(values, m)) <= m * Log2[m]
<1> DEFINE D == {values[i] : i \in 1 .. m}
           spread == Spread(values, m)
           Count(s) == Cardinality(At(values, m, s))
           top == Log2[m]
<1>1. m \in Nat /\ Len(Log2) \in Nat /\ top \in Nat
  BY LogType
<1>2. /\ IsFiniteSet(D)
      /\ \A s : IsFiniteSet(At(values, m, s)) /\ Count(s) \in Nat /\ Count(s) <= m
      /\ \A v \in D : Count({v}) # 0
  BY <1>1, ValuesCounted
<1>3. ASSUME NEW v \in D
      PROVE  Log2[Count({v})] \in Nat /\ Log2[Count({v})] <= top
  <2>1. PICK c \in Nat : c = Count({v}) /\ c # 0 /\ c <= m
    BY <1>2
  <2>2. c \in 1 .. Len(Log2) /\ m \in 1 .. Len(Log2)
    BY <1>1, <2>1
  <2>3. Log2[c] \in Nat /\ Log2[c] <= Log2[m]
    BY <2>1, <2>2, LogType
  <2>4. QED
    BY <2>1, <2>3
<1>4. \A v \in D : spread[v] = Count({v}) * Log2[Count({v})]
  BY DEF Spread
<1>5. spread \in [D -> Nat]
  <2>1. ASSUME NEW v \in D
        PROVE  Count({v}) * Log2[Count({v})] \in Nat
    <3>1. PICK c \in Nat, log \in Nat : c = Count({v}) /\ log = Log2[Count({v})]
      BY <1>2, <1>3
    <3>2. c * log \in Nat
      OBVIOUS
    <3>3. QED
      BY <3>1, <3>2
  <2>2. DOMAIN spread = D /\ spread = [v \in D |-> spread[v]]
    BY DEF Spread
  <2> HIDE DEF spread, D, Count
  <2>3. QED
    BY <1>4, <2>1, <2>2
<1> DEFINE sum == Sums(spread, D)
           Heavy(s) == ~(sum[s] <= Count(s) * top)
           T == {n \in Nat : \E s \in SUBSET D : Cardinality(s) = n /\ Heavy(s)}
<1>6. \A s \in SUBSET D : sum[s] \in Nat
  <2> HIDE DEF spread, D
  <2>1. QED
    BY <1>2, <1>5, SumsAreNat
<1>7. T = {}
  <2> SUFFICES ASSUME T # {} PROVE FALSE
    OBVIOUS
  <2>1. PICK n \in T : \A t \in T : n <= t
    <3> HIDE DEF T
    <3>1. T \subseteq Nat
      BY DEF T
    <3>2. QED
      BY <3>1, LeastExists
  <2>2. PICK s \in SUBSET D : n \in Nat /\ Cardinality(s) = n /\ Heavy(s)
    OBVIOUS
  <2> HIDE DEF spread, D, sum
  <2>3. CASE s = {}
    <3>1. sum[s] = 0
      BY <1>2, <2>3, SumsAddUp DEF AddUp, sum
    <3>2. Count(s) * top \in Nat
      BY <1>1, <1>2
    <3>3. QED
      BY <2>2, <3>1, <3>2
  <2>4. CASE s # {}
    <3>1. PICK b \in s : TRUE
      BY <2>4
    <3>2. b \in D /\ s \ {b} \in SUBSET D /\ IsFiniteSet(s)
      BY <1>2, FS_Subset
    <3>3. Cardinality(s \ {b}) = n - 1 /\ Cardinality(s \ {b}) \in Nat
      BY <2>2, <3>2, FS_RemoveElement, FS_Subset, FS_CardinalityType
    <3>4. ~Heavy(s \ {b})
      <4>1. n - 1 \notin T
        <5> HIDE DEF T
        <5>1. ~(n <= n - 1)
          BY <2>2
        <5>2. QED
          BY <2>1, <5>1
      <4> HIDE DEF Heavy
      <4>2. QED
        BY <3>2, <3>3, <4>1
    <3>5. sum[s] = spread[b] + sum[s \ {b}]
      <4>1. IsFiniteSet(D) /\ s \in SUBSET D /\ b \in s /\ spread \in [D -> Nat]
        BY <1>2, <1>5, <3>1
      <4>2. Sums(spread, D)[s] = spread[b] + Sums(spread, D)[s \ {b}]
        BY <4>1, SumFromAny
      <4>3. QED
        BY <4>2 DEF sum
    <3>6. Count(s) = Count({b}) + Count(s \ {b})
      <4>1. /\ At(values, m, s) = At(values, m, {b}) \cup At(values, m, s \ {b})
            /\ At(values, m, {b}) \cap At(values, m, s \ {b}) = {}
        BY DEF At
      <4>2. Cardinality({}) = 0
        BY FS_EmptySet
      <4>3. Count(s) = Count({b}) + Count(s \ {b}) - 0
        BY <1>2, <4>1, <4>2, FS_Union
      <4>4. QED
        BY <1>2, <4>3
    <3>7. PICK c \in Nat, d \in Nat, log \in Nat, rest \in Nat :
            /\ c = Count({b}) /\ d = Count(s \ {b}) /\ log = Log2[Count({b})] /\ log <= top
            /\ rest = sum[s \ {b}]
      BY <1>2, <1>3, <1>6, <3>2
    <3>8. spread[b] = c * log
      BY <1>4, <3>2, <3>7
    <3>9. rest <= d * top
      BY <3>4, <3>7
    <3>10. c * log + rest <= (c + d) * top
      BY <1>1, <3>7, <3>9, WeighsLess
    <3>11. c * log + rest = sum[s] /\ c + d = Count(s)
      BY <3>5, <3>6, <3>7, <3>8
    <3>12. ~Heavy(s)
      BY <3>10, <3>11
    <3>13. QED
      BY <2>2, <3>12
  <2>5. QED
    BY <2>3, <2>4
<1>8. sum[D] <= Count(D) * top
  <2>1. Cardinality(D) \in Nat
    BY <1>2, FS_CardinalityType
  <2>2. D \in SUBSET D
    OBVIOUS
  <2> HIDE DEF D, sum, Count
  <2>3. QED
    BY <1>7, <2>1, <2>2
<1>9. Count(D) = m
  <2>1. At(values, m, D) = 1 .. m
    BY DEF At
  <2>2. QED
    BY <1>1, <2>1, FS_Interval
<1>10. SumFunction(spread) = sum[D] /\ sum[D] \in Nat
  <2>1. DOMAIN spread = D
    BY DEF Spread
  <2> HIDE DEF spread, D
  <2>2. QED
    BY <1>2, <1>6, <2>1, SumsAddUp
<1> HIDE DEF D, sum, spread, Count, top
<1>11. SumFunction(spread) \in Nat /\ SumFunction(spread) <= m * top
  BY <1>8, <1>9, <1>10
<1>12. QED
  BY <1>5, <1>11 DEF spread, top, D

LEMMA MeanUnderTop ==
  ASSUME NEW sum \in Nat, NEW m \in Nat, NEW top \in Nat, m # 0, sum <= m * top
  PROVE  top - sum \div m \in Nat
<1>1. PICK q \in Nat : q = sum \div m /\ m * q <= sum
  <2>1. m > 0
    OBVIOUS
  <2>2. QED
    BY <2>1, Quotient
<1>2. m * q <= m * top
  <2>1. m * q \in Nat /\ m * top \in Nat
    OBVIOUS
  <2>2. QED
    BY <1>1, <2>1
<1>3. q <= top
  BY <1>2, FitsInTable
<1>4. QED
  BY <1>1, <1>3

(* "Normalized Shannon entropy in [0, 1]".                                 *)
LEMMA EntropyIsAFraction ==
  ASSUME NEW values, NEW m \in 1 .. Len(Log2), DOMAIN values = 1 .. m, Len(values) = m
  PROVE  NormalizedEntropy(values) \in Fraction
<1> DEFINE D == {values[i] : i \in 1 .. m}
           spread == Spread(values, m)
           sum == SumFunction(spread)
           k == Cardinality(D)
<1>1. m \in Nat /\ m # 0 /\ Len(Log2) \in Nat /\ Log2[m] \in Nat
  BY LogType
<1>2. k \in Nat /\ k <= m
  BY <1>1, ValuesCounted
<1>3. sum \in Nat /\ sum <= m * Log2[m]
  BY SpreadIsBounded
<1>4. NormalizedEntropy(values) =
        IF k < 2 THEN 0 ELSE AtMost(Unit, Percent(Log2[m] - sum \div m, Log2[k]))
  <2>1. D = {values[i] : i \in DOMAIN values}
    OBVIOUS
  <2>2. \A v : At(values, m, {v}) = {i \in DOMAIN values : values[i] = v}
    BY DEF At
  <2>3. spread = [v \in D |-> Cardinality({i \in DOMAIN values : values[i] = v})
                                * Log2[Cardinality({i \in DOMAIN values : values[i] = v})]]
    BY <2>2 DEF Spread
  <2>4. QED
    BY <2>1, <2>3 DEF NormalizedEntropy
<1> HIDE DEF D, spread, sum, k
<1>5. CASE k < 2
  BY <1>4, <1>5 DEF Fraction
<1>6. CASE ~(k < 2)
  <2>1. k \in 1 .. Len(Log2) /\ k >= 2
    BY <1>1, <1>2, <1>6
  <2>2. PICK whole \in Nat : whole = Log2[k] /\ whole > 0
    BY <2>1, LogType
  <2>3. PICK entropy \in Nat : entropy = Log2[m] - sum \div m
    BY <1>1, <1>3, MeanUnderTop
  <2>4. AtMost(Unit, Percent(entropy, whole)) \in Fraction
    <3>1. entropy \in Int /\ entropy <= entropy
      OBVIOUS
    <3>2. QED
      BY <2>2, <3>1, CappedShare
  <2>5. QED
    BY <1>4, <1>6, <2>2, <2>3, <2>4
<1>7. QED
  BY <1>5, <1>6

LEMMA RestIsAFraction ==
  ASSUME NEW e \in Fraction
  PROVE  100 - e \in Fraction
BY DEF Fraction

LEMMA RegularityIsAFraction ==
  ASSUME NEW ordered, NEW n \in 0 .. Len(Log2),
         ordered = [i \in 1 .. n |-> ordered[i]], Len(ordered) = n
  PROVE  Regularity(ordered) \in Fraction
<1>1. n \in Nat /\ Len(Log2) \in Nat
  BY LogType
<1>2. CASE n = 0
  <2>1. ordered = <<>>
    BY <1>2
  <2>2. Regularity(ordered) = 0
    BY <2>1 DEF Regularity
  <2>3. QED
    BY <2>2 DEF Fraction
<1>3. CASE n = 1
  <2>1. ordered # <<>>
    BY <1>3
  <2>2. QED
    BY <1>3, <2>1 DEF Regularity, Unit, Fraction
<1>4. CASE n > 1
  <2>1. ordered # <<>> /\ Len(ordered) # 1
    BY <1>1, <1>4
  <2>2. PICK m \in 1 .. Len(Log2) : m = n - 1
    BY <1>1, <1>4
  <2>3. DOMAIN Differences(ordered) = 1 .. m /\ Len(Differences(ordered)) = m
    <3>1. m \in Nat
      BY <1>1
    <3>2. Differences(ordered) = [i \in 1 .. m |-> ordered[i + 1] - ordered[i]]
      BY <2>2 DEF Differences
    <3>3. QED
      BY <3>1, <3>2
  <2>4. PICK e \in Fraction : e = NormalizedEntropy(Differences(ordered))
    BY <2>3, EntropyIsAFraction
  <2>5. 100 - e \in Fraction
    BY <2>4, RestIsAFraction
  <2>6. QED
    BY <2>1, <2>4, <2>5 DEF Regularity, Unit
<1>5. QED
  BY <1>1, <1>2, <1>3, <1>4

-----------------------------------------------------------------------------
LEMMA SlotValuesCounted ==
  ASSUME NEW rows \in Seq(Row), Len(rows) <= MaxEvents, NEW G, G \subseteq DOMAIN rows
  PROVE  Regularity(SlotValues(rows, G)) \in Fraction
<1> DEFINE at == InOrder(G)
           n == Cardinality(G)
           seqs == [i \in DOMAIN at |-> Values[rows[at[i]].kind]]
           flat == FlattenSeq(seqs)
<1>1. n \in Nat /\ at \in [1 .. n -> G]
  BY Restricted
<1>2. n <= MaxEvents /\ MaxEvents \in Nat
  <2>1. n <= Len(rows) /\ Len(rows) \in Nat
    BY PartOfRows
  <2> HIDE DEF n
  <2>2. QED
    BY <1>1, <2>1, CommonAssumption
<1>3. Len(Log2) \in Nat
  BY LogType
<1>4. ASSUME NEW i \in 1 .. n
      PROVE  /\ Values[rows[at[i]].kind] \in Seq(Nat)
             /\ MaxEvents * Len(Values[rows[at[i]].kind]) <= Len(Log2)
  <2>1. at[i] \in DOMAIN rows
    BY <1>1
  <2>2. rows[at[i]] \in Row
    BY <2>1
  <2>3. rows[at[i]].kind \in Kinds
    BY <2>2 DEF Row
  <2>4. QED
    BY <2>3, DetectorAssumption, LogAssumption
<1>5. seqs \in Seq(Seq(Nat)) /\ DOMAIN seqs = 1 .. n /\ Len(seqs) = n
      /\ \A i \in 1 .. n : MaxEvents * Len(seqs[i]) <= Len(Log2)
  <2> DEFINE val(i) == Values[rows[at[i]].kind]
  <2>1. seqs = [i \in 1 .. n |-> val(i)]
    BY <1>1
  <2> HIDE DEF seqs
  <2>2. \A i \in 1 .. n : val(i) \in Seq(Nat) /\ MaxEvents * Len(val(i)) <= Len(Log2)
    BY <1>4
  <2> HIDE DEF n, val, at
  <2>3. QED
    BY <1>1, <2>1, <2>2
<1> HIDE DEF seqs
<1>6. flat \in Seq(Nat) /\ Len(flat) <= Len(Log2)
  <2> HIDE DEF n, at
  <2>1. QED
    BY <1>2, <1>3, <1>5, JoinedFits
<1>7. SlotValues(rows, G) = Sorted(flat)
  BY DEF SlotValues, seqs
<1> HIDE DEF flat, n, at
<1>8. PICK m \in 0 .. Len(Log2) : m = Len(flat)
  BY <1>3, <1>6
<1>9. /\ Sorted(flat) = [i \in 1 .. m |-> Sorted(flat)[i]]
      /\ Len(Sorted(flat)) = m
  <2> DEFINE nth(i) == CHOOSE v \in {flat[j] : j \in DOMAIN flat} :
                         /\ Cardinality({j \in DOMAIN flat : flat[j] < v}) < i
                         /\ i <= Cardinality({j \in DOMAIN flat : flat[j] <= v})
  <2>1. Sorted(flat) = [i \in 1 .. m |-> nth(i)]
    BY <1>8 DEF Sorted
  <2> HIDE DEF nth
  <2>2. m \in Nat
    BY <1>3
  <2>3. Len([i \in 1 .. m |-> nth(i)]) = m
    BY <2>2
  <2>4. QED
    BY <2>1, <2>3
<1>10. Regularity(Sorted(flat)) \in Fraction
  BY <1>8, <1>9, RegularityIsAFraction
<1>11. QED
  BY <1>7, <1>10

(* The parts of the signal that are about the largest group G.             *)
GroupSignal(rows, G) ==
  GatedSignal(
    Weighted(40, AtMost(Unit, Percent(Cardinality(G), Config.enumeration_group_saturation)),
             30, Regularity(SlotValues(rows, G)), 30, Percent(Cardinality(G), Len(rows))),
    Systematic(rows, G))

LEMMA EnumerationSignal ==
  ASSUME NEW rows, rows # <<>>
  PROVE  EnumerationDetect(rows).signal = GroupSignal(rows, LargestGroup(rows))
BY Zenon DEF EnumerationDetect, DetectorResult, Systematic, GroupSignal

LEMMA EnumerationIsGraded ==
  ASSUME NEW rows \in Seq(Row), Len(rows) <= MaxEvents, rows # <<>>
  PROVE  Graded(EnumerationDetect(rows), rows, EnumerationFloor)
<1> DEFINE G == LargestGroup(rows)
           size == Cardinality(G)
           saturation == Config.enumeration_group_saturation
           sizeTerm == AtMost(Unit, Percent(size, saturation))
           regularity == Regularity(SlotValues(rows, G))
           dominance == Percent(size, Len(rows))
           raw == Weighted(40, sizeTerm, 30, regularity, 30, dominance)
           least == Config.enumeration_min_group_size
           minRegularity == Config.enumeration_min_regularity
           minDominance == Config.enumeration_min_dominance
<1>1. G \subseteq DOMAIN rows
  BY LargestGroupIsOne
<1>2. EnumerationDetect(rows).signal = GatedSignal(raw, Systematic(rows, G))
  BY EnumerationSignal DEF GroupSignal
<1>3. EnumerationDetect(rows).fired = Systematic(rows, G)
      /\ EnumerationDetect(rows).evidence = G
  BY EnumerationVerdict
<1>4. Systematic(rows, G) =>
        size >= least /\ regularity >= minRegularity /\ dominance >= minDominance
  BY DEF Systematic
<1>5. size \in Nat /\ dominance \in Fraction
  BY <1>1, ShareOfRows
<1>6. regularity \in Fraction
  BY <1>1, SlotValuesCounted
<1>7. least \in Int /\ minRegularity \in Int /\ minDominance \in Int
      /\ saturation \in Nat /\ saturation > 0
  BY EnumerationAssumption
<1>8. EnumerationFloor = Weighted(40, AtMost(Unit, Percent(least, saturation)),
                                  30, minRegularity, 30, minDominance)
  BY DEF EnumerationFloor
<1> HIDE DEF size, saturation, regularity, dominance, least, minRegularity, minDominance, G
<1>9. sizeTerm \in Fraction
  <2>1. size \in Int /\ size <= size
    BY <1>5
  <2>2. QED
    BY <1>5, <1>7, <2>1, CappedShare
<1>10. raw \in Fraction
  BY <1>5, <1>6, <1>9, WeightedFractions
<1>11. Systematic(rows, G) => raw >= EnumerationFloor
  <2> SUFFICES ASSUME Systematic(rows, G) PROVE raw >= EnumerationFloor
    OBVIOUS
  <2>1. least <= size /\ minRegularity <= regularity /\ minDominance <= dominance
    <3>1. regularity \in Int /\ dominance \in Int /\ size \in Int
      BY <1>5, <1>6 DEF Fraction
    <3>2. QED
      BY <1>4, <1>7, <3>1
  <2>2. PICK a \in Int, r \in Fraction :
          a = AtMost(Unit, Percent(least, saturation)) /\ r = sizeTerm /\ a <= r
    BY <1>5, <1>7, <1>9, <2>1, CappedShare
  <2> HIDE DEF sizeTerm
  <2>3. raw = Weighted(40, r, 30, regularity, 30, dominance)
    BY <2>2
  <2> HIDE DEF raw
  <2>4. PICK w : w = Weighted(40, a, 30, minRegularity, 30, minDominance)
    OBVIOUS
  <2>5. r \in Int /\ regularity \in Int /\ dominance \in Int
    BY <1>5, <1>6 DEF Fraction
  <2>6. w <= raw /\ w \in Int
    <3>1. /\ Weighted(40, a, 30, minRegularity, 30, minDominance)
               <= Weighted(40, r, 30, regularity, 30, dominance)
          /\ Weighted(40, a, 30, minRegularity, 30, minDominance) \in Int
      <4>1. PICK s \in Int, t \in Int, b \in Int, c \in Int :
              s = regularity /\ t = dominance /\ b = minRegularity /\ c = minDominance
        BY <1>7, <2>5
      <4>2. a <= r /\ b <= s /\ c <= t /\ r \in Int
        BY <2>1, <2>2, <2>5, <4>1
      <4>3. /\ Weighted(40, a, 30, b, 30, c) <= Weighted(40, r, 30, s, 30, t)
            /\ Weighted(40, a, 30, b, 30, c) \in Int
        BY <4>2, WeightedGrows
      <4>4. QED
        BY <4>1, <4>3
    <3>2. QED
      BY <2>3, <2>4, <3>1
  <2>7. raw \in Int
    BY <1>10 DEF Fraction
  <2>8. EnumerationFloor = w
    BY <1>8, <2>2, <2>4
  <2>9. QED
    BY <2>6, <2>7, <2>8
<1> HIDE DEF raw
<1>12. PICK sig : sig = GatedSignal(raw, Systematic(rows, G))
  OBVIOUS
<1>13. /\ sig \in Fraction
       /\ Systematic(rows, G) => sig = raw
       /\ ~Systematic(rows, G) => sig <= Dampest
  BY <1>10, <1>12, GateSeparates
<1>14. QED
  BY <1>1, <1>2, <1>3, <1>11, <1>12, <1>13 DEF Graded

-----------------------------------------------------------------------------
LEMMA SumOfIntegers ==
  ASSUME NEW S, IsFiniteSet(S), NEW f \in [S -> Int]
  PROVE  SumFunction(f) \in Int
<1> DEFINE sum == Sums(f, S)
           T == {n \in Nat : \E t \in SUBSET S : Cardinality(t) = n /\ sum[t] \notin Int}
<1>1. /\ \A t \in SUBSET S : sum[t] = AddUp(f, sum, t)
      /\ SumFunction(f) = sum[S]
  BY SumsAddUp
<1> HIDE DEF sum
<1>2. T = {}
  <2> SUFFICES ASSUME T # {} PROVE FALSE
    OBVIOUS
  <2>1. PICK n \in T : \A t \in T : n <= t
    <3> HIDE DEF T
    <3>1. T \subseteq Nat
      BY DEF T
    <3>2. QED
      BY <3>1, LeastExists
  <2>2. PICK t \in SUBSET S : n \in Nat /\ Cardinality(t) = n /\ sum[t] \notin Int
    OBVIOUS
  <2>3. sum[t] = AddUp(f, sum, t)
    BY <1>1
  <2>4. t # {}
    BY <2>2, <2>3 DEF AddUp
  <2>5. AnyOf(t) \in t /\ AnyOf(t) \in S /\ n - 1 \in Nat
    <3>1. t \in UpTo(S, n)
      BY <2>2 DEF UpTo
    <3>2. QED
      BY <2>2, <2>4, <3>1, OneLess
  <2>6. Cardinality(t \ {AnyOf(t)}) = n - 1 /\ t \ {AnyOf(t)} \in SUBSET S
    <3>1. IsFiniteSet(t)
      BY FS_Subset
    <3>2. QED
      BY <2>2, <2>5, <3>1, FS_RemoveElement
  <2>7. sum[t \ {AnyOf(t)}] \in Int
    <3>1. n - 1 \notin T
      <4> HIDE DEF T
      <4>1. ~(n <= n - 1)
        BY <2>2
      <4>2. QED
        BY <2>1, <4>1
    <3>2. QED
      BY <2>5, <2>6, <3>1
  <2>8. f[AnyOf(t)] \in Int
    BY <2>5
  <2>9. QED
    BY <2>2, <2>3, <2>4, <2>7, <2>8 DEF AddUp
<1>3. Cardinality(S) \in Nat /\ S \in SUBSET S
  BY FS_CardinalityType
<1>4. QED
  BY <1>1, <1>2, <1>3

-----------------------------------------------------------------------------
(* The parts of Spearman's correlation, which is within -1 .. 1.           *)
RankOf(levels, n, i) ==
  2 * Cardinality({j \in 1 .. n : levels[j] < levels[i]})
    + Cardinality({j \in 1 .. n : levels[j] = levels[i]}) + 1

ByIndex(n) == [i \in 1 .. n |-> 2 * i - (n + 1)]

ByLevel(levels, n) == [i \in 1 .. n |-> RankOf(levels, n, i) - (n + 1)]

SumOfProducts(n, f, g) == SumFunction([i \in 1 .. n |-> f[i] * g[i]])

LEMMA ProductsAddUp ==
  ASSUME NEW n \in Nat, NEW f \in [1 .. n -> Int], NEW g \in [1 .. n -> Int]
  PROVE  SumOfProducts(n, f, g) \in Int
<1>1. IsFiniteSet(1 .. n)
  BY FS_Interval
<1>2. [i \in 1 .. n |-> f[i] * g[i]] \in [1 .. n -> Int]
  <2>1. \A i \in 1 .. n : f[i] \in Int /\ g[i] \in Int
    OBVIOUS
  <2>2. \A x, y \in Int : x * y \in Int
    OBVIOUS
  <2>3. \A i \in 1 .. n : f[i] * g[i] \in Int
    BY <2>1, <2>2
  <2>4. QED
    BY <2>3
<1>3. QED
  BY <1>1, <1>2, SumOfIntegers DEF SumOfProducts

LEMMA Deviations ==
  ASSUME NEW n \in Nat, NEW levels
  PROVE  ByIndex(n) \in [1 .. n -> Int] /\ ByLevel(levels, n) \in [1 .. n -> Int]
<1>1. \A i \in 1 .. n : 2 * i - (n + 1) \in Int
  OBVIOUS
<1>2. ASSUME NEW i \in 1 .. n
      PROVE  RankOf(levels, n, i) - (n + 1) \in Int
  <2>1. IsFiniteSet(1 .. n)
    BY FS_Interval
  <2>2. /\ {j \in 1 .. n : levels[j] < levels[i]} \in SUBSET (1 .. n)
        /\ {j \in 1 .. n : levels[j] = levels[i]} \in SUBSET (1 .. n)
    OBVIOUS
  <2>3. PICK b \in Nat, e \in Nat :
          /\ b = Cardinality({j \in 1 .. n : levels[j] < levels[i]})
          /\ e = Cardinality({j \in 1 .. n : levels[j] = levels[i]})
    BY <2>1, <2>2, FS_Subset, FS_CardinalityType
  <2>4. RankOf(levels, n, i) = 2 * b + e + 1
    BY <2>3 DEF RankOf
  <2>5. QED
    BY <2>4
<1>3. QED
  BY <1>1, <1>2 DEF ByIndex, ByLevel

LEMMA RootExists ==
  ASSUME NEW var \in Int, NEW square \in Nat
  PROVE  \E r \in 0 .. 100 : /\ r * r * var <= square
                             /\ r = 100 \/ square < (r + 1) * (r + 1) * var
<1> DEFINE Under(r) == r * r * var <= square
           T == {d \in 0 .. 100 : Under(100 - d)}
<1>1. T # {} /\ T \subseteq Nat
  <2>1. 0 * 0 * var = 0 /\ 100 - 100 = 0
    OBVIOUS
  <2>2. Under(100 - 100)
    BY <2>1
  <2> HIDE DEF Under
  <2>3. 100 \in T
    BY <2>2
  <2>4. \A t \in T : t \in Nat
    OBVIOUS
  <2> HIDE DEF T
  <2>5. QED
    BY <2>3, <2>4
<1>2. PICK d \in T : \A t \in T : d <= t
  <2> HIDE DEF T
  <2>1. QED
    BY <1>1, LeastExists
<1>3. d \in 0 .. 100 /\ Under(100 - d)
  OBVIOUS
<1>4. PICK r \in 0 .. 100 : r = 100 - d
  BY <1>3
<1>5. CASE d = 0
  BY <1>3, <1>4, <1>5
<1>6. CASE d # 0
  <2>1. d - 1 \in 0 .. 100 /\ ~(d <= d - 1) /\ 100 - (d - 1) = r + 1
    BY <1>3, <1>4, <1>6
  <2>2. ~Under(r + 1)
    <3>1. d - 1 \notin T
      <4> HIDE DEF T
      <4>1. QED
        BY <1>2, <2>1
    <3> HIDE DEF Under
    <3>2. QED
      BY <2>1, <3>1
  <2>3. (r + 1) * (r + 1) * var \in Int
    <3>1. r \in Int
      BY <1>4
    <3>2. QED
      BY <3>1
  <2>4. square < (r + 1) * (r + 1) * var
    BY <2>2, <2>3
  <2>5. QED
    BY <1>3, <1>4, <2>4
<1>7. QED
  BY <1>5, <1>6

LEMMA RhoIsACorrelation ==
  ASSUME NEW n \in Nat, NEW levels, Len(levels) = n
  PROVE  Rho(levels) \in -100 .. 100
<1> DEFINE x == ByIndex(n)
           y == ByLevel(levels, n)
<1>1. PICK cov \in Int, xx \in Int, yy \in Int :
        cov = SumOfProducts(n, x, y) /\ xx = SumOfProducts(n, x, x) /\ yy = SumOfProducts(n, y, y)
  <2>1. x \in [1 .. n -> Int] /\ y \in [1 .. n -> Int]
    BY Deviations
  <2> HIDE DEF x, y
  <2>2. QED
    BY <2>1, ProductsAddUp
<1>2. PICK var \in Int : var = xx * yy
  OBVIOUS
<1>3. PICK square \in Nat : square = 100 * 100 * cov * cov
  <2>1. cov * cov >= 0 /\ cov * cov \in Int
    BY Z3
  <2>2. 100 * 100 * cov * cov = 10000 * (cov * cov)
    OBVIOUS
  <2>3. PICK c \in Nat : c = cov * cov
    BY <2>1
  <2>4. 10000 * c \in Nat
    OBVIOUS
  <2>5. QED
    BY <2>2, <2>3, <2>4
<1> DEFINE Root(r) == /\ r * r * var <= square
                      /\ r = 100 \/ square < (r + 1) * (r + 1) * var
           size == CHOOSE r \in 0 .. 100 : Root(r)
<1>4. Rho(levels) = IF cov < 0 THEN -size ELSE size
  BY <1>1, <1>2, <1>3 DEF Rho, ByIndex, ByLevel, RankOf, SumOfProducts, Unit
<1>5. size \in 0 .. 100
  <2>1. \E r \in 0 .. 100 : Root(r)
    BY RootExists
  <2> HIDE DEF Root
  <2>2. QED
    BY <2>1
<1> HIDE DEF size
<1>6. size \in -100 .. 100 /\ -size \in -100 .. 100
  BY <1>5
<1>7. QED
  BY <1>4, <1>6

-----------------------------------------------------------------------------
(* The series of levels, and how far it reaches.                           *)
LEMMA LevelsOfSessions ==
  ASSUME NEW rows \in Seq(Row)
  PROVE  \E n \in Nat : /\ LevelSeries(rows) \in [1 .. n -> 0 .. 4]
                        /\ Len(LevelSeries(rows)) = n
<1> DEFINE S == SessionsOf(rows)
<1>1. PICK m \in Nat : m = Len(rows) /\ DOMAIN rows = 1 .. m
  OBVIOUS
<1>2. \A i \in 1 .. m : rows[i] \in Row
  BY <1>1
<1>3. S \in SUBSET Nat
  BY <1>1, <1>2 DEF SessionsOf, Row
<1>4. IsFiniteSet(S)
  <2>1. IsFiniteSet(1 .. m)
    BY FS_Interval
  <2>2. [i \in 1 .. m |-> rows[i].session] \in Surjection(1 .. m, S)
    BY <1>1 DEF SessionsOf, Surjection
  <2> HIDE DEF S
  <2>3. QED
    BY <2>1, <2>2, FS_Surjection
<1>5. PICK n \in Nat : n = Cardinality(S) /\ InOrder(S) \in [1 .. n -> S]
  <2> HIDE DEF S
  <2>1. QED
    BY <1>3, <1>4, OrderedSet
<1>6. ASSUME NEW s \in S
      PROVE  SessionLevel(rows, s) \in 0 .. 4
  <2> DEFINE L == {Level[rows[i].kind] : i \in RowsIn(rows, s)}
  <2>1. \A i \in 1 .. m : Level[rows[i].kind] \in 0 .. 4
    BY <1>2, DetectorAssumption DEF Row
  <2>2. PICK i \in 1 .. m : rows[i].session = s
    BY <1>1 DEF SessionsOf
  <2>3. RowsIn(rows, s) \subseteq 1 .. m /\ i \in RowsIn(rows, s)
    BY <1>1, <2>2 DEF RowsIn
  <2>4. L \in SUBSET (0 .. 4) /\ L # {}
    BY <2>1, <2>3
  <2>5. SessionLevel(rows, s) = Max(L)
    BY DEF SessionLevel
  <2> HIDE DEF L
  <2>6. Max(L) \in L
    BY <2>4, HighestLevel
  <2>7. QED
    BY <2>4, <2>5, <2>6
<1>7. LevelSeries(rows) = [i \in 1 .. n |-> SessionLevel(rows, InOrder(S)[i])]
  BY <1>5 DEF LevelSeries
<1> HIDE DEF S
<1>8. \A i \in 1 .. n : SessionLevel(rows, InOrder(S)[i]) \in 0 .. 4
  BY <1>5, <1>6
<1>9. LevelSeries(rows) \in [1 .. n -> 0 .. 4]
  BY <1>7, <1>8
<1>10. Len(LevelSeries(rows)) = n
  BY <1>7
<1>11. QED
  BY <1>9, <1>10

LEMMA RangeOfLevels ==
  ASSUME NEW n \in Nat, n # 0, NEW levels \in [1 .. n -> 0 .. 4]
  PROVE  LET range == Max(ToSet(levels)) - Min(ToSet(levels))
         IN  range \in 0 .. 4 /\ (n = 1 => range = 0)
<1> DEFINE L == ToSet(levels)
<1>1. L = {levels[i] : i \in 1 .. n}
  BY DEF ToSet
<1>2. L \in SUBSET (0 .. 4) /\ L # {} /\ L \in SUBSET Nat /\ (n = 1 => L = {levels[1]})
  <2>1. 1 \in 1 .. n
    OBVIOUS
  <2>2. \A i \in 1 .. n : levels[i] \in 0 .. 4
    OBVIOUS
  <2>3. \A l \in 0 .. 4 : l \in Nat
    OBVIOUS
  <2> HIDE DEF L
  <2>4. QED
    BY <1>1, <2>1, <2>2, <2>3
<1> HIDE DEF L
<1>3. Max(L) \in L /\ \A l \in L : l <= Max(L)
  BY <1>2, HighestLevel
<1>4. Min(L) \in L
  BY <1>2, LeastOfSet
<1>5. PICK high \in 0 .. 4, low \in 0 .. 4 : high = Max(L) /\ low = Min(L) /\ low <= high
  BY <1>2, <1>3, <1>4
<1>6. n = 1 => high = low
  BY <1>2, <1>3, <1>4, <1>5
<1>7. high - low \in 0 .. 4 /\ (n = 1 => high - low = 0)
  BY <1>5, <1>6
<1>8. QED
  BY <1>5, <1>7 DEF L

(* What makes a series of levels an escalation, and its strength.          *)
Rising(levels) ==
  LET range == Max(ToSet(levels)) - Min(ToSet(levels)) IN
  /\ Rho(levels) >= Config.escalation_min_rho
  /\ range >= Config.escalation_min_level_range
  /\ NondecFrac(levels) >= Config.escalation_min_nondec_frac

RisingSignal(levels) ==
  LET range == Max(ToSet(levels)) - Min(ToSet(levels)) IN
  GatedSignal(Weighted(50, Clamp(Rho(levels)), 30, Percent(range, 4), 20, NondecFrac(levels)),
              Rising(levels))

LEMMA EscalationVerdict ==
  ASSUME NEW rows
  PROVE  LET levels == LevelSeries(rows)
             range == Max(ToSet(levels)) - Min(ToSet(levels))
         IN  \/ EscalationDetect(rows) = Silent
             \/ /\ ~(Len(levels) < Config.escalation_min_sessions)
                /\ range # 0
                /\ EscalationDetect(rows).signal = RisingSignal(levels)
                /\ EscalationDetect(rows).fired = Rising(levels)
                /\ EscalationDetect(rows).evidence = Rises(rows)
BY Zenon DEF EscalationDetect, DetectorResult, Rising, RisingSignal

LEMMA EscalationWeighs ==
  ASSUME NEW rho \in -100 .. 100, NEW range \in 0 .. 4, NEW nondec \in Fraction,
         NEW minRho \in Int, NEW minRange \in Int, NEW minNondec \in Int
  PROVE  LET raw == Weighted(50, Clamp(rho), 30, Percent(range, 4), 20, nondec) IN
         /\ raw \in Fraction
         /\ rho >= minRho /\ range >= minRange /\ nondec >= minNondec =>
              raw >= Weighted(50, Clamp(minRho), 30, Percent(minRange, 4), 20, minNondec)
<1>1. rho \in Int /\ range \in Int /\ nondec \in Int
  BY DEF Fraction
<1>2. PICK r \in Fraction, s \in Fraction : r = Clamp(rho) /\ s = Percent(range, 4)
  <2>1. Clamp(rho) \in Fraction
    BY <1>1, ClampGrows
  <2>2. (100 * range) \div 4 \in 0 .. 100
    OBVIOUS
  <2>3. QED
    BY <2>1, <2>2 DEF Percent, Unit, Fraction
<1>3. Weighted(50, r, 30, s, 20, nondec) \in Fraction
  BY WeightedFractions
<1>4. ASSUME rho >= minRho, range >= minRange, nondec >= minNondec
      PROVE  Weighted(50, Clamp(minRho), 30, Percent(minRange, 4), 20, minNondec)
               <= Weighted(50, r, 30, s, 20, nondec)
  <2>1. PICK a \in Int : a = Clamp(minRho) /\ a <= r
    <3>1. minRho <= rho
      BY <1>1, <1>4
    <3>2. Clamp(minRho) <= Clamp(rho) /\ Clamp(minRho) \in Fraction
      BY <1>1, <3>1, ClampGrows
    <3>3. QED
      BY <1>2, <3>2 DEF Fraction
  <2>2. PICK b \in Int : b = Percent(minRange, 4) /\ b <= s
    <3>1. (100 * minRange) \div 4 <= (100 * range) \div 4 /\ (100 * minRange) \div 4 \in Int
      BY <1>1, <1>4
    <3>2. QED
      BY <1>2, <3>1 DEF Percent, Unit
  <2>3. r \in Int /\ s \in Int /\ minNondec <= nondec
    BY <1>1, <1>2, <1>4 DEF Fraction
  <2>4. Weighted(50, a, 30, b, 20, minNondec) <= Weighted(50, r, 30, s, 20, nondec)
    BY <1>1, <2>1, <2>2, <2>3, WeightedGrows
  <2>5. QED
    BY <2>1, <2>2, <2>4
<1>5. PICK least : least = Weighted(50, Clamp(minRho), 30, Percent(minRange, 4), 20, minNondec)
  OBVIOUS
<1>6. least \in Int
  <2>1. PICK a \in Int, b \in Int : a = Clamp(minRho) /\ b = Percent(minRange, 4)
    <3>1. Clamp(minRho) \in Int
      BY ClampGrows DEF Fraction
    <3>2. (100 * minRange) \div 4 \in Int
      OBVIOUS
    <3>3. QED
      BY <3>1, <3>2 DEF Percent, Unit
  <2>2. QED
    BY <1>5, <2>1 DEF Weighted, Unit
<1>7. PICK raw \in Int : raw = Weighted(50, r, 30, s, 20, nondec)
  BY <1>3 DEF Fraction
<1>8. QED
  BY <1>2, <1>3, <1>4, <1>5, <1>6, <1>7

LEMMA EscalationIsGraded ==
  ASSUME NEW rows \in Seq(Row)
  PROVE  Graded(EscalationDetect(rows), rows, EscalationFloor)
<1> DEFINE levels == LevelSeries(rows)
           range == Max(ToSet(levels)) - Min(ToSet(levels))
           rho == Rho(levels)
           nondec == NondecFrac(levels)
           raw == Weighted(50, Clamp(rho), 30, Percent(range, 4), 20, nondec)
<1>1. CASE EscalationDetect(rows) = Silent
  BY <1>1, SilentIsGraded
<1>2. CASE EscalationDetect(rows) # Silent
  <2>1. /\ ~(Len(levels) < Config.escalation_min_sessions) /\ range # 0
        /\ EscalationDetect(rows).signal = RisingSignal(levels)
        /\ EscalationDetect(rows).fired = Rising(levels)
        /\ EscalationDetect(rows).evidence = Rises(rows)
    BY <1>2, EscalationVerdict
  <2>2. PICK n \in Nat : levels \in [1 .. n -> 0 .. 4] /\ Len(levels) = n
    BY LevelsOfSessions
  <2>3. n # 0
    BY <2>1, <2>2, EscalationAssumption
  <2> HIDE DEF levels
  <2>4. range \in 0 .. 4 /\ (n = 1 => range = 0)
    BY <2>2, <2>3, RangeOfLevels
  <2>5. rho \in -100 .. 100
    BY <2>2, RhoIsACorrelation
  <2>6. nondec \in Fraction
    <3>1. PICK m \in Nat : m = n - 1 /\ m # 0
      BY <2>1, <2>3, <2>4
    <3>2. {i \in 1 .. m : levels[i + 1] >= levels[i]} \in SUBSET (1 .. m)
      OBVIOUS
    <3>3. Percent(Cardinality({i \in 1 .. m : levels[i + 1] >= levels[i]}), m) \in Fraction
      BY <3>1, <3>2, ShareOfMany
    <3>4. QED
      BY <2>2, <3>1, <3>3 DEF NondecFrac
  <2>7. /\ Config.escalation_min_rho \in Int /\ Config.escalation_min_level_range \in Int
        /\ Config.escalation_min_nondec_frac \in Int
    BY EscalationAssumption
  <2>8. Rising(levels) => /\ rho >= Config.escalation_min_rho
                          /\ range >= Config.escalation_min_level_range
                          /\ nondec >= Config.escalation_min_nondec_frac
    BY DEF Rising
  <2>9. RisingSignal(levels) = GatedSignal(raw, Rising(levels))
    BY DEF RisingSignal
  <2> HIDE DEF rho, range, nondec
  <2>10. raw \in Fraction /\ (Rising(levels) => raw >= EscalationFloor)
    BY <2>4, <2>5, <2>6, <2>7, <2>8, EscalationWeighs DEF EscalationFloor
  <2> HIDE DEF raw
  <2>11. Rises(rows) \subseteq DOMAIN rows
    BY DEF Rises
  <2>12. PICK sig : sig = GatedSignal(raw, Rising(levels))
    OBVIOUS
  <2>13. /\ sig \in Fraction
         /\ Rising(levels) => sig = raw
         /\ ~Rising(levels) => sig <= Dampest
    BY <2>10, <2>12, GateSeparates
  <2>14. QED
    BY <2>1, <2>9, <2>10, <2>11, <2>12, <2>13 DEF Graded
<1>3. QED
  BY <1>1, <1>2

-----------------------------------------------------------------------------
(* A window never outgrows what a cycle reads.                             *)
WindowInv == WindowOK /\ Len(window) <= MaxEvents

LEMMA WindowFits == Spec => []WindowInv
<1>1. Init => WindowInv
  BY CommonAssumption DEF Init, WindowInv, WindowOK
<1>2. WindowInv /\ [Next]_window => WindowInv'
  <2> SUFFICES ASSUME WindowInv, [Next]_window PROVE WindowInv'
    OBVIOUS
  <2>1. WindowOK'
    BY WindowStep DEF WindowInv
  <2>2. MaxEvents \in Nat /\ Len(window) \in Nat /\ Len(window) <= MaxEvents
    BY CommonAssumption DEF WindowInv, WindowOK
  <2>3. ASSUME NEW kind \in Kinds, NEW s \in 1 .. MaxSessions, Ingest(kind, s)
        PROVE  Len(window') <= MaxEvents
    <3>1. [kind |-> kind, session |-> s] \in Row
      BY DEF Row
    <3>2. Len(window') = Len(window) + 1 /\ Len(window) < MaxEvents
      BY <2>3, <3>1 DEF Ingest, WindowInv, WindowOK
    <3>3. QED
      BY <2>2, <3>2
  <2>4. ASSUME Slide PROVE Len(window') <= MaxEvents
    <3>1. PICK rows \in Seq(Row) : rows = window
      BY DEF WindowInv, WindowOK
    <3>2. window' = Tail(rows) /\ rows # <<>>
      BY <2>4, <3>1 DEF Slide
    <3>3. Len(Tail(rows)) = Len(rows) - 1
      BY <3>2
    <3>4. PICK n \in Nat : n = Len(rows) /\ n <= MaxEvents
      BY <2>2, <3>1
    <3>5. Len(Tail(rows)) <= MaxEvents
      BY <2>2, <3>3, <3>4
    <3>6. QED
      BY <3>2, <3>5
  <2>5. ASSUME UNCHANGED window PROVE Len(window') <= MaxEvents
    BY <2>2, <2>5
  <2>6. QED
    BY <2>1, <2>3, <2>4, <2>5 DEF Next, WindowInv
<1>3. QED
  BY <1>1, <1>2, PTL DEF Spec

LEMMA ResultsGraded ==
  ASSUME NEW rows \in Seq(Row), Len(rows) <= MaxEvents
  PROVE  /\ Graded(Results(rows)["probing"], rows, ProbingFloor)
         /\ Graded(Results(rows)["escalation"], rows, EscalationFloor)
         /\ Graded(Results(rows)["enumeration"], rows, EnumerationFloor)
<1>1. /\ Results(rows)["probing"] = ProbingDetect(rows)
      /\ Results(rows)["escalation"] = EscalationDetect(rows)
      /\ Results(rows)["enumeration"] = EnumerationDetect(rows)
  BY DEF Results, Techniques
<1>2. CASE rows = <<>>
  <2>1. ProbingDetect(rows) = Silent /\ EnumerationDetect(rows) = Silent
    BY <1>2 DEF ProbingDetect, EnumerationDetect
  <2>2. QED
    BY <1>1, <2>1, SilentIsGraded, EscalationIsGraded
<1>3. CASE rows # <<>>
  BY <1>1, <1>3, ProbingIsGraded, EscalationIsGraded, EnumerationIsGraded
<1>4. QED
  BY <1>2, <1>3

(* Every detector returns a signal the scorer may weigh and evidence       *)
(* inside the window: the scores proved in range elsewhere are scores of   *)
(* these signals.                                                          *)
THEOREM SignalsInRange == Spec => []TypeOK
<1>1. WindowInv => TypeOK
  <2> SUFFICES ASSUME WindowInv PROVE TypeOK
    OBVIOUS
  <2>1. PICK rows \in Seq(Row) : rows = window /\ Len(rows) <= MaxEvents
    BY DEF WindowInv, WindowOK
  <2>2. PICK results : results = Results(rows)
    OBVIOUS
  <2>3. ASSUME NEW t \in Techniques
        PROVE  results[t].signal \in Fraction /\ results[t].evidence \subseteq DOMAIN rows
    BY <2>1, <2>2, ResultsGraded DEF Graded, Techniques
  <2>4. Fraction = 0 .. SignalMax
    BY SignalAssumption DEF Fraction, Unit
  <2>5. FromDetectorResults(results) \in Signals
    BY <2>3, <2>4 DEF FromDetectorResults, Signals
  <2>6. QED
    BY <2>1, <2>2, <2>3, <2>5 DEF TypeOK
<1>2. QED
  BY <1>1, WindowFits, PTL

(* One ranking, three formulas: dampened signals stay at or below the line *)
(* that fired ones reach.                                                  *)
LEMMA RankingOfFired ==
  ASSUME NEW sig \in [Techniques -> Fraction], NEW fired \in [Techniques -> BOOLEAN],
         \A t \in Techniques : ~fired[t] => sig[t] <= 30,
         fired["probing"] => sig["probing"] >= 30,
         fired["escalation"] => sig["escalation"] > 30,
         fired["enumeration"] => sig["enumeration"] > 30,
         NEW u \in Techniques, fired[u]
  PROVE  fired[DominantPattern(sig)]
<1>1. PICK p \in Int, e \in Int, n \in Int :
        p = sig["probing"] /\ e = sig["escalation"] /\ n = sig["enumeration"]
  <2>1. sig["probing"] \in Fraction /\ sig["escalation"] \in Fraction
        /\ sig["enumeration"] \in Fraction
    BY DEF Techniques
  <2>2. QED
    BY <2>1, FractionIsInt
<1>2. /\ ~fired["probing"] => p <= 30
      /\ ~fired["escalation"] => e <= 30
      /\ ~fired["enumeration"] => n <= 30
  BY <1>1 DEF Techniques
<1>3. fired["probing"] \/ fired["escalation"] \/ fired["enumeration"]
  BY DEF Techniques
<1>4. CASE p >= e /\ p >= n
  <2>1. DominantPattern(sig) = "probing"
    BY <1>1, <1>4 DEF DominantPattern
  <2>2. fired["probing"]
    BY <1>1, <1>2, <1>3, <1>4
  <2>3. QED
    BY <2>1, <2>2
<1>5. CASE ~(p >= e /\ p >= n) /\ e >= n
  <2>1. DominantPattern(sig) = "escalation"
    BY <1>1, <1>5 DEF DominantPattern
  <2>2. fired["escalation"]
    BY <1>1, <1>2, <1>3, <1>5
  <2>3. QED
    BY <2>1, <2>2
<1>6. CASE ~(p >= e /\ p >= n) /\ ~(e >= n)
  <2>1. DominantPattern(sig) = "enumeration"
    BY <1>1, <1>6 DEF DominantPattern
  <2>2. fired["enumeration"]
    BY <1>1, <1>2, <1>3, <1>6
  <2>3. QED
    BY <2>1, <2>2
<1>7. QED
  BY <1>4, <1>5, <1>6

LEMMA FloorsAreNumbers ==
  ProbingFloor \in Int /\ EscalationFloor \in Int /\ EnumerationFloor \in Int
<1>1. ASSUME NEW a \in Int, NEW n \in Nat, n > 0
      PROVE  AtMost(Unit, Percent(a, n)) \in Int /\ Percent(a, n) \in Int
  <2>1. PICK q \in Int : q = (100 * a) \div n
    <3>1. 100 * a \in Int
      OBVIOUS
    <3>2. QED
      BY <1>1, <3>1, IntQuotient
  <2>2. QED
    BY <2>1 DEF AtMost, Percent, Unit
<1>2. ASSUME NEW a \in Int, NEW b \in Int, NEW c \in Int
      PROVE  /\ Weighted(50, a, 20, b, 30, c) \in Int
             /\ Weighted(50, a, 30, b, 20, c) \in Int
             /\ Weighted(40, a, 30, b, 30, c) \in Int
  BY DEF Weighted, Unit
<1>3. ProbingFloor \in Int
  <2>1. PICK a \in Int, n \in Nat, c \in Int :
          /\ a = Config.probing_min_cluster_size /\ n = Config.probing_cluster_saturation
          /\ c = Config.probing_min_block_rate /\ n > 0
    BY ProbingAssumption
  <2>2. AtMost(Unit, Percent(a, n)) \in Int
    BY <1>1, <2>1
  <2>3. Weighted(50, AtMost(Unit, Percent(a, n)), 20, 0, 30, c) \in Int
    BY <1>2, <2>2
  <2>4. QED
    BY <2>1, <2>3 DEF ProbingFloor
<1>4. EscalationFloor \in Int
  <2>1. Clamp(Config.escalation_min_rho) \in Int
    <3>1. PICK v \in Int : v = Config.escalation_min_rho
      BY EscalationAssumption
    <3>2. Clamp(v) \in Fraction
      BY ClampGrows
    <3>3. QED
      BY <3>1, <3>2, FractionIsInt
  <2>2. 4 \in Nat /\ 4 > 0
    OBVIOUS
  <2>3. Percent(Config.escalation_min_level_range, 4) \in Int
    BY <1>1, <2>2, EscalationAssumption
  <2>4. QED
    BY <1>2, <2>1, <2>3, EscalationAssumption DEF EscalationFloor
<1>5. EnumerationFloor \in Int
  <2>1. PICK a \in Int, n \in Nat, b \in Int, c \in Int :
          /\ a = Config.enumeration_min_group_size
          /\ n = Config.enumeration_group_saturation /\ n > 0
          /\ b = Config.enumeration_min_regularity /\ c = Config.enumeration_min_dominance
    BY EnumerationAssumption
  <2>2. AtMost(Unit, Percent(a, n)) \in Int
    BY <1>1, <2>1
  <2>3. Weighted(40, AtMost(Unit, Percent(a, n)), 30, b, 30, c) \in Int
    BY <1>2, <2>2
  <2>4. QED
    BY <2>1, <2>3 DEF EnumerationFloor
<1>6. QED
  BY <1>3, <1>4, <1>5

(* The technique an alert names fired, whenever one did, for every window, *)
(* similarity and level, under settings whose thresholds keep a fired      *)
(* signal off the dampened ones.                                           *)
THEOREM DominantFired ==
  ASSUME SeparatingSettings
  PROVE  Spec => []DominantTechniqueFired
<1>1. WindowInv => DominantTechniqueFired
  <2> SUFFICES ASSUME WindowInv, NEW u \in Fired(Results(window))
               PROVE  DominantPattern(FromDetectorResults(Results(window)))
                        \in Fired(Results(window))
    BY DEF DominantTechniqueFired
  <2>1. PICK rows \in Seq(Row) : rows = window /\ Len(rows) <= MaxEvents
    BY DEF WindowInv, WindowOK
  <2>2. PICK results : results = Results(rows)
    OBVIOUS
  <2>3. PICK sig : sig = FromDetectorResults(results)
    OBVIOUS
  <2>4. PICK fired : fired = [t \in Techniques |-> IF results[t].fired THEN TRUE ELSE FALSE]
    OBVIOUS
  <2>5. /\ Graded(results["probing"], rows, ProbingFloor)
        /\ Graded(results["escalation"], rows, EscalationFloor)
        /\ Graded(results["enumeration"], rows, EnumerationFloor)
    BY <2>1, <2>2, ResultsGraded
  <2>6. sig \in [Techniques -> Fraction] /\ fired \in [Techniques -> BOOLEAN]
    BY <2>3, <2>4, <2>5 DEF Graded, FromDetectorResults, Techniques
  <2>7. \A t \in Techniques : sig[t] = results[t].signal /\ (fired[t] <=> results[t].fired)
    BY <2>3, <2>4 DEF FromDetectorResults
  <2>8. \A t \in Techniques : ~fired[t] => sig[t] <= 30
    BY <2>5, <2>7 DEF Graded, Techniques, Dampest
  <2>9. ProbingFloor >= 30 /\ EscalationFloor > 30 /\ EnumerationFloor > 30
    BY DEF SeparatingSettings, ProbingFloor, EscalationFloor, EnumerationFloor
  <2>10. /\ fired["probing"] => sig["probing"] >= 30
         /\ fired["escalation"] => sig["escalation"] > 30
         /\ fired["enumeration"] => sig["enumeration"] > 30
    <3>1. /\ fired["probing"] => sig["probing"] >= ProbingFloor
          /\ fired["escalation"] => sig["escalation"] >= EscalationFloor
          /\ fired["enumeration"] => sig["enumeration"] >= EnumerationFloor
      BY <2>5, <2>7 DEF Graded, Techniques
    <3>2. \A t \in Techniques : sig[t] \in Int
      BY <2>6, FractionIsInt
    <3>3. QED
      BY <2>9, <3>1, <3>2, FloorsAreNumbers DEF Techniques
  <2>11. u \in Techniques /\ fired[u]
    BY <2>1, <2>2, <2>7 DEF Fired
  <2>12. fired[DominantPattern(sig)] /\ DominantPattern(sig) \in Techniques
    BY <2>6, <2>8, <2>10, <2>11, RankingOfFired DEF DominantPattern, Techniques
  <2>13. QED
    BY <2>1, <2>2, <2>3, <2>7, <2>12 DEF Fired
<1>2. QED
  BY <1>1, WindowFits, PTL
=============================================================================
