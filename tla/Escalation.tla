----------------------------- MODULE Escalation -----------------------------
(***************************************************************************)
(* Privilege escalation (app/detectors/escalation.py): the trend of the    *)
(* highest capability level of each session, in the order they started.    *)
(***************************************************************************)
EXTENDS DetectorBase, SequencesExt

ASSUME EscalationAssumption ==
  /\ Config.escalation_min_sessions \in Nat \ {0}
  /\ {Config.escalation_min_rho, Config.escalation_min_level_range,
      Config.escalation_min_nondec_frac} \subseteq Int

-----------------------------------------------------------------------------
SessionsOf(window) == {window[i].session : i \in DOMAIN window}

RowsIn(window, s) == {i \in DOMAIN window : window[i].session = s}

LastLevel(window, s) == Level[window[Max(RowsIn(window, s))].kind]  \* mutant

SessionLevel(window, s) == Max({Level[window[i].kind] : i \in RowsIn(window, s)})

(* Levels of the sessions in started_at order.                             *)
LevelSeries(window) ==
  LET ordered == InOrder(SessionsOf(window))
  IN  [i \in DOMAIN ordered |-> SessionLevel(window, ordered[i])]

StrictRises(window) ==  \* mutant: > for >=, from the default level 0
  {i \in DOMAIN window :
     /\ Level[window[i].kind] > 0
     /\ \A j \in RowsIn(window, window[i].session) :
          j < i => Level[window[j].kind] < Level[window[i].kind]}

(* The rows that reached their session's level of the moment.              *)
Rises(window) ==
  {i \in DOMAIN window : \A j \in RowsIn(window, window[i].session) :
     j < i => Level[window[j].kind] <= Level[window[i].kind]}

(* Spearman's correlation of the index with the level: of the ranks, equal *)
(* levels sharing the mean of theirs. Twice the ranks are integers; the    *)
(* size is a root, which no series takes above 1.                          *)
Rho(levels) ==
  LET n == Len(levels)
      rank(i) == 2 * Cardinality({j \in 1 .. n : levels[j] < levels[i]})
                 + Cardinality({j \in 1 .. n : levels[j] = levels[i]}) + 1
      byIndex == [i \in 1 .. n |-> 2 * i - (n + 1)]
      byLevel == [i \in 1 .. n |-> rank(i) - (n + 1)]
      SumOfProducts(f, g) == SumFunction([i \in 1 .. n |-> f[i] * g[i]])
      cov == SumOfProducts(byIndex, byLevel)
      var == SumOfProducts(byIndex, byIndex) * SumOfProducts(byLevel, byLevel)
      square == Unit * Unit * cov * cov
      size == CHOOSE r \in 0 .. Unit :
                /\ r * r * var <= square
                /\ r = Unit \/ square < (r + 1) * (r + 1) * var
  IN  IF cov < 0 THEN -size ELSE size

NondecFrac(levels) ==
  Percent(Cardinality({i \in 1 .. Len(levels) - 1 : levels[i + 1] >= levels[i]}),
          Len(levels) - 1)

EscalationDetect(window) ==
  LET levels == LevelSeries(window)
      range == Max(ToSet(levels)) - Min(ToSet(levels))
      rho == Rho(levels)
      nondec == NondecFrac(levels)
      fired ==
        /\ rho >= Config.escalation_min_rho
        /\ range >= Config.escalation_min_level_range
        /\ nondec >= Config.escalation_min_nondec_frac
  IN  IF Len(levels) < Config.escalation_min_sessions THEN Silent
      ELSE IF range = 0 THEN Silent
      ELSE DetectorResult(
             GatedSignal(Weighted(50, Clamp(rho), 30, Percent(range, 4), 20, nondec), fired),
             fired, Rises(window))
=============================================================================
