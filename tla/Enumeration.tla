----------------------------- MODULE Enumeration -----------------------------
(***************************************************************************)
(* Systematic enumeration (app/detectors/enumeration.py): the largest      *)
(* group of rows of one template and the regularity of its numbers.        *)
(***************************************************************************)
EXTENDS DetectorBase, SequencesExt

ASSUME EnumerationAssumption ==
  /\ Config.enumeration_group_saturation \in Nat \ {0}
  /\ {Config.enumeration_min_group_size, Config.enumeration_min_dominance,
      Config.enumeration_min_regularity} \subseteq Int

-----------------------------------------------------------------------------
Group(window, template) == {i \in DOMAIN window : Template[window[i].kind] = template}

Groups(window) == {Group(window, Template[window[i].kind]) : i \in DOMAIN window}

(* max() over the groups in the order they first appear.                   *)
LargestGroup(window) ==
  CHOOSE G \in Groups(window) : \A H \in Groups(window) :
    \/ Cardinality(G) > Cardinality(H)
    \/ Cardinality(G) = Cardinality(H) /\ Min(G) <= Min(H)

(* Every slot value of the group, sorted.                                  *)
SlotValues(window, G) ==
  LET rows == InOrder(G)
  IN  Sorted(FlattenSeq([i \in DOMAIN rows |-> Values[window[rows[i]].kind]]))

Coverage(ordered) ==
  IF ordered = <<>> THEN 0
  ELSE Percent(Cardinality(ToSet(ordered)), Last(ordered) - Head(ordered) + 1)

Regularity(ordered) ==
  IF ordered = <<>> THEN 0
  ELSE IF Len(ordered) = 1 THEN Unit
  ELSE Unit - NormalizedEntropy(Differences(ordered))

EnumerationDetect(window) ==
  LET G == LargestGroup(window)
      ordered == SlotValues(window, G)
      size == Cardinality(G)
      dominance == Percent(size, Len(window))
      regularity == Regularity(ordered)
      fired ==
        /\ size >= Config.enumeration_min_group_size
        /\ dominance >= Config.enumeration_min_dominance
        /\ regularity >= Config.enumeration_min_regularity
        /\ MeanPairwiseCosineSimilarity(window, G) >= Config.enumeration_min_mean_sim
        /\ \/ Coverage(ordered) >= Config.enumeration_min_coverage
           \/ IsArithmeticProgression(ordered)
      sizeTerm == AtMost(Unit, Percent(size, Config.enumeration_group_saturation))
  IN  IF window = <<>> THEN Silent
      ELSE DetectorResult(
             GatedSignal(Weighted(40, sizeTerm, 30, regularity, 30, dominance), fired),
             fired, G)
=============================================================================
