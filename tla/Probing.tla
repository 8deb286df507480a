------------------------------- MODULE Probing -------------------------------
(***************************************************************************)
(* Guardrail boundary probing (app/detectors/probing.py): the blocked rows *)
(* of a window, clustered by DBSCAN over the similarity of their prompts.  *)
(***************************************************************************)
EXTENDS DetectorBase

(* What the detector divides by is positive.                               *)
ASSUME ProbingAssumption ==
  /\ Config.probing_cluster_saturation \in Nat \ {0}
  /\ {Config.probing_min_cluster_size, Config.probing_min_mean_sim, Config.probing_sim_term_high,
      Config.probing_min_block_rate} \subseteq Int
  /\ Config.probing_min_mean_sim < Config.probing_sim_term_high

-----------------------------------------------------------------------------
BlockedOrFlagged(window) ==  \* mutant
  {i \in DOMAIN window : Outcome[window[i].kind] # "allowed"}

BlockedRows(window) == {i \in DOMAIN window : Outcome[window[i].kind] = "blocked"}

BlockRate(window) == Percent(Cardinality(BlockedRows(window)), Len(window))

(* DBSCAN: the neighbourhood of every blocked row, itself included.        *)
Neighbourhoods(window) ==
  LET blocked == BlockedRows(window) IN
  [i \in blocked |-> {j \in blocked :
     Similarity[window[i].kind][window[j].kind] >= Unit - Config.probing_dbscan_eps}]

CorePoints(near) ==
  {i \in DOMAIN near : Cardinality(near[i]) >= Config.probing_dbscan_min_samples}

(* The core points that chains of core points connect to i.                *)
Connected(near, core, i) ==
  LET reach[n \in 0 .. Cardinality(core)] ==
        IF n = 0 THEN {i}
        ELSE LET reached == reach[n - 1]
             IN  reached \cup UNION {near[k] \cap core : k \in reached}
  IN  reach[Cardinality(core)]

(* Clusters are found in the order of their first core point; a border     *)
(* point goes to the first cluster that reaches it.                        *)
Clusters(near) ==
  LET core == CorePoints(near)
      chains == {Connected(near, core, i) : i \in core}
      Border(chain) == UNION {near[i] : i \in chain} \ core
      Earlier(chain) == {c \in chains : Min(c) < Min(chain)}
  IN  {chain \cup (Border(chain) \ UNION {Border(c) : c \in Earlier(chain)}) :
         chain \in chains}

(* The largest cluster, of equals the one whose first row is oldest.       *)
LargestCluster(clusters) ==
  CHOOSE C \in clusters : \A D \in clusters :
    \/ Cardinality(C) > Cardinality(D)
    \/ Cardinality(C) = Cardinality(D) /\ Min(C) <= Min(D)

ProbingDetect(window) ==
  LET clusters == Clusters(Neighbourhoods(window))
      C == LargestCluster(clusters)
      size == Cardinality(C)
      rate == BlockRate(window)
      meanSim == MeanPairwiseCosineSimilarity(window, C)
      fired ==
        /\ size >= Config.probing_min_cluster_size
        /\ meanSim \in Config.probing_min_mean_sim .. Config.probing_max_mean_sim
        /\ rate >= Config.probing_min_block_rate
      sizeTerm == AtMost(Unit, Percent(size, Config.probing_cluster_saturation))
      simTerm == Clamp(Percent(meanSim - Config.probing_min_mean_sim,
                   Config.probing_sim_term_high - Config.probing_min_mean_sim))
  IN  IF window = <<>> THEN Silent
      ELSE IF clusters = {}
        THEN DetectorResult(GatedSignal(Weighted(0, 0, 0, 0, 30, rate), FALSE), FALSE, {})
      ELSE DetectorResult(
             GatedSignal(Weighted(50, sizeTerm, 20, simTerm, 30, rate), fired), fired, C)
=============================================================================
