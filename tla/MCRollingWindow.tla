--------------------------- MODULE MCRollingWindow ---------------------------
(***************************************************************************)
(* Values for the constants of RollingWindow: small talk; two paraphrases  *)
(* and a third nearer to the second than to the first, all blocked; and    *)
(* two records read by account number, which is flagged.                   *)
(***************************************************************************)
EXTENDS RollingWindow

MCKinds == {"chat", "probe1", "probe2", "probe3", "read1", "read2"}

Reads == {"read1", "read2"}
Probes == {"probe1", "probe2", "probe3"}

MCOutcome ==
  [k \in Kinds |->
     IF k \in Probes THEN "blocked" ELSE IF k \in Reads THEN "flagged" ELSE "allowed"]

MCSimilarity ==
  [k \in Kinds |-> [l \in Kinds |->
     IF k = l THEN 100
     ELSE IF {k, l} = Reads THEN 95
     ELSE IF {k, l} = {"probe1", "probe3"} THEN 70
     ELSE IF {k, l} \subseteq Probes THEN 80
     ELSE 20]]

MCTemplate == [k \in Kinds |-> IF k \in Reads THEN "read" ELSE k]

MCValues ==
  [k \in Kinds |-> IF k = "read1" THEN <<1>> ELSE IF k = "read2" THEN <<2>> ELSE <<>>]

MCLevel ==
  [k \in Kinds |-> IF k \in Probes THEN 4 ELSE IF k \in Reads THEN 1 ELSE 0]

MCLog2 == <<0, 100, 158, 200>>

(* Counts are scaled down, the shares and similarities are the defaults.   *)
MCConfig ==
  [probing_dbscan_eps |-> 25,
   probing_dbscan_min_samples |-> 2,
   probing_min_cluster_size |-> 2,
   probing_min_mean_sim |-> 75,
   probing_max_mean_sim |-> 98,
   probing_min_block_rate |-> 60,
   probing_sim_term_high |-> 97,
   probing_cluster_saturation |-> 8,
   escalation_min_rho |-> 60,
   escalation_min_level_range |-> 2,
   escalation_min_nondec_frac |-> 70,
   escalation_min_sessions |-> 3,
   enumeration_min_group_size |-> 2,
   enumeration_min_dominance |-> 40,
   enumeration_min_regularity |-> 70,
   enumeration_min_mean_sim |-> 90,
   enumeration_min_coverage |-> 60,
   enumeration_group_saturation |-> 5]

ASSUME SettingsSeparate == SeparatingSettings

MCStored == 0 .. 100
MCWeight == [t \in Techniques |-> 1]
MCDecay(s, dt) == s \div 2
=============================================================================
