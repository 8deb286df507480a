---------------------------- MODULE DetectorBase ----------------------------
(***************************************************************************)
(* What the detectors share (app/detectors/base.py): the rows of a rolling *)
(* window and the arithmetic of signals. Fractions are in hundredths,      *)
(* rounded down.                                                           *)
(***************************************************************************)
EXTENDS Integers, Sequences, FiniteSetsExt

CONSTANTS
  Kinds,       \* the prompts the detectors tell apart
  Outcome,     \* kind -> guardrail outcome of its rows
  Similarity,  \* kind -> kind -> cosine similarity of their embeddings
  Template,    \* kind -> template_signature
  Values,      \* kind -> slot values of numeric_tokens
  Level,       \* kind -> capability_level
  Log2,        \* n -> log2(n)
  Config       \* the fields of DetectorConfig

Unit == 100

ASSUME DetectorAssumption ==
  /\ Outcome \in [Kinds -> {"allowed", "blocked", "flagged"}]
  /\ \A k, l \in Kinds : Similarity[k][l] \in 0 .. Unit
  /\ \A k, l \in Kinds : Similarity[k][l] = Similarity[l][k]
  /\ \A k \in Kinds : Similarity[k][k] = Unit
  /\ Values \in [Kinds -> Seq(Nat)]
  /\ Level \in [Kinds -> 0 .. 4]

(* A row of the window, its session named by its place in started_at order *)
Row == [kind : Kinds, session : Nat \ {0}]

-----------------------------------------------------------------------------
(* sorted() of a set of numbers: the n-th has n members up to itself.      *)
InOrder(S) ==
  [n \in 1 .. Cardinality(S) |-> CHOOSE x \in S : Cardinality({y \in S : y <= x}) = n]

(* sorted() of a list: the n-th has fewer than n below it, and with its    *)
(* equals reaches n.                                                       *)
Sorted(values) ==
  LET Below(v) == {i \in DOMAIN values : values[i] < v}
      UpTo(v) == {i \in DOMAIN values : values[i] <= v}
  IN  [n \in 1 .. Len(values) |->
         CHOOSE v \in {values[i] : i \in DOMAIN values} :
           Cardinality(Below(v)) < n /\ n <= Cardinality(UpTo(v))]

Percent(part, whole) == (Unit * part) \div whole

AtMost(limit, v) == IF v > limit THEN limit ELSE v

Unclamped(v) == v  \* mutant

Clamp(v) == IF v < 0 THEN 0 ELSE AtMost(Unit, v)

Dampened(raw, fired) == raw  \* mutant: no dampener

(* A detector that does not fire keeps 0.3 of its raw signal.              *)
GatedSignal(raw, fired) == IF fired THEN raw ELSE (30 * raw) \div Unit

(* A weighted sum of terms, the weights in hundredths.                     *)
Weighted(w1, t1, w2, t2, w3, t3) == (w1 * t1 + w2 * t2 + w3 * t3) \div Unit

(* Mean over the pairs of the rows at the positions I; 1 for a single row. *)
MeanPairwiseCosineSimilarity(window, I) ==
  LET pairs == {p \in I \X I : p[1] < p[2]}
      sim == [p \in pairs |-> Similarity[window[p[1]].kind][window[p[2]].kind]]
  IN  IF pairs # {} THEN SumFunction(sim) \div Cardinality(pairs)
      ELSE IF I # {} THEN Unit ELSE 0

(* "Normalized Shannon entropy in [0, 1]": it is, and the cap is never met *)
(* but by what the hundredths of Log2 lose.                                *)
NormalizedEntropy(values) ==
  LET distinct == {values[i] : i \in DOMAIN values}
      count(v) == Cardinality({i \in DOMAIN values : values[i] = v})
      spread == [v \in distinct |-> count(v) * Log2[count(v)]]
      entropy == Log2[Len(values)] - SumFunction(spread) \div Len(values)
  IN  IF Cardinality(distinct) < 2 THEN 0
      ELSE AtMost(Unit, Percent(entropy, Log2[Cardinality(distinct)]))

(* First differences of a sorted sequence.                                 *)
Differences(ordered) ==
  [i \in 1 .. Len(ordered) - 1 |-> ordered[i + 1] - ordered[i]]

IsArithmeticProgression(ordered) ==
  /\ Len(ordered) >= 2
  /\ Cardinality({Differences(ordered)[i] : i \in 1 .. Len(ordered) - 1}) = 1

(* evidence: the positions of contributing_interaction_ids.                *)
DetectorResult(signal, fired, evidence) ==
  [signal |-> signal, fired |-> fired, evidence |-> evidence]

Silent == DetectorResult(0, FALSE, {})
=============================================================================
