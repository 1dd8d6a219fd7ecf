--------------------------- MODULE PipelineProofs ---------------------------
(***************************************************************************)
(* What becomes of an analysis, for every list of addresses, every history *)
(* of theirs and every grouping that the clustering libraries may return:  *)
(* and, before that, what the decision rules guarantee for every score,    *)
(* cluster size, preset and overrides.                                     *)
(***************************************************************************)
EXTENDS Pipeline, FiniteSetTheorems, SequenceTheorems, WellFoundedInduction, TLAPS

Thresholds == Nat \cup {Off}
Rules      == [score_gte : Thresholds, cluster_size_gte : Thresholds]
Configs    == [drop : Rules, review : Rules]
Given      == [score_gte : Thresholds \cup {Absent},
               cluster_size_gte : Thresholds \cup {Absent}]
OverrideValues == [given : BOOLEAN, drop : Given, review : Given]

\* Overrides can only produce thresholds that the rules know (resolveConfig).
LEMMA ConfigType ==
  ASSUME NEW preset \in PresetNames, NEW overrides \in OverrideValues
  PROVE  ResolveConfig(preset, overrides) \in Configs
<1>1. PRESETS[preset] \in Configs
  BY DEF PresetNames, PRESETS, Preset, Rule, Configs, Rules, Thresholds, Off
<1>2. ASSUME NEW g \in Given, NEW r \in Rules PROVE Merge(g, r) \in Rules
  BY <1>2 DEF Merge, Or, Rule, Given, Rules, Thresholds, Off, Absent
<1>3. /\ Merge(overrides.drop, PRESETS[preset].drop) \in Rules
      /\ Merge(overrides.review, PRESETS[preset].review) \in Rules
  BY <1>1, <1>2 DEF OverrideValues, Configs
<1>. QED  BY <1>3 DEF ResolveConfig, Preset, Configs

\* A threshold that a value reaches is reached by every larger one.
LEMMA ReachesUp ==
  ASSUME NEW t \in Thresholds, NEW v \in Nat, NEW w \in Nat, v <= w, Reaches(v, t)
  PROVE  Reaches(w, t)
BY DEF Reaches, Thresholds, Off

\* Raising the score or the cluster size never makes a decision milder,
\* whatever the thresholds: they need not even be in order
\* (computeDecision, presets.ts:173-201).
THEOREM DecideMonotone ==
  ASSUME NEW cfg \in Configs, NEW pairwise \in BOOLEAN,
         NEW supported \in BOOLEAN, NEW codes,
         NEW score \in Nat, NEW size \in Nat,
         NEW score2 \in Nat, NEW size2 \in Nat,
         score <= score2, size <= size2
  PROVE  Severity[Decide(cfg, score2, size2, pairwise, supported, codes).decision]
           >= Severity[Decide(cfg, score, size, pairwise, supported, codes).decision]
<1> DEFINE Low  == Decide(cfg, score, size, pairwise, supported, codes).decision
           High == Decide(cfg, score2, size2, pairwise, supported, codes).decision
           Fires(s, z, rule) == ScoreFires(s, rule) \/ SizeFires(z, rule)
<1>1. ASSUME NEW rule \in Rules, Fires(score, size, rule)
      PROVE  Fires(score2, size2, rule)
  BY <1>1, ReachesUp DEF ScoreFires, SizeFires, Rules
<1>2. /\ Low = IF Fires(score, size, cfg.drop) THEN "DROP"
               ELSE IF Fires(score, size, cfg.review) \/ pairwise THEN "REVIEW"
               ELSE "KEEP"
      /\ High = IF Fires(score2, size2, cfg.drop) THEN "DROP"
                ELSE IF Fires(score2, size2, cfg.review) \/ pairwise THEN "REVIEW"
                ELSE "KEEP"
  BY DEF Decide, Result
<1>3. cfg.drop \in Rules /\ cfg.review \in Rules
  BY DEF Configs
<1>4. Severity["KEEP"] = 0 /\ Severity["REVIEW"] = 1 /\ Severity["DROP"] = 2
  BY DEF Severity
<1>5. CASE Fires(score2, size2, cfg.drop)
  BY <1>2, <1>4, <1>5
<1>6. CASE ~Fires(score2, size2, cfg.drop) /\ (Fires(score2, size2, cfg.review) \/ pairwise)
  <2>1. ~Fires(score, size, cfg.drop)  BY <1>1, <1>3, <1>6
  <2>. QED  BY <1>2, <1>4, <1>6, <2>1
<1>7. CASE ~Fires(score2, size2, cfg.drop) /\ ~(Fires(score2, size2, cfg.review) \/ pairwise)
  <2>1. ~Fires(score, size, cfg.drop) /\ ~(Fires(score, size, cfg.review) \/ pairwise)
    BY <1>1, <1>3, <1>7
  <2>. QED  BY <1>2, <1>4, <1>7, <2>1
<1>. QED  BY <1>5, <1>6, <1>7

\* The same of the worker's procedure, for every preset and override.
THEOREM DecisionMonotone ==
  ASSUME NEW preset \in PresetNames, NEW overrides \in OverrideValues, NEW codes,
         NEW score \in Nat, NEW size \in Nat,
         NEW score2 \in Nat, NEW size2 \in Nat,
         score <= score2, size <= size2
  PROVE  Severity[ComputeDecision(score2, size2, preset, codes, overrides).decision]
           >= Severity[ComputeDecision(score, size, preset, codes, overrides).decision]
<1>1. ResolveConfig(preset, overrides) \in Configs  BY ConfigType
<1>. HIDE DEF Configs, Severity
<1>2. /\ (preset = "grant" /\ PairwiseCode \in codes) \in BOOLEAN
      /\ (codes # {}) \in BOOLEAN
  OBVIOUS
<1>. QED  BY <1>1, <1>2, DecideMonotone DEF ComputeDecision

\* Without overrides the rules are those of the preset.
LEMMA PresetKept ==
  ASSUME NEW preset \in PresetNames
  PROVE  /\ ResolveConfig(preset, NoOverrides) = PRESETS[preset]
         /\ PRESETS[preset] = PyPRESETS[preset] /\ PRESETS[preset] = PRESET_THRESHOLDS[preset]
<1>1. ASSUME NEW r \in Rules
      PROVE  Merge(Rule(Absent, Absent), r) = r
  BY <1>1 DEF Merge, Or, Rule, Rules
<1>2. PRESETS[preset].drop \in Rules /\ PRESETS[preset].review \in Rules
  BY DEF PresetNames, PRESETS, Preset, Rule, Rules, Thresholds, Off
<1>3. ResolveConfig(preset, NoOverrides)
        = Preset(PRESETS[preset].drop, PRESETS[preset].review)
  BY <1>1, <1>2 DEF ResolveConfig, NoOverrides
<1>4. Preset(PRESETS[preset].drop, PRESETS[preset].review) = PRESETS[preset]
  BY DEF PresetNames, PRESETS, Preset
<1>5. PRESETS[preset] = PyPRESETS[preset] /\ PRESETS[preset] = PRESET_THRESHOLDS[preset]
  BY DEF PresetNames, PRESETS, PyPRESETS, PRESET_THRESHOLDS
<1> QED
  BY <1>3, <1>4, <1>5

\* Without overrides the worker and the offline scripts decide alike, for
\* every score, cluster size and set of codes (presets.py:1-8).
THEOREM Agreement ==
  ASSUME NEW preset \in PresetNames, NEW score, NEW size, NEW codes
  PROVE  ComputeDecision(score, size, preset, codes, NoOverrides)
           = PyComputeDecision(score, size, preset, codes)
<1>1. ResolveConfig(preset, NoOverrides) = PyPRESETS[preset]
  BY PresetKept
<1>2. codes \cup (IF NoOverrides.given THEN {Code("custom_thresholds")} ELSE {}) = codes
  BY DEF NoOverrides
<1>. QED  BY <1>1, <1>2 DEF ComputeDecision, PyComputeDecision

\* The pairwise signal can turn a KEEP into a REVIEW and do nothing else to
\* the decision: it never drops an address (presets.ts:179-184).
THEOREM PairwiseNeverDrops ==
  ASSUME NEW preset \in PresetNames, NEW overrides, NEW score, NEW size,
         NEW codes
  PROVE  LET with    == ComputeDecision(score, size, preset,
                                        codes \cup {PairwiseCode}, overrides).decision
             without == ComputeDecision(score, size, preset,
                                        codes \ {PairwiseCode}, overrides).decision
         IN with # without =>
              preset = "grant" /\ without = "KEEP" /\ with = "REVIEW"
<1> DEFINE cfg == ResolveConfig(preset, overrides)
           drops   == ScoreFires(score, cfg.drop) \/ SizeFires(size, cfg.drop)
           reviews == ScoreFires(score, cfg.review) \/ SizeFires(size, cfg.review)
<1>1. ASSUME NEW p, NEW s, NEW k
      PROVE  Decide(cfg, score, size, p, s, k).decision
               = IF drops THEN "DROP" ELSE IF reviews \/ p THEN "REVIEW" ELSE "KEEP"
  BY DEF Decide, Result
<1> DEFINE with    == ComputeDecision(score, size, preset,
                                      codes \cup {PairwiseCode}, overrides).decision
           without == ComputeDecision(score, size, preset,
                                      codes \ {PairwiseCode}, overrides).decision
<1>2. with = IF drops THEN "DROP"
             ELSE IF reviews \/ preset = "grant" THEN "REVIEW" ELSE "KEEP"
  <2>1. PairwiseCode \in codes \cup {PairwiseCode}  OBVIOUS
  <2>. HIDE DEF cfg, drops, reviews
  <2>. QED  BY <1>1, <2>1, ZenonT(60) DEF ComputeDecision, cfg
<1>3. without = IF drops THEN "DROP" ELSE IF reviews THEN "REVIEW" ELSE "KEEP"
  <2> DEFINE rest == codes \ {PairwiseCode}
             pairwise == preset = "grant" /\ PairwiseCode \in rest
  <2>1. pairwise = FALSE  OBVIOUS
  <2>2. without = Decide(cfg, score, size, pairwise, rest # {}, rest \cup
                     (IF overrides.given THEN {Code("custom_thresholds")} ELSE {})).decision
    BY DEF ComputeDecision
  <2>. HIDE DEF cfg, drops, reviews, pairwise, rest
  <2>3. without = IF drops THEN "DROP" ELSE IF reviews \/ pairwise THEN "REVIEW" ELSE "KEEP"
    BY <1>1, <2>2
  <2>. QED  BY <2>1, <2>3
<1>. HIDE DEF drops, reviews
<1>4. with # without => preset = "grant" /\ without = "KEEP" /\ with = "REVIEW"
  <2>. HIDE DEF with, without
  <2>. QED  BY <1>2, <1>3
<1>. QED  BY <1>4

----------------------------------------------------------------------------
(* Sets and sequences.                                                     *)

\* A finite set has a list of its elements.
LEMMA SetToSeqLists ==
  ASSUME NEW S, IsFiniteSet(S)
  PROVE  SetToSeq(S) \in [1..Cardinality(S) -> S] /\ Cardinality(S) \in Nat
<1>1. PICK f : f \in Bijection(1..Cardinality(S), S)
  BY FS_CardinalityType DEF ExistsBijection
<1>2. f \in [1..Cardinality(S) -> S] /\ IsInjective(f)
  BY <1>1 DEF Bijection, Injection
<1> QED
  BY <1>2, FS_CardinalityType DEF SetToSeq

\* A set of numbers that is not empty has a least one.
LEMMA LeastIs ==
  ASSUME NEW S \in SUBSET Nat, S # {}
  PROVE  Least(S) \in S /\ \A x \in S : Least(S) <= x
<1>1. PICK first \in S : \A x \in S : ~ (<<x, first>> \in OpToRel(<, Nat))
  BY NatLessThanWellFounded, WFMin
<1>2. \A x \in S : ~ (x < first)
  BY <1>1 DEF OpToRel
<1>3. \A x \in S : first <= x
  BY <1>2
<1> QED
  BY <1>3 DEF Least

\* The least and the greatest are one.
LEMMA LeastOf ==
  ASSUME NEW S \in SUBSET Nat, NEW n \in S, \A x \in S : n <= x
  PROVE  Least(S) = n
<1>1. Least(S) \in S /\ \A x \in S : Least(S) <= x
  BY DEF Least
<1>2. Least(S) \in Nat /\ n \in Nat /\ Least(S) <= n /\ n <= Least(S)
  BY <1>1
<1> QED
  BY <1>2

LEMMA GreatestOf ==
  ASSUME NEW S \in SUBSET Nat, NEW n \in S, \A x \in S : x <= n
  PROVE  Greatest(S) = n
<1>1. Greatest(S) \in S /\ \A x \in S : x <= Greatest(S)
  BY DEF Greatest
<1>2. Greatest(S) \in Nat /\ n \in Nat /\ Greatest(S) <= n /\ n <= Greatest(S)
  BY <1>1
<1> QED
  BY <1>2

----------------------------------------------------------------------------
(* The largest cluster of an address, as pipeline.py and the worker find it. *)

\* What ClustersWith returns of a list of clusters: some of them, at their
\* places.
Members(m) ==
  /\ DOMAIN m \in SUBSET (1..Len(clusters)) /\ DOMAIN m # {}
  /\ \A i \in DOMAIN m : m[i].size \in Nat

\* best runs through the places as the worker's scan does, up to place k.
Scan(m, k, best) ==
  /\ best[0] = Least(DOMAIN m)
  /\ \A n \in 1..k :
       best[n] = IF n \in DOMAIN m /\ m[n].size > m[best[n - 1]].size
                   THEN n ELSE best[n - 1]

\* The scan comes to every place.
LEMMA ScanRuns ==
  ASSUME NEW m, Members(m)
  PROVE  \A k \in Nat : \E best \in [0..k -> Nat] : Scan(m, k, best)
<1> DEFINE Runs == {k \in Nat : \E best \in [0..k -> Nat] : Scan(m, k, best)}
           B == Nat \ Runs
<1>1. SUFFICES ASSUME B # {} PROVE FALSE
  OBVIOUS
<1>2. PICK k \in B : \A j \in B : ~ (<<j, k>> \in OpToRel(<, Nat))
  BY <1>1, NatLessThanWellFounded, WFMin
<1>3. \A j \in B : ~ (j < k)
  BY <1>2 DEF OpToRel
<1>4. DOMAIN m \in SUBSET Nat /\ DOMAIN m # {}
  BY DEF Members
<1>5. k # 0
  <2> DEFINE start == [n \in 0..0 |-> Least(DOMAIN m)]
  <2>1. start \in [0..0 -> Nat] /\ start[0] = Least(DOMAIN m)
    BY <1>4, LeastIs
  <2>2. Scan(m, 0, start)
    BY <2>1 DEF Scan
  <2> QED
    BY <2>1, <2>2
<1>6. k - 1 \in Nat /\ k - 1 \in Runs
  BY <1>3, <1>5
<1>7. PICK best \in [0..(k - 1) -> Nat] : Scan(m, k - 1, best)
  BY <1>6
<1> DEFINE next == IF k \in DOMAIN m /\ m[k].size > m[best[k - 1]].size
                     THEN k ELSE best[k - 1]
           more == [n \in 0..k |-> IF n = k THEN next ELSE best[n]]
<1>8. best[k - 1] \in Nat /\ next \in Nat
  BY <1>6, <1>7
<1> HIDE DEF next
<1>9. /\ more \in [0..k -> Nat] /\ more[k] = next
      /\ \A n \in 0..(k - 1) : more[n] = best[n]
  BY <1>6, <1>7, <1>8
<1>10. Scan(m, k, more)
  <2>1. more[0] = Least(DOMAIN m)
    BY <1>6, <1>7, <1>9 DEF Scan
  <2>2. ASSUME NEW n \in 1..k
        PROVE  more[n] = IF n \in DOMAIN m /\ m[n].size > m[more[n - 1]].size
                           THEN n ELSE more[n - 1]
    <3>1. CASE n = k
      <4>1. more[n - 1] = best[k - 1] /\ more[n] = next
        BY <1>6, <1>9, <3>1
      <4> QED
        BY <3>1, <4>1 DEF next
    <3>2. CASE n # k
      <4>1. n \in 1..(k - 1) /\ n - 1 \in 0..(k - 1) /\ n \in 0..(k - 1)
        BY <3>2, <1>6
      <4>2. more[n] = best[n] /\ more[n - 1] = best[n - 1]
        BY <1>9, <4>1
      <4> QED
        BY <1>7, <4>1, <4>2 DEF Scan
    <3> QED
      BY <3>1, <3>2
  <2> QED
    BY <2>1, <2>2 DEF Scan
<1> QED
  BY <1>9, <1>10

\* It keeps a place whose cluster is at least as large as any before, and
\* larger than those before it.
LEMMA ScanKeeps ==
  ASSUME NEW m, Members(m), NEW k \in Nat, NEW best, Scan(m, k, best)
  PROVE  \A n \in 0..k :
           /\ best[n] \in DOMAIN m
           /\ \A j \in DOMAIN m : j <= n => m[j].size <= m[best[n]].size
           /\ \A j \in DOMAIN m : j < best[n] => m[j].size < m[best[n]].size
<1> DEFINE Kept(n) ==
             /\ best[n] \in DOMAIN m
             /\ \A j \in DOMAIN m : j <= n => m[j].size <= m[best[n]].size
             /\ \A j \in DOMAIN m : j < best[n] => m[j].size < m[best[n]].size
           B == {n \in 0..k : ~ Kept(n)}
<1>0. /\ DOMAIN m \in SUBSET Nat /\ DOMAIN m # {} /\ \A i \in DOMAIN m : m[i].size \in Nat
      /\ \A i \in DOMAIN m : i \in Nat /\ i >= 1
  BY DEF Members
<1>1. SUFFICES ASSUME B # {} PROVE FALSE
  OBVIOUS
<1>n. B \subseteq Nat
  OBVIOUS
<1>2. PICK n \in B : \A j \in B : ~ (<<j, n>> \in OpToRel(<, Nat))
  BY <1>1, <1>n, NatLessThanWellFounded, WFMin
<1>3. \A j \in B : ~ (j < n)
  <2> HIDE DEF B
  <2> QED
    BY <1>2, <1>n DEF OpToRel
<1>4. n # 0
  <2>1. best[0] = Least(DOMAIN m)
    BY DEF Scan
  <2>2. Least(DOMAIN m) \in DOMAIN m /\ \A j \in DOMAIN m : Least(DOMAIN m) <= j
    BY <1>0, LeastIs
  <2>3. Kept(0)
    BY <1>0, <2>1, <2>2
  <2> QED
    BY <2>3
<1>5. n \in 1..k /\ n - 1 \in 0..k /\ Kept(n - 1)
  <2>1. n \in 1..k /\ n - 1 \in 0..k /\ n - 1 < n
    BY <1>4
  <2> QED
    BY <1>3, <2>1
<1>6. best[n] = IF n \in DOMAIN m /\ m[n].size > m[best[n - 1]].size
                  THEN n ELSE best[n - 1]
  BY <1>5 DEF Scan
<1>7. CASE n \in DOMAIN m /\ m[n].size > m[best[n - 1]].size
  <2>1. best[n] = n
    BY <1>6, <1>7
  <2>2. ASSUME NEW j \in DOMAIN m, j < n PROVE m[j].size < m[n].size
    <3>1. j <= n - 1
      BY <1>0, <1>5, <2>2
    <3>2. m[j].size <= m[best[n - 1]].size
      BY <1>5, <3>1
    <3> QED
      BY <1>0, <1>5, <1>7, <3>2
  <2>3. ASSUME NEW j \in DOMAIN m, j <= n PROVE m[j].size <= m[n].size
    <3>1. CASE j = n
      BY <1>0, <3>1
    <3>2. CASE j # n
      <4>1. j < n /\ m[j].size \in Nat /\ m[n].size \in Nat
        BY <1>0, <1>5, <1>7, <2>3, <3>2
      <4> QED
        BY <2>2, <4>1
    <3> QED
      BY <3>1, <3>2
  <2>4. Kept(n)
    BY <1>7, <2>1, <2>2, <2>3
  <2> QED
    BY <2>4
<1>8. CASE ~(n \in DOMAIN m /\ m[n].size > m[best[n - 1]].size)
  <2>1. best[n] = best[n - 1] /\ best[n - 1] \in DOMAIN m
    BY <1>5, <1>6, <1>8
  <2>2. ASSUME NEW j \in DOMAIN m, j <= n PROVE m[j].size <= m[best[n - 1]].size
    <3>1. CASE j = n
      BY <1>0, <1>8, <2>1, <3>1
    <3>2. CASE j # n
      <4>1. j <= n - 1
        BY <1>0, <1>5, <2>2, <3>2
      <4> QED
        BY <1>5, <4>1
    <3> QED
      BY <3>1, <3>2
  <2>3. Kept(n)
    BY <1>5, <2>1, <2>2
  <2> QED
    BY <2>3
<1> QED
  BY <1>7, <1>8

\* The worker's scan finds the cluster that the pipeline's max() finds: both
\* keep the first of the largest.
LEMMA ScanIsMax ==
  ASSUME NEW m, Members(m), Len(clusters) \in Nat
  PROVE  /\ LargestScanned(m) = Biggest(m)
         /\ \E i \in DOMAIN m : /\ Biggest(m) = m[i]
                                /\ \A j \in DOMAIN m : m[j].size <= m[i].size
<1> DEFINE Step(b, n) == IF n = 0 THEN Least(DOMAIN m)
                         ELSE IF n \in DOMAIN m /\ m[n].size > m[b[n - 1]].size
                         THEN n ELSE b[n - 1]
           Run(b) == b = [n \in 0..Len(clusters) |-> Step(b, n)]
<1>1. PICK k \in Nat : k = Len(clusters)
  OBVIOUS
<1>2. PICK run \in [0..k -> Nat] : Scan(m, k, run)
  BY <1>1, ScanRuns
<1>3. Run(run)
  <2>1. \A n \in 0..k : run[n] = Step(run, n)
    <3>1. run[0] = Step(run, 0)
      BY <1>2 DEF Scan
    <3>2. ASSUME NEW n \in 1..k PROVE run[n] = Step(run, n)
      BY <1>2, <3>2 DEF Scan
    <3>3. \A n \in 0..k : n = 0 \/ n \in 1..k
      BY <1>1
    <3> HIDE DEF Step
    <3> QED
      BY <3>1, <3>2, <3>3
  <2> HIDE DEF Step
  <2> QED
    BY <1>1, <1>2, <2>1
<1> HIDE DEF Step
<1>4. PICK best : best = (CHOOSE b : Run(b)) /\ Run(best)
  BY <1>3
<1>5. LargestScanned(m) = m[best[k]]
  BY <1>1, <1>4 DEF LargestScanned, Step
<1>6. Scan(m, k, best)
  <2>1. \A n \in 0..k : best[n] = Step(best, n)
    BY <1>1, <1>4
  <2>2. best[0] = Least(DOMAIN m)
    <3>1. best[0] = Step(best, 0)
      BY <1>1, <2>1
    <3> QED
      BY <3>1 DEF Step
  <2>3. ASSUME NEW n \in 1..k
        PROVE  best[n] = IF n \in DOMAIN m /\ m[n].size > m[best[n - 1]].size
                           THEN n ELSE best[n - 1]
    <3>1. n \in 0..k /\ n # 0
      BY <1>1
    <3>2. best[n] = Step(best, n)
      BY <2>1, <3>1
    <3> QED
      BY <3>1, <3>2 DEF Step
  <2> QED
    BY <2>2, <2>3 DEF Scan
<1> DEFINE i == best[k]
<1>7. /\ i \in DOMAIN m
      /\ \A j \in DOMAIN m : j <= k => m[j].size <= m[i].size
      /\ \A j \in DOMAIN m : j < i => m[j].size < m[i].size
  <2>1. k \in 0..k
    BY <1>1
  <2> QED
    BY <1>1, <1>6, <2>1, ScanKeeps
<1>8. /\ DOMAIN m \in SUBSET Nat /\ \A j \in DOMAIN m : j <= k /\ m[j].size \in Nat
  BY <1>1 DEF Members
<1>9. \A j \in DOMAIN m : m[j].size <= m[i].size
  BY <1>7, <1>8
<1> HIDE DEF i
<1> DEFINE Large == {j \in DOMAIN m : \A l \in DOMAIN m : m[l].size <= m[j].size}
<1>10. Least(Large) = i
  <2>1. Large \in SUBSET Nat /\ i \in Large
    BY <1>7, <1>8, <1>9
  <2>2. ASSUME NEW j \in Large PROVE i <= j
    <3>1. m[i].size <= m[j].size /\ m[i].size \in Nat /\ m[j].size \in Nat /\ j \in DOMAIN m
      BY <1>7, <1>8
    <3>2. ~(j < i)
      BY <1>7, <3>1
    <3> QED
      BY <2>1, <1>8, <1>7, <3>1, <3>2
  <2> HIDE DEF Large
  <2>3. PICK S : S = Large
    OBVIOUS
  <2>4. Least(S) = i
    <3>1. PICK n : n = i
      OBVIOUS
    <3> QED
      BY <2>1, <2>2, <2>3, <3>1, LeastOf
  <2> QED
    BY <2>3, <2>4
<1>11. Biggest(m) = m[i]
  BY <1>10 DEF Biggest
<1> QED
  BY <1>5, <1>7, <1>9, <1>11 DEF i

----------------------------------------------------------------------------
(* The clusters of a batch.                                                *)

\* What a list is made of is a finite set, and no longer than the list.
LEMMA ListFinite ==
  ASSUME NEW s, s \in Seq(Range(s))
  PROVE  IsFiniteSet(Range(s)) /\ Len(s) \in Nat /\ DOMAIN s = 1..Len(s)
<1>1. Len(s) \in Nat /\ s \in [1..Len(s) -> Range(s)] /\ DOMAIN s = 1..Len(s)
  BY LenProperties
<1>2. s \in Surjection(1..Len(s), Range(s))
  BY <1>1 DEF Surjection, Range
<1>3. IsFiniteSet(1..Len(s))
  BY <1>1, FS_Interval
<1> QED
  BY <1>1, <1>2, <1>3, FS_Surjection

\* A function on the first n numbers is a list.
LEMMA IsList ==
  ASSUME NEW s, NEW n \in Nat, s \in [1..n -> Range(s)]
  PROVE  s \in Seq(Range(s)) /\ Len(s) = n /\ DOMAIN s = 1..n
OBVIOUS

\* A cluster of some of the addresses, found by one of the four methods.
Legal(c, addresses) ==
  /\ c.size \in Nat /\ c.addresses \subseteq addresses
  /\ c.size > 0 => c.addresses # {}
  /\ c.method \in DOMAIN ItemOfMethod /\ c.id.method = c.method

\* A list of such clusters.
Found(s, addresses) ==
  s \in Seq(Range(s)) /\ \A i \in DOMAIN s : Legal(s[i], addresses)

LEMMA ClusterLegal ==
  ASSUME NEW method \in DOMAIN ItemOfMethod, NEW nodes, NEW size \in Nat, NEW confidence,
         NEW addresses, {n[2] : n \in nodes} \subseteq addresses, size > 0 => nodes # {}
  PROVE  Legal(Cluster(method, nodes, size, confidence), addresses)
<1> DEFINE c == Cluster(method, nodes, size, confidence)
<1>1. /\ c.size = size /\ c.addresses = {n[2] : n \in nodes} /\ c.method = method
      /\ c.id.method = method
  BY DEF Cluster
<1>2. nodes # {} => {n[2] : n \in nodes} # {}
  OBVIOUS
<1> HIDE DEF c
<1>3. Legal(c, addresses)
  BY <1>1, <1>2 DEF Legal
<1> QED
  BY <1>3 DEF c

LEMMA FoundConcat ==
  ASSUME NEW addresses, NEW s, NEW t, Found(s, addresses), Found(t, addresses)
  PROVE  /\ Found(s \o t, addresses)
         /\ s = << >> /\ t = << >> => s \o t = << >>
<1> DEFINE S == Range(s) \cup Range(t)
<1>1. s \in Seq(Range(s)) /\ t \in Seq(Range(t))
  BY DEF Found
<1>2. s \in Seq(S) /\ t \in Seq(S)
  BY <1>1
<1>3. \A c \in S : Legal(c, addresses)
  BY DEF Found, Range
<1> HIDE DEF S
<1>4. /\ s \o t \in Seq(S) /\ Len(s \o t) = Len(s) + Len(t)
      /\ Len(s) \in Nat /\ Len(t) \in Nat
  BY <1>2, ConcatProperties, LenProperties
<1>5. s \o t \in Seq(Range(s \o t))
  BY <1>4, SeqOfRange
<1>6. \A i \in DOMAIN (s \o t) : (s \o t)[i] \in S
  BY <1>4, LenProperties
<1>7. Found(s \o t, addresses)
  BY <1>3, <1>5, <1>6 DEF Found
<1>8. s = << >> /\ t = << >> => s \o t = << >>
  OBVIOUS
<1> QED
  BY <1>7, <1>8

\* A set of groups of addresses, each made a cluster.
LEMMA GroupsFound ==
  ASSUME NEW method \in DOMAIN ItemOfMethod, NEW chain, NEW addresses, IsFiniteSet(addresses),
         NEW groups \in SUBSET (SUBSET addresses)
  PROVE  /\ Found(ClustersOf(method, chain, groups), addresses)
         /\ groups = {} => ClustersOf(method, chain, groups) = << >>
<1> DEFINE n == Cardinality(groups)
           order == SetToSeq(groups)
           s == [i \in DOMAIN order |->
                   Cluster(method, On(chain, order[i]), Cardinality(order[i]), 50)]
<1>1. IsFiniteSet(groups)
  BY FS_SUBSET, FS_Subset
<1>2. n \in Nat /\ order \in [1..n -> groups]
  BY <1>1, SetToSeqLists
<1>3. ASSUME NEW i \in 1..n PROVE Legal(s[i], addresses)
  <2>1. PICK g \in SUBSET addresses : g = order[i]
    BY <1>2
  <2>2. Cardinality(g) \in Nat /\ (Cardinality(g) > 0 => g # {})
    BY FS_Subset, FS_CardinalityType, FS_EmptySet
  <2>3. {m[2] : m \in On(chain, g)} \subseteq addresses /\ (g # {} => On(chain, g) # {})
    <3>1. \A m \in On(chain, g) : m[2] \in g
      BY DEF On
    <3>2. \A a \in g : <<chain, a>> \in On(chain, g)
      BY DEF On
    <3>3. g # {} => On(chain, g) # {}
      BY <3>2
    <3> QED
      BY <2>1, <3>1, <3>3
  <2>4. Legal(Cluster(method, On(chain, g), Cardinality(g), 50), addresses)
    BY <2>2, <2>3, ClusterLegal
  <2> QED
    BY <1>2, <2>1, <2>4
<1>4. s = ClustersOf(method, chain, groups)
  BY DEF ClustersOf
<1>5. DOMAIN s = 1..n /\ s \in [1..n -> Range(s)]
  BY <1>2 DEF Range
<1> HIDE DEF s
<1>6. s \in Seq(Range(s)) /\ Len(s) = n
  BY <1>2, <1>5, IsList
<1>7. groups = {} => s = << >>
  BY <1>6, FS_EmptySet
<1> QED
  BY <1>3, <1>4, <1>5, <1>6, <1>7 DEF Found

\* Groups with a funder in common, of at least a given size.
LEMMA FundingFound ==
  ASSUME NEW chain, NEW batch, IsFiniteSet(DOMAIN batch), NEW least \in Nat
  PROVE  /\ Found(ClusterByFundingSource(chain, batch, least), DOMAIN batch)
         /\ Cardinality(DOMAIN batch) < least
              => ClusterByFundingSource(chain, batch, least) = << >>
<1> DEFINE kept == {g \in FundingGroups(batch) :
                      Cardinality(g) >= least /\ FundingTimes(batch, g) # {}}
           n == Cardinality(kept)
           order == SetToSeq(kept)
           s == [i \in DOMAIN order |->
                   Cluster("funding", On(chain, order[i]), Cardinality(order[i]),
                           SpreadConfidence(FundingTimes(batch, order[i])))]
<1>0. kept \subseteq SUBSET DOMAIN batch
  BY DEF FundingGroups, FundedBy
<1>1. IsFiniteSet(kept)
  BY <1>0, FS_SUBSET, FS_Subset
<1>2. n \in Nat /\ order \in [1..n -> kept]
  BY <1>1, SetToSeqLists
<1>3. ASSUME NEW i \in 1..n PROVE Legal(s[i], DOMAIN batch)
  <2>1. PICK g \in SUBSET DOMAIN batch : g = order[i]
    BY <1>0, <1>2
  <2>2. Cardinality(g) \in Nat /\ (Cardinality(g) > 0 => g # {})
    BY FS_Subset, FS_CardinalityType, FS_EmptySet
  <2>3. {m[2] : m \in On(chain, g)} \subseteq DOMAIN batch /\ (g # {} => On(chain, g) # {})
    <3>1. \A m \in On(chain, g) : m[2] \in g
      BY DEF On
    <3>2. \A a \in g : <<chain, a>> \in On(chain, g)
      BY DEF On
    <3>3. g # {} => On(chain, g) # {}
      BY <3>2
    <3> QED
      BY <2>1, <3>1, <3>3
  <2>4. "funding" \in DOMAIN ItemOfMethod
    BY DEF ItemOfMethod
  <2>5. Legal(Cluster("funding", On(chain, g), Cardinality(g),
                      SpreadConfidence(FundingTimes(batch, g))), DOMAIN batch)
    BY <2>2, <2>3, <2>4, ClusterLegal
  <2> QED
    BY <1>2, <2>1, <2>5
<1>4. s = ClusterByFundingSource(chain, batch, least)
  BY DEF ClusterByFundingSource
<1>5. DOMAIN s = 1..n /\ s \in [1..n -> Range(s)]
  BY <1>2 DEF Range
<1> HIDE DEF s
<1>6. s \in Seq(Range(s)) /\ Len(s) = n
  BY <1>2, <1>5, IsList
<1>7. ASSUME Cardinality(DOMAIN batch) < least PROVE s = << >>
  <2>1. ASSUME NEW g \in kept PROVE FALSE
    <3>1. g \in SUBSET DOMAIN batch /\ Cardinality(g) >= least
      BY <1>0
    <3>2. Cardinality(g) <= Cardinality(DOMAIN batch)
      BY <3>1, FS_Subset
    <3>3. Cardinality(g) \in Nat /\ Cardinality(DOMAIN batch) \in Nat
      BY <3>1, FS_Subset, FS_CardinalityType
    <3> QED
      BY <1>7, <3>1, <3>2, <3>3
  <2> HIDE DEF kept
  <2>2. kept = {}
    BY <2>1
  <2> QED
    BY <1>6, <2>2, FS_EmptySet
<1> QED
  BY <1>3, <1>4, <1>5, <1>6, <1>7 DEF Found

\* Accounts linked across chains.
LEMMA LinksFound ==
  ASSUME NEW batch, IsFiniteSet(DOMAIN batch), NEW addresses, IsFiniteSet(addresses),
         \A c \in DOMAIN batch : DOMAIN batch[c] = addresses
  PROVE  \A links \in LinkCrossChain(batch) : Found(links, addresses)
<1> DEFINE nodes == NodesOf(batch)
           kept == {e \in {Entity(batch, m) : m \in NodesOf(batch)} :
                      Cardinality(e) >= 3 /\ Cardinality({m[1] : m \in e}) >= 2}
           n == Cardinality(kept)
           Listed(order) == [i \in DOMAIN order |->
                               Cluster("cross_chain", order[i], Cardinality(order[i]), 85)]
<1>0. /\ nodes \subseteq (DOMAIN batch) \X addresses
      /\ \A m \in NodesOf(batch) : Entity(batch, m) \subseteq nodes
  <2>1. nodes \subseteq (DOMAIN batch) \X addresses
    BY DEF NodesOf, On
  <2>2. \A m \in NodesOf(batch) : Entity(batch, m) \subseteq nodes
    BY DEF Entity
  <2> QED
    BY <2>1, <2>2
<1>1. IsFiniteSet(nodes) /\ kept \subseteq SUBSET nodes
  <2>1. IsFiniteSet((DOMAIN batch) \X addresses)
    BY FS_Product
  <2>2. IsFiniteSet(nodes)
    BY <1>0, <2>1, FS_Subset
  <2> QED
    BY <1>0, <2>2
<1>2. n \in Nat
  <2>1. IsFiniteSet(kept)
    BY <1>1, FS_SUBSET, FS_Subset
  <2> QED
    BY <2>1, FS_CardinalityType
<1>3. SUFFICES ASSUME NEW order \in SetToSeqs(kept) PROVE Found(Listed(order), addresses)
  BY DEF LinkCrossChain
<1> DEFINE s == Listed(order)
<1>4. order \in [1..n -> kept]
  BY DEF SetToSeqs
<1>5. ASSUME NEW i \in 1..n PROVE Legal(s[i], addresses)
  <2>1. PICK e \in SUBSET nodes : e = order[i]
    BY <1>1, <1>4
  <2>2. Cardinality(e) \in Nat /\ (Cardinality(e) > 0 => e # {})
    BY <1>1, FS_Subset, FS_CardinalityType, FS_EmptySet
  <2>3. {m[2] : m \in e} \subseteq addresses
    BY <1>0
  <2>4. "cross_chain" \in DOMAIN ItemOfMethod
    BY DEF ItemOfMethod
  <2>5. Legal(Cluster("cross_chain", e, Cardinality(e), 85), addresses)
    BY <2>2, <2>3, <2>4, ClusterLegal
  <2> QED
    BY <1>4, <2>1, <2>5
<1>6. DOMAIN s = 1..n /\ s \in [1..n -> Range(s)]
  BY <1>4 DEF Range
<1> HIDE DEF s
<1>7. s \in Seq(Range(s)) /\ Len(s) = n
  BY <1>2, <1>6, IsList
<1>8. Found(s, addresses)
  BY <1>5, <1>6, <1>7 DEF Found
<1> QED
  BY <1>8 DEF s

----------------------------------------------------------------------------
(* The inductive invariant: what each stage has found stays what the later *)
(* ones are made from.                                                     *)

IsAccepted ==
  job \in Jobs /\ stage \in {"accepted", "ingested", "clustered", "answered", "stored"}

IsIngested ==
  stage # "accepted" => /\ DOMAIN batches = Chains
                        /\ \A c \in Chains : DOMAIN batches[c] = Addresses

\* One address on one chain is in no cluster and in no pair.
IsClustered ==
  stage \in {"clustered", "answered", "stored"} =>
    /\ features = ExtractAllFeatures(batches[Primary])
    /\ Found(clusters, Addresses)
    /\ Cardinality(Addresses) = 1 /\ Cardinality(Chains) = 1
         => clusters = << >> /\ pairs = {}

FullScores == [a \in Addresses |-> ScoreRow(a)]

ClusterOnlySummary ==
  [total_scored |-> Entries(ClusterOnlyRows), sybil_count |-> 0, suspicious_count |-> 0,
   genuine_count |-> 0, cluster_count |-> Len(clusters),
   largest_cluster_size |-> LargestSize(clusters)]

IsAnswered ==
  stage \in {"answered", "stored"} =>
    /\ job.mode = "full"
         => reply = [scores |-> FullScores, summary |-> Summarize(FullScores)]
    /\ job.mode = "cluster_only"
         => reply = [scores |-> ClusterOnlyRows, summary |-> ClusterOnlySummary]

IsStored ==
  stage = "stored" =>
    LET decisions == [i \in DOMAIN reply.scores |-> DecisionOf(reply.scores[i])]
    IN /\ rows = [i \in DOMAIN decisions |->
                    [score |-> reply.scores[i], verdict |-> decisions[i]]]
       /\ tally = [drop   |-> Decided(decisions, "DROP"),
                   review |-> Decided(decisions, "REVIEW"),
                   keep   |-> Decided(decisions, "KEEP")]

PipelineInv == IsAccepted /\ IsIngested /\ IsClustered /\ IsAnswered /\ IsStored

LEMMA JobIs ==
  ASSUME NEW j \in Jobs
  PROVE  /\ IsFiniteSet(Range(j.listing)) /\ IsFiniteSet(j.chains) /\ Primary \in j.chains
         /\ j.mode \in {"full", "cluster_only"} /\ j.preset \in PresetNames
         /\ j.listing \in Seq(Range(j.listing))
         /\ ~j.overrides.given => j.overrides = NoOverrides
<1>1. /\ j.listing \in Seq(Range(j.listing))
      /\ IsFiniteSet(DOMAIN HistoriesOn) /\ j.chains \subseteq DOMAIN HistoriesOn
  BY PipelineAssumption
<1>2. IsFiniteSet(Range(j.listing))
  <2>1. PICK s : s = j.listing
    OBVIOUS
  <2> QED
    BY <1>1, <2>1, ListFinite
<1>3. IsFiniteSet(j.chains)
  BY <1>1, FS_Subset
<1> QED
  BY <1>1, <1>2, <1>3, PipelineAssumption

\* Every stage finds the clusters of the batch, and none of one address.
LEMMA FindClustersFinds ==
  ASSUME PipelineInv, FindClusters
  PROVE  IsClustered'
<1>1. PICK batch, ads, chs, j : /\ batch = batches /\ ads = Addresses /\ chs = Chains
                                /\ j = job
  OBVIOUS
<1>2. /\ IsFiniteSet(ads) /\ IsFiniteSet(chs) /\ Primary \in chs
      /\ DOMAIN batch = chs /\ \A c \in chs : DOMAIN batch[c] = ads
  <2>1. j \in Jobs /\ ads = Range(j.listing) /\ chs = j.chains
    BY <1>1 DEF PipelineInv, IsAccepted, Addresses, Chains
  <2>2. stage = "ingested"
    BY DEF FindClusters
  <2> QED
    BY <1>1, <2>1, <2>2, JobIs DEF PipelineInv, IsIngested
<1> DEFINE funded == ClusterByFundingSource(Primary, batch[Primary], 3)
           paired == ClusterByFundingSource(Primary, batch[Primary], 2)
<1>3. PICK b \in BehaviorGroupings(ads), g \in GraphGroupings(ads),
           linked \in IF Cardinality(chs) > 1 THEN LinkCrossChain(batch) ELSE {<< >>} :
        clusters' = funded \o ClustersOf("behavior", Primary, b)
                    \o ClustersOf("graph", Primary, g) \o linked
  BY <1>1 DEF FindClusters
<1> DEFINE behaving == ClustersOf("behavior", Primary, b)
           connected == ClustersOf("graph", Primary, g)
<1>4. b \in SUBSET (SUBSET ads) /\ g \in SUBSET (SUBSET ads)
  BY DEF BehaviorGroupings, GraphGroupings
<1>5. "behavior" \in DOMAIN ItemOfMethod /\ "graph" \in DOMAIN ItemOfMethod
  BY DEF ItemOfMethod
<1>6. Found(funded, ads) /\ Found(behaving, ads) /\ Found(connected, ads)
  <2>1. PICK primary : primary = batch[Primary] /\ DOMAIN primary = ads
    BY <1>2
  <2>2. Found(ClusterByFundingSource(Primary, primary, 3), ads)
    BY <1>2, <2>1, FundingFound
  <2>3. Found(behaving, ads) /\ Found(connected, ads)
    BY <1>2, <1>4, <1>5, GroupsFound
  <2> QED
    BY <2>1, <2>2, <2>3
<1>7. Found(linked, ads)
  <2>1. CASE Cardinality(chs) > 1
    BY <1>2, <2>1, LinksFound
  <2>2. CASE ~(Cardinality(chs) > 1)
    <3>1. << >> \in Seq(Range(<< >>))
      BY EmptySeq
    <3> QED
      BY <2>2, <3>1 DEF Found
  <2> QED
    BY <2>1, <2>2
<1>8. ASSUME Cardinality(ads) = 1, Cardinality(chs) = 1
      PROVE  funded = << >> /\ paired = << >> /\ behaving = << >> /\ connected = << >>
             /\ linked = << >>
  <2>1. PICK primary : primary = batch[Primary] /\ DOMAIN primary = ads
    BY <1>2
  <2>2. /\ ClusterByFundingSource(Primary, primary, 3) = << >>
        /\ ClusterByFundingSource(Primary, primary, 2) = << >>
    BY <1>2, <1>8, <2>1, FundingFound
  <2>3. \A group \in SUBSET ads : Cardinality(group) \in {0, 1}
    <3>1. ASSUME NEW group \in SUBSET ads PROVE Cardinality(group) \in {0, 1}
      <4>1. IsFiniteSet(group) /\ Cardinality(group) <= 1
        BY <1>2, <1>8, FS_Subset
      <4>2. Cardinality(group) \in Nat
        BY <4>1, FS_CardinalityType
      <4> QED
        BY <4>1, <4>2
    <3> QED
      BY <3>1
  <2>4. b = {} /\ g = {}
    <3>1. \A group \in b : Cardinality(group) >= BehaviorMin
      BY DEF BehaviorGroupings
    <3>2. \A group \in g : Cardinality(group) \in GraphMin..GraphMax
      BY DEF GraphGroupings
    <3>3. BehaviorMin \in Nat \ {0, 1} /\ GraphMin \in Nat \ {0, 1} /\ GraphMax \in Nat
      BY PipelineAssumption
    <3> QED
      BY <1>4, <2>3, <3>1, <3>2, <3>3
  <2>5. behaving = << >> /\ connected = << >>
    BY <1>2, <1>4, <1>5, <2>4, GroupsFound
  <2> QED
    BY <1>8, <2>1, <2>2, <2>5
<1> DEFINE c1 == funded \o behaving
           c2 == c1 \o connected
           all == c2 \o linked
<1> HIDE DEF funded, paired, behaving, connected
<1>9. /\ Found(all, ads)
      /\ Cardinality(ads) = 1 /\ Cardinality(chs) = 1 => all = << >>
  <2>1. Found(c1, ads) /\ (Cardinality(ads) = 1 /\ Cardinality(chs) = 1 => c1 = << >>)
    BY <1>6, <1>8, FoundConcat
  <2> HIDE DEF c1
  <2>2. Found(c2, ads) /\ (Cardinality(ads) = 1 /\ Cardinality(chs) = 1 => c2 = << >>)
    BY <1>6, <1>8, <2>1, FoundConcat
  <2> HIDE DEF c2
  <2> QED
    BY <1>7, <1>8, <2>2, FoundConcat
<1>10. clusters' = all
  BY <1>3 DEF behaving, connected
<1> HIDE DEF all
<1>11. Cardinality(ads) = 1 /\ Cardinality(chs) = 1 => pairs' = {}
  <2>1. pairs' \subseteq Range(paired) \/ pairs' = {}
    BY <1>1 DEF FindClusters, paired
  <2>2. paired = << >> => Range(paired) = {}
    BY DEF Range
  <2> QED
    BY <1>8, <2>1, <2>2
<1>12. /\ features' = ExtractAllFeatures(batches[Primary]) /\ batches' = batches
       /\ Addresses' = ads /\ Chains' = chs
  BY <1>1 DEF FindClusters, Addresses, Chains
<1> QED
  BY <1>9, <1>10, <1>11, <1>12 DEF IsClustered

\* What is read of a state that a later stage leaves alone.
LEMMA Unchanged ==
  ASSUME UNCHANGED <<job, batches, features, clusters, pairs>>
  PROVE  /\ Chains' = Chains /\ Addresses' = Addresses
         /\ FullScores' = FullScores /\ Summarize(FullScores)' = Summarize(FullScores)
         /\ ClusterOnlyRows' = ClusterOnlyRows /\ ClusterOnlySummary' = ClusterOnlySummary
<1>1. Chains' = Chains /\ Addresses' = Addresses
  BY DEF Chains, Addresses
<1>2. \A a : ScoreRow(a)' = ScoreRow(a)
  BY DEF ScoreRow, ScoreOf, PairItems
<1>3. FullScores' = FullScores
  BY <1>1, <1>2 DEF FullScores
<1>4. \A s : Summarize(s)' = Summarize(s)
  BY DEF Summarize
<1>5. Summarize(FullScores)' = Summarize(FullScores)
  BY <1>3 DEF Summarize
<1>6. \A m : LargestScanned(m)' = LargestScanned(m)
  BY DEF LargestScanned
<1>7. ClusterOnlyRows' = ClusterOnlyRows
  BY DEF ClusterOnlyRows, LargestScanned
<1>8. ClusterOnlySummary' = ClusterOnlySummary
  BY <1>7 DEF ClusterOnlySummary
<1> QED
  BY <1>1, <1>3, <1>5, <1>7, <1>8

\* The invariant holds of every run, from the addresses to the stored rows.
THEOREM PipelineInvariant == Spec => []PipelineInv
<1>1. Init => PipelineInv
  BY DEF Init, PipelineInv, IsAccepted, IsIngested, IsClustered, IsAnswered, IsStored
<1>2. PipelineInv /\ [Next]_vars => PipelineInv'
  <2> SUFFICES ASSUME PipelineInv, [Next]_vars PROVE PipelineInv'
    OBVIOUS
  <2>1. CASE Ingest
    <3>1. /\ stage' = "ingested" /\ job' = job
          /\ DOMAIN batches' = Chains /\ \A c \in Chains : DOMAIN batches'[c] = Addresses
      BY <2>1 DEF Ingest
    <3>2. Chains' = Chains /\ Addresses' = Addresses
      BY <3>1 DEF Chains, Addresses
    <3> QED
      BY <3>1, <3>2
      DEF PipelineInv, IsAccepted, IsIngested, IsClustered, IsAnswered, IsStored
  <2>2. CASE FindClusters
    <3>1. IsClustered'
      BY <2>2, FindClustersFinds
    <3>2. stage = "ingested" /\ stage' = "clustered" /\ job' = job /\ batches' = batches
      BY <2>2 DEF FindClusters
    <3>3. Chains' = Chains /\ Addresses' = Addresses
      BY <3>2 DEF Chains, Addresses
    <3>4. IsAccepted' /\ IsIngested' /\ IsAnswered' /\ IsStored'
      BY <3>2, <3>3 DEF PipelineInv, IsAccepted, IsIngested, IsAnswered, IsStored
    <3> QED
      BY <3>1, <3>4 DEF PipelineInv
  <2>3. CASE ScoreAndExplain
    <3>1. /\ stage = "clustered" /\ stage' = "answered" /\ job.mode = "full"
          /\ reply' = [scores |-> FullScores, summary |-> Summarize(FullScores)]
          /\ UNCHANGED <<job, batches, features, clusters, pairs>>
      BY <2>3 DEF ScoreAndExplain, FullScores
    <3>2. IsAccepted' /\ IsIngested' /\ IsClustered'
      BY <3>1, Unchanged DEF PipelineInv, IsAccepted, IsIngested, IsClustered
    <3>3. IsAnswered' /\ IsStored'
      BY <3>1, Unchanged DEF IsAnswered, IsStored
    <3> QED
      BY <3>2, <3>3 DEF PipelineInv
  <2>4. CASE NormaliseClusterOnly
    <3>1. /\ stage = "clustered" /\ stage' = "answered" /\ job.mode = "cluster_only"
          /\ reply' = [scores |-> ClusterOnlyRows, summary |-> ClusterOnlySummary]
          /\ UNCHANGED <<job, batches, features, clusters, pairs>>
      BY <2>4 DEF NormaliseClusterOnly, ClusterOnlySummary
    <3>2. IsAccepted' /\ IsIngested' /\ IsClustered'
      BY <3>1, Unchanged DEF PipelineInv, IsAccepted, IsIngested, IsClustered
    <3>3. IsAnswered' /\ IsStored'
      BY <3>1, Unchanged DEF IsAnswered, IsStored
    <3> QED
      BY <3>2, <3>3 DEF PipelineInv
  <2>5. CASE EnrichAndStore
    <3> DEFINE decisions == [i \in DOMAIN reply.scores |-> DecisionOf(reply.scores[i])]
    <3>1. /\ stage = "answered" /\ stage' = "stored"
          /\ UNCHANGED <<job, batches, features, clusters, pairs>> /\ reply' = reply
          /\ rows' = [i \in DOMAIN decisions |->
                        [score |-> reply.scores[i], verdict |-> decisions[i]]]
          /\ tally' = [drop   |-> Decided(decisions, "DROP"),
                       review |-> Decided(decisions, "REVIEW"),
                       keep   |-> Decided(decisions, "KEEP")]
      BY <2>5 DEF EnrichAndStore
    <3>2. IsAccepted' /\ IsIngested' /\ IsClustered'
      BY <3>1, Unchanged DEF PipelineInv, IsAccepted, IsIngested, IsClustered
    <3>3. IsAnswered'
      BY <3>1, Unchanged DEF PipelineInv, IsAnswered
    <3>4. \A row : DecisionOf(row)' = DecisionOf(row)
      BY <3>1 DEF DecisionOf
    <3>5. decisions' = decisions
      BY <3>1, <3>4 DEF DecisionOf
    <3> HIDE DEF decisions
    <3>6. IsStored'
      BY <3>1, <3>5 DEF IsStored, decisions
    <3> QED
      BY <3>2, <3>3, <3>6 DEF PipelineInv
  <2>6. CASE UNCHANGED vars
    <3>1. /\ UNCHANGED <<job, batches, features, clusters, pairs>>
          /\ UNCHANGED <<stage, reply, rows, tally>>
      BY <2>6 DEF vars
    <3>2. IsAccepted' /\ IsIngested' /\ IsClustered' /\ IsAnswered'
      BY <3>1, Unchanged
      DEF PipelineInv, IsAccepted, IsIngested, IsClustered, IsAnswered
    <3>3. IsStored'
      BY <3>1 DEF PipelineInv, IsStored, DecisionOf
    <3> QED
      BY <3>2, <3>3 DEF PipelineInv
  <2> QED
    BY <2>1, <2>2, <2>3, <2>4, <2>5, <2>6 DEF Next
<1> QED
  BY <1>1, <1>2, PTL DEF Spec

----------------------------------------------------------------------------
(* What follows for the stored rows.                                       *)

\* The cluster that an address is shown in is one of the run that holds it,
\* and none that holds it is larger.
LEMMA ShownCluster ==
  ASSUME Found(clusters, Addresses), NEW a, ~Alone(ClustersWith(clusters, a))
  PROVE  /\ LargestScanned(ClustersWith(clusters, a)) = Biggest(ClustersWith(clusters, a))
         /\ \E i \in DOMAIN clusters :
              /\ Biggest(ClustersWith(clusters, a)) = clusters[i]
              /\ a \in clusters[i].addresses
              /\ \A j \in DOMAIN clusters :
                   a \in clusters[j].addresses => clusters[j].size <= clusters[i].size
<1>1. PICK m : m = ClustersWith(clusters, a)
  OBVIOUS
<1>2. /\ DOMAIN m = {i \in DOMAIN clusters : a \in clusters[i].addresses}
      /\ \A i \in DOMAIN m : m[i] = clusters[i]
  BY <1>1 DEF ClustersWith, Restrict
<1>3. DOMAIN clusters = 1..Len(clusters) /\ Len(clusters) \in Nat
  BY LenProperties DEF Found
<1>4. Members(m)
  <2>1. DOMAIN m # {}
    BY <1>1 DEF Alone
  <2>2. \A i \in DOMAIN m : m[i].size \in Nat
    BY <1>2 DEF Found, Legal
  <2> QED
    BY <1>2, <1>3, <2>1, <2>2 DEF Members
<1>5. /\ LargestScanned(m) = Biggest(m)
      /\ \E i \in DOMAIN m : /\ Biggest(m) = m[i]
                             /\ \A j \in DOMAIN m : m[j].size <= m[i].size
  BY <1>3, <1>4, ScanIsMax
<1>6. PICK i \in DOMAIN m : Biggest(m) = m[i] /\ \A j \in DOMAIN m : m[j].size <= m[i].size
  BY <1>5
<1>7. /\ i \in DOMAIN clusters /\ Biggest(m) = clusters[i] /\ a \in clusters[i].addresses
      /\ \A j \in DOMAIN clusters :
           a \in clusters[j].addresses => clusters[j].size <= clusters[i].size
  BY <1>2, <1>6
<1> QED
  BY <1>1, <1>5, <1>7

\* The rows of a stored analysis.
LEMMA StoredRows ==
  ASSUME PipelineInv, stage = "stored"
  PROVE  /\ job.mode = "full" =>
              /\ DOMAIN rows = Addresses
              /\ \A a \in Addresses : /\ rows[a].score = ScoreRow(a)
                                      /\ rows[a].verdict = DecisionOf(ScoreRow(a))
         /\ job.mode = "cluster_only" =>
              /\ DOMAIN rows = DOMAIN ClusterOnlyRows
              /\ \A k \in DOMAIN rows : /\ rows[k].score = ClusterOnlyRows[k]
                                        /\ rows[k].verdict = NoDecision
         /\ Found(clusters, Addresses)
<1>1. rows = [i \in DOMAIN reply.scores |->
                [score |-> reply.scores[i], verdict |-> DecisionOf(reply.scores[i])]]
  BY DEF PipelineInv, IsStored
<1>2. ASSUME job.mode = "full"
      PROVE  /\ DOMAIN rows = Addresses
             /\ \A a \in Addresses : /\ rows[a].score = ScoreRow(a)
                                     /\ rows[a].verdict = DecisionOf(ScoreRow(a))
  <2>1. reply.scores = FullScores
    BY <1>2 DEF PipelineInv, IsAnswered
  <2>2. DOMAIN FullScores = Addresses /\ \A a \in Addresses : FullScores[a] = ScoreRow(a)
    BY DEF FullScores
  <2> QED
    BY <1>1, <2>1, <2>2
<1>3. ASSUME job.mode = "cluster_only"
      PROVE  /\ DOMAIN rows = DOMAIN ClusterOnlyRows
             /\ \A k \in DOMAIN rows : /\ rows[k].score = ClusterOnlyRows[k]
                                       /\ rows[k].verdict = NoDecision
  <2>1. reply.scores = ClusterOnlyRows
    BY <1>3 DEF PipelineInv, IsAnswered
  <2>2. \A row : DecisionOf(row) = NoDecision
    BY <1>3 DEF DecisionOf
  <2> QED
    BY <1>1, <2>1, <2>2
<1>4. Found(clusters, Addresses)
  BY DEF PipelineInv, IsClustered
<1> QED
  BY <1>2, <1>3, <1>4

\* A cluster_only analysis shows every address in the cluster that a full one
\* would, whatever the clusters and however many are of one size: the
\* worker's scan and the pipeline's max() break ties alike
\* (lib/cluster-only.ts, pipeline.py).
THEOREM ClusterOnlyAgrees == Spec => []ModesAgreeOnCluster
<1>1. PipelineInv => ModesAgreeOnCluster
  <2> SUFFICES ASSUME PipelineInv, StoredIn("cluster_only"), NEW k \in DOMAIN rows
               PROVE  rows[k].score.cluster_id
                        = IdOf(ClustersWith(clusters, rows[k].score.address))
    BY DEF ModesAgreeOnCluster
  <2>1. /\ DOMAIN rows = DOMAIN ClusterOnlyRows /\ rows[k].score = ClusterOnlyRows[k]
        /\ Found(clusters, Addresses)
    BY StoredRows DEF StoredIn
  <2>2. /\ ~Alone(ClustersWith(clusters, job.listing[k]))
        /\ rows[k].score.address = job.listing[k]
        /\ rows[k].score.cluster_id = LargestScanned(ClustersWith(clusters, job.listing[k])).id
    BY <2>1 DEF ClusterOnlyRows
  <2>3. LargestScanned(ClustersWith(clusters, job.listing[k]))
          = Biggest(ClustersWith(clusters, job.listing[k]))
    <3>1. PICK a : a = job.listing[k]
      OBVIOUS
    <3> QED
      BY <2>1, <2>2, <3>1, ShownCluster
  <2> QED
    BY <2>2, <2>3 DEF IdOf
<1> QED
  BY <1>1, PipelineInvariant, PTL

\* The features of the only address of a batch do not depend on its name.
LEMMA LoneFeatures ==
  ASSUME NEW batch, NEW a, DOMAIN batch = {a}, NEW one, one = [x \in {1} |-> batch[a]]
  PROVE  ExtractAllFeatures(batch)[a] = ExtractAllFeatures(one)[1]
<1> DEFINE h == batch[a]
           IsFunder == h.funder \notin {Nobody} \cup KnownExchanges
<1>1. DOMAIN one = {1} /\ one[1] = h
  OBVIOUS
<1>2. FundedBy(batch, h.funder) = IF IsFunder THEN {a} ELSE {}
  BY DEF FundedBy
<1>3. FundedBy(one, one[1].funder) = IF IsFunder THEN {1} ELSE {}
  BY <1>1 DEF FundedBy
<1>4. SameFunderCount(batch, a) = SameFunderCount(one, 1)
  <2>1. Cardinality({a}) = 1 /\ Cardinality({1}) = 1
    BY FS_Singleton
  <2> HIDE DEF IsFunder
  <2> QED
    BY <1>2, <1>3, <2>1 DEF SameFunderCount
<1>5. ExtractAllFeatures(batch)[a]
        = [temporal |-> TemporalFeatures(h),
           funding_source_is_exchange |-> h.funder \in KnownExchanges,
           same_funder_count |-> SameFunderCount(batch, a),
           total_tx_count |-> Len(h.stamps)]
  BY DEF ExtractAllFeatures
<1>6. ExtractAllFeatures(one)[1]
        = [temporal |-> TemporalFeatures(h),
           funding_source_is_exchange |-> h.funder \in KnownExchanges,
           same_funder_count |-> SameFunderCount(one, 1),
           total_tx_count |-> Len(h.stamps)]
  BY <1>1 DEF ExtractAllFeatures
<1> QED
  BY <1>4, <1>5, <1>6

\* First sight and an analysis of the address alone give the same score,
\* label and evidence, for every history and whether or not a model is
\* loaded (run_first_sight:246-254).
THEOREM FirstSightAgrees == Spec => []AloneIsFirstSight
<1>1. PipelineInv => AloneIsFirstSight
  <2> SUFFICES ASSUME PipelineInv, StoredIn("full"), Cardinality(Addresses) = 1,
                      Cardinality(Chains) = 1, NEW a \in DOMAIN rows
               PROVE  LET row == rows[a].score
                      IN RunFirstSight(batches[Primary][row.address])
                           = [sybil_score |-> row.sybil_score, label |-> row.label,
                              evidence |-> row.evidence]
    BY DEF AloneIsFirstSight
  <2>1. a \in Addresses /\ rows[a].score = ScoreRow(a)
    BY StoredRows DEF StoredIn
  <2>2. clusters = << >> /\ pairs = {} /\ features = ExtractAllFeatures(batches[Primary])
    BY DEF StoredIn, PipelineInv, IsClustered
  <2>3. DOMAIN batches[Primary] = {a}
    <3>1. Primary \in Chains /\ IsFiniteSet(Addresses)
      <4>1. PICK j \in Jobs : j = job
        BY DEF PipelineInv, IsAccepted
      <4> QED
        BY <4>1, JobIs DEF Chains, Addresses
    <3>2. DOMAIN batches[Primary] = Addresses
      BY <3>1 DEF StoredIn, PipelineInv, IsIngested
    <3>3. \E x : Addresses = {x}
      <4>1. PICK ads : ads = Addresses
        OBVIOUS
      <4> QED
        BY <3>1, <4>1, FS_Singleton
    <3> QED
      BY <2>1, <3>2, <3>3
  <2>4. ClustersWith(clusters, a) = << >>
    <3>1. DOMAIN clusters = {}
      BY <2>2
    <3> QED
      BY <3>1 DEF ClustersWith, Restrict
  <2>5. features[a] = ExtractAllFeatures([x \in {1} |-> batches[Primary][a]])[1]
    <3>1. PICK batch, b, one : /\ batch = batches[Primary] /\ b = a
                               /\ one = [x \in {1} |-> batches[Primary][a]]
      OBVIOUS
    <3>2. DOMAIN batch = {b} /\ one = [x \in {1} |-> batch[b]]
      BY <2>3, <3>1
    <3>3. ExtractAllFeatures(batch)[b] = ExtractAllFeatures(one)[1]
      BY <3>2, LoneFeatures
    <3> QED
      BY <2>2, <3>1, <3>3
  <2>6. PairItems(a) = {}
    BY <2>2 DEF PairItems
  <2> DEFINE f == ExtractAllFeatures([x \in {1} |-> batches[Primary][a]])[1]
             score == ScoreOf(f, << >>)
  <2>7. /\ ScoreRow(a).address = a /\ ScoreRow(a).sybil_score = score
        /\ ScoreRow(a).label = LabelFromScore(score)
        /\ ScoreRow(a).evidence = GenerateEvidence(score, f, << >>)
    BY <2>4, <2>5, <2>6 DEF ScoreRow
  <2>8. RunFirstSight(batches[Primary][a])
          = [sybil_score |-> score, label |-> LabelFromScore(score),
             evidence |-> GenerateEvidence(score, f, << >>)]
    BY DEF RunFirstSight
  <2> QED
    BY <2>1, <2>7, <2>8
<1> QED
  BY <1>1, PipelineInvariant, PTL

\* Every address from 40 on has evidence, and what it cites is of the run and
\* holds the address; below 40 nothing but a pair is cited
\* (generator.py:4-6, pipeline.py:111-127).
THEOREM EvidenceIsTraceable == Spec => []EvidenceTraceable
<1>1. PipelineInv => EvidenceTraceable
  <2> SUFFICES ASSUME PipelineInv, StoredIn("full"), NEW a \in DOMAIN rows
               PROVE  LET row == rows[a].score
                      IN /\ row.sybil_score >= 40 => row.evidence # {}
                         /\ row.sybil_score < 40 => row.evidence = PairItems(row.address)
                         /\ row.cluster_id # NoCluster =>
                              \E j \in DOMAIN clusters : clusters[j].id = row.cluster_id
                         /\ \A e \in row.evidence : e.cluster # NoCluster =>
                              \E c \in Range(clusters) \cup pairs :
                                c.id = e.cluster /\ row.address \in c.addresses
    BY DEF EvidenceTraceable
  <2> DEFINE m == ClustersWith(clusters, a)
             score == ScoreOf(features[a], m)
             items == ClusterItems(m) \cup RuleItems(features[a], m)
  <2>1. a \in Addresses /\ rows[a].score = ScoreRow(a) /\ Found(clusters, Addresses)
    BY StoredRows DEF StoredIn
  <2>2. /\ ScoreRow(a).address = a /\ ScoreRow(a).sybil_score = score
        /\ ScoreRow(a).cluster_id = IdOf(m)
        /\ ScoreRow(a).evidence = GenerateEvidence(score, features[a], m) \cup PairItems(a)
    BY DEF ScoreRow
  <2>3. GenerateEvidence(score, features[a], m)
          = IF score < 40 THEN {}
            ELSE IF items = {} THEN {Item("model_classification")} ELSE items
    BY DEF GenerateEvidence
  <2>4. score \in Int
    <3>1. ASSUME job.model PROVE score \in Int
      BY <3>1 DEF ScoreOf, Clip
    <3>2. ASSUME ~job.model PROVE score \in Int
      BY <3>2 DEF ScoreOf, RuleScore, If
    <3> QED
      BY <3>1, <3>2
  <2>5. IdOf(m) # NoCluster => \E j \in DOMAIN clusters : clusters[j].id = IdOf(m)
    <3>1. SUFFICES ASSUME ~Alone(m)
                   PROVE  \E j \in DOMAIN clusters : clusters[j].id = Biggest(m).id
      BY DEF IdOf
    <3>2. \E j \in DOMAIN clusters : Biggest(m) = clusters[j]
      <4>1. PICK b : b = a
        OBVIOUS
      <4> QED
        BY <2>1, <3>1, <4>1, ShownCluster
    <3> QED
      BY <3>2
  <2>6. ASSUME NEW e \in items, e.cluster # NoCluster
        PROVE  \E c \in Range(clusters) : c.id = e.cluster /\ a \in c.addresses
    <3>1. e \in ClusterItems(m)
      <4>1. \A r \in RuleItems(features[a], m) : \E t : r = Item(t)
        BY Zenon DEF RuleItems
      <4>2. \A t : Item(t).cluster = NoCluster
        BY DEF Item
      <4> QED
        BY <2>6, <4>1, <4>2
    <3>2. PICK i \in DOMAIN m : e.cluster = m[i].id
      BY <3>1 DEF ClusterItems
    <3>3. i \in DOMAIN clusters /\ m[i] = clusters[i] /\ a \in clusters[i].addresses
      BY <3>2 DEF ClustersWith, Restrict
    <3> QED
      BY <3>2, <3>3 DEF Range
  <2>7. ASSUME NEW e \in PairItems(a)
        PROVE  \E c \in pairs : c.id = e.cluster /\ a \in c.addresses
    BY <2>7 DEF PairItems
  <2>8. ASSUME NEW e \in GenerateEvidence(score, features[a], m), e.cluster # NoCluster
        PROVE  \E c \in Range(clusters) : c.id = e.cluster /\ a \in c.addresses
    <3> HIDE DEF items, score, m
    <3>1. e = Item("model_classification") => e.cluster = NoCluster
      BY DEF Item
    <3>2. e \in items
      BY <2>3, <2>8, <3>1
    <3> QED
      BY <2>6, <2>8, <3>2
  <2> HIDE DEF items, score, m
  <2>9. GenerateEvidence(score, features[a], m) # {} <=> ~(score < 40)
    BY <2>3
  <2>10. score < 40 => GenerateEvidence(score, features[a], m) = {}
    BY <2>3
  <2> QED
    BY <2>1, <2>2, <2>4, <2>5, <2>7, <2>8, <2>9, <2>10
<1> QED
  BY <1>1, PipelineInvariant, PTL

\* The rule of the preset that a drawer cites is met by the row, or the row is
\* one of a pair; and but for the pair's, the page has words for its codes.
LEMMA DrawerCites ==
  ASSUME NEW preset \in PresetNames, NEW score, NEW size, NEW evidence
  PROVE  LET verdict == ComputeDecision(score, size, preset, EvidenceToCodes(evidence),
                                        NoOverrides)
             cited   == DrawerRule(preset, verdict.decision)
         IN /\ verdict.decision # "KEEP" =>
                 \/ ScoreFires(score, cited) \/ SizeFires(size, cited)
                 \/ PairwiseCode \in verdict.codes
            /\ {c.code : c \in verdict.codes \ {PairwiseCode}} \subseteq ExplainCode
<1> DEFINE extra   == EvidenceToCodes(evidence)
           cfg     == PRESETS[preset]
           pairing == preset = "grant" /\ PairwiseCode \in extra
           verdict == ComputeDecision(score, size, preset, extra, NoOverrides)
           drops   == ScoreFires(score, cfg.drop) \/ SizeFires(size, cfg.drop)
           reviews == ScoreFires(score, cfg.review) \/ SizeFires(size, cfg.review)
           fired   == IF drops THEN FiredCodes(score, size, cfg.drop)
                      ELSE IF reviews \/ pairing THEN FiredCodes(score, size, cfg.review)
                      ELSE {}
<1>1. verdict = Decide(cfg, score, size, pairing, extra # {}, extra)
  <2>1. extra \cup (IF NoOverrides.given THEN {Code("custom_thresholds")} ELSE {}) = extra
    BY DEF NoOverrides
  <2>2. ResolveConfig(preset, NoOverrides) = cfg
    BY PresetKept
  <2> HIDE DEF extra, cfg
  <2> QED
    BY <2>1, <2>2 DEF ComputeDecision
<1> HIDE DEF extra, cfg, pairing
<1>2. /\ verdict.decision = IF drops THEN "DROP" ELSE IF reviews \/ pairing THEN "REVIEW"
                            ELSE "KEEP"
      /\ verdict.codes = extra \cup fired
  <2> DEFINE d == Decide(cfg, score, size, pairing, extra # {}, extra)
  <2>1. d.decision = IF drops THEN "DROP" ELSE IF reviews \/ pairing THEN "REVIEW" ELSE "KEEP"
    BY DEF Decide, Result
  <2>2. d.codes = extra \cup fired
    <3>1. CASE drops
      BY <3>1 DEF Decide, Result
    <3>2. CASE ~drops /\ (reviews \/ pairing)
      BY <3>2 DEF Decide, Result
    <3>3. CASE ~drops /\ ~(reviews \/ pairing)
      BY <3>3 DEF Decide, Result
    <3> QED
      BY <3>1, <3>2, <3>3
  <2> HIDE DEF d
  <2> QED
    BY <1>1, <2>1, <2>2 DEF d
<1> DEFINE cited == DrawerRule(preset, verdict.decision)
<1> HIDE DEF verdict, fired
<1>3. verdict.decision # "KEEP" => \/ ScoreFires(score, cited) \/ SizeFires(size, cited)
                                   \/ PairwiseCode \in verdict.codes
  <2>1. CASE drops
    <3>1. cited = cfg.drop
      BY <1>2, <2>1 DEF DrawerRule, PresetRuleText, cfg
    <3> HIDE DEF cited
    <3> QED
      BY <2>1, <3>1
  <2>2. CASE ~drops /\ reviews
    <3>1. cited = cfg.review
      BY <1>2, <2>2 DEF DrawerRule, PresetRuleText, cfg
    <3> HIDE DEF cited
    <3> QED
      BY <2>2, <3>1
  <2>3. CASE ~drops /\ ~reviews /\ pairing
    BY <1>2, <2>3 DEF pairing
  <2>4. CASE ~drops /\ ~reviews /\ ~pairing
    BY <1>2, <2>4
  <2> QED
    BY <2>1, <2>2, <2>3, <2>4
<1>4. ASSUME NEW c \in fired PROVE c.code \in ExplainCode
  BY <1>4 DEF fired, FiredCodes, ScoreCode, SizeCode, ExplainCode
<1>5. ASSUME NEW c \in extra, c # PairwiseCode PROVE c.code \in ExplainCode
  <2>1. PICK t \in DOMAIN CodeOfType : c = Code(CodeOfType[t])
    BY <1>5 DEF extra, EvidenceToCodes
  <2>2. c.code = CodeOfType[t] /\ CodeOfType[t] # "qf_pairwise_coordinated_pair"
    BY <1>5, <2>1 DEF Code, PairwiseCode
  <2>3. CodeOfType[t] \in ExplainCode \cup {"qf_pairwise_coordinated_pair"}
    BY <2>1 DEF CodeOfType, ExplainCode
  <2> QED
    BY <2>2, <2>3
<1>6. {c.code : c \in verdict.codes \ {PairwiseCode}} \subseteq ExplainCode
  BY <1>2, <1>4, <1>5
<1> QED
  BY <1>3, <1>6 DEF verdict, extra

\* The worker, the offline scripts, the form, the drawer and the look-up page
\* speak of one decision, for every stored row, preset, score and size
\* (presets.ts, presets.py, new/page.tsx, analyses/[id]/page.tsx,
\* lookup/page.tsx).
THEOREM LanguagesDoAgree == Spec => []LanguagesAgree
<1>1. PipelineInv => LanguagesAgree
  <2> SUFFICES ASSUME PipelineInv, StoredIn("full"), ~job.overrides.given
               PROVE  LanguagesAgree
    BY DEF LanguagesAgree
  <2>1. PICK preset \in PresetNames : preset = job.preset
    <3>1. PICK j \in Jobs : j = job
      BY DEF PipelineInv, IsAccepted
    <3> QED
      BY <3>1, JobIs
  <2>2. job.overrides = NoOverrides
    <3>1. PICK j \in Jobs : j = job
      BY DEF PipelineInv, IsAccepted
    <3> QED
      BY <3>1, JobIs
  <2>3. ASSUME NEW row, NEW s, NEW z, NEW codes
        PROVE  Verdict(row, s, z, codes) = PyComputeDecision(s, z, job.preset, codes)
    BY <2>1, <2>2, Agreement DEF Verdict
  <2>4. PRESET_THRESHOLDS[job.preset] = ResolveConfig(job.preset, job.overrides)
    BY <2>1, <2>2, PresetKept
  <2>5. ASSUME NEW a \in DOMAIN rows
        PROVE  LET cited == DrawerRule(job.preset, rows[a].verdict.decision) IN
               /\ rows[a].verdict.decision # "KEEP" =>
                    \/ ScoreFires(rows[a].score.sybil_score, cited)
                    \/ SizeFires(rows[a].score.cluster_size, cited)
                    \/ PairwiseCode \in rows[a].verdict.codes
               /\ {c.code : c \in rows[a].verdict.codes \ {PairwiseCode}} \subseteq ExplainCode
    <3>1. PICK row : row = rows[a].score
      OBVIOUS
    <3>2. rows[a].verdict = DecisionOf(row)
      BY <3>1, StoredRows DEF StoredIn
    <3>3. DecisionOf(row) = ComputeDecision(row.sybil_score, row.cluster_size, preset,
                                            EvidenceToCodes(row.evidence), NoOverrides)
      BY <2>1, <2>2 DEF DecisionOf, StoredIn
    <3>4. PICK verdict : verdict = rows[a].verdict
      OBVIOUS
    <3>5. LET cited == DrawerRule(preset, verdict.decision) IN
          /\ verdict.decision # "KEEP" =>
               \/ ScoreFires(row.sybil_score, cited) \/ SizeFires(row.cluster_size, cited)
               \/ PairwiseCode \in verdict.codes
          /\ {c.code : c \in verdict.codes \ {PairwiseCode}} \subseteq ExplainCode
      BY <3>2, <3>3, <3>4, DrawerCites
    <3> QED
      BY <2>1, <3>1, <3>4, <3>5
  <2> QED
    BY <2>3, <2>4, <2>5 DEF LanguagesAgree
<1> QED
  BY <1>1, PipelineInvariant, PTL

\* A score is a percentage, whatever the model answers.
LEMMA ScoreIsPercent ==
  ASSUME NEW f, NEW m
  PROVE  ScoreOf(f, m) \in 0..100
<1>1. \A x : Clip(x) \in 0..100
  BY DEF Clip
<1>2. \A c : /\ If(c, 35) \in Nat /\ If(c, 25) \in Nat /\ If(c, 20) \in Nat
             /\ If(c, 15) \in Nat /\ If(c, 10) \in Nat /\ If(c, 5) \in Nat
  BY DEF If
<1>3. RuleScore(f, m) \in 0..100
  <2> DEFINE clustered == If(In(m, "funding"), 35) + If(In(m, "behavior"), 25)
                          + If(In(m, "graph"), 20) + If(In(m, "cross_chain"), 15)
             points    == clustered + If(f.temporal.hour_entropy \in 1..119, 15)
                          + If(Scripted(f.temporal), 10) + If(f.temporal.regular, 10)
                          + If(f.total_tx_count < 5, 5)
  <2>1. clustered \in Nat
    BY <1>2
  <2>2. RuleScore(f, m) = IF points > 100 THEN 100 ELSE points
    BY DEF RuleScore
  <2> HIDE DEF clustered
  <2>3. points \in Nat
    BY <1>2, <2>1
  <2> HIDE DEF points
  <2> QED
    BY <2>2, <2>3
<1> QED
  BY <1>1, <1>3 DEF ScoreOf

\* The largest cluster of the run is the largest one that an address is shown in.
LEMMA LargestShown ==
  ASSUME Found(clusters, Addresses)
  PROVE  \E top \in Nat :
           /\ LargestSize(clusters) = top
           /\ \A a : /\ SizeOf(ClustersWith(clusters, a)) \in Nat
                     /\ SizeOf(ClustersWith(clusters, a)) <= top
           /\ top > 0 => \E a \in Addresses : /\ ~Alone(ClustersWith(clusters, a))
                                              /\ SizeOf(ClustersWith(clusters, a)) = top
<1>1. /\ DOMAIN clusters = 1..Len(clusters) /\ Len(clusters) \in Nat
      /\ \A i \in DOMAIN clusters : Legal(clusters[i], Addresses)
  BY LenProperties DEF Found
<1>2. \A i \in DOMAIN clusters : clusters[i].size \in Nat
  BY <1>1 DEF Legal
<1>3. ASSUME NEW a
      PROVE  LET size == SizeOf(ClustersWith(clusters, a))
             IN /\ size \in Nat
                /\ size = 0 \/ \E i \in DOMAIN clusters : size = clusters[i].size
                /\ \A i \in DOMAIN clusters :
                     a \in clusters[i].addresses =>
                       clusters[i].size <= size /\ ~Alone(ClustersWith(clusters, a))
  <2>1. CASE Alone(ClustersWith(clusters, a))
    <3>1. \A i \in DOMAIN clusters : a \notin clusters[i].addresses
      BY <2>1 DEF Alone, ClustersWith, Restrict
    <3> QED
      BY <2>1, <3>1 DEF SizeOf
  <2>2. CASE ~Alone(ClustersWith(clusters, a))
    <3>1. PICK i \in DOMAIN clusters :
            /\ Biggest(ClustersWith(clusters, a)) = clusters[i]
            /\ a \in clusters[i].addresses
            /\ \A j \in DOMAIN clusters :
                 a \in clusters[j].addresses => clusters[j].size <= clusters[i].size
      BY <2>2, ShownCluster
    <3>2. SizeOf(ClustersWith(clusters, a)) = clusters[i].size
      BY <2>2, <3>1 DEF SizeOf
    <3> QED
      BY <1>2, <2>2, <3>1, <3>2
  <2> QED
    BY <2>1, <2>2
<1>4. CASE DOMAIN clusters = {}
  <2>1. LargestSize(clusters) = 0
    <3>1. {0} \cup {clusters[i].size : i \in DOMAIN clusters} = {0}
      BY <1>4
    <3>2. Greatest({0}) = 0
      BY GreatestOf
    <3> QED
      BY <3>1, <3>2 DEF LargestSize
  <2>2. \A a : SizeOf(ClustersWith(clusters, a)) = 0
    BY <1>3, <1>4
  <2> QED
    BY <2>1, <2>2
<1>5. CASE DOMAIN clusters # {}
  <2>1. PICK m : m = clusters
    OBVIOUS
  <2>2. Members(m)
    BY <1>1, <1>2, <1>5, <2>1 DEF Members
  <2>3. PICK i \in DOMAIN clusters :
          \A j \in DOMAIN clusters : clusters[j].size <= clusters[i].size
    BY <1>1, <2>1, <2>2, ScanIsMax
  <2>4. PICK top \in Nat : top = clusters[i].size
    BY <1>2
  <2>5. LargestSize(clusters) = top
    <3>1. PICK S : S = {0} \cup {clusters[j].size : j \in DOMAIN clusters}
      OBVIOUS
    <3>2. S \in SUBSET Nat /\ top \in S /\ \A x \in S : x <= top
      BY <1>2, <2>3, <2>4, <3>1
    <3>3. Greatest(S) = top
      BY <3>2, GreatestOf
    <3> QED
      BY <3>1, <3>3 DEF LargestSize
  <2>6. \A a : /\ SizeOf(ClustersWith(clusters, a)) \in Nat
               /\ SizeOf(ClustersWith(clusters, a)) <= top
    BY <1>3, <2>3, <2>4
  <2>7. ASSUME top > 0
        PROVE  \E a \in Addresses : /\ ~Alone(ClustersWith(clusters, a))
                                    /\ SizeOf(ClustersWith(clusters, a)) = top
    <3>1. PICK a \in Addresses : a \in clusters[i].addresses
      BY <1>1, <2>4, <2>7 DEF Legal
    <3>2. /\ ~Alone(ClustersWith(clusters, a))
          /\ top <= SizeOf(ClustersWith(clusters, a))
      BY <1>3, <2>4, <3>1
    <3>3. SizeOf(ClustersWith(clusters, a)) = top
      BY <2>6, <3>2
    <3> QED
      BY <3>2, <3>3
  <2> QED
    BY <2>5, <2>6, <2>7
<1> QED
  BY <1>4, <1>5

\* Three disjoint parts of a finite set make up its number.
LEMMA ThreeParts ==
  ASSUME NEW S, IsFiniteSet(S), NEW A \in SUBSET S, NEW B \in SUBSET S, NEW C \in SUBSET S,
         \A x \in S : x \in A \/ x \in B \/ x \in C,
         \A x \in S : ~(x \in A /\ x \in B) /\ ~(x \in A /\ x \in C) /\ ~(x \in B /\ x \in C)
  PROVE  /\ Cardinality(A) + Cardinality(B) + Cardinality(C) = Cardinality(S)
         /\ Cardinality(A) <= Cardinality(S) /\ Cardinality(B) <= Cardinality(S)
         /\ Cardinality(C) <= Cardinality(S)
<1>1. IsFiniteSet(A) /\ IsFiniteSet(B) /\ IsFiniteSet(C)
  BY FS_Subset
<1>2. /\ Cardinality(A) \in Nat /\ Cardinality(B) \in Nat /\ Cardinality(C) \in Nat
      /\ Cardinality({}) = 0
  BY <1>1, FS_CardinalityType, FS_EmptySet
<1>3. /\ IsFiniteSet(A \cup B)
      /\ Cardinality(A \cup B) = Cardinality(A) + Cardinality(B) - Cardinality(A \cap B)
  BY <1>1, FS_Union
<1>4. Cardinality((A \cup B) \cup C)
        = Cardinality(A \cup B) + Cardinality(C) - Cardinality((A \cup B) \cap C)
  BY <1>1, <1>3, FS_Union
<1>5. (A \cup B) \cap C = {} /\ A \cap B = {} /\ S = (A \cup B) \cup C
  OBVIOUS
<1>6. Cardinality(A \cup B) = Cardinality(A) + Cardinality(B) - 0
  BY <1>2, <1>3, <1>5
<1>7. Cardinality(S) = Cardinality(A \cup B) + Cardinality(C) - 0
  BY <1>2, <1>4, <1>5
<1>8. Cardinality(S) = Cardinality(A) + Cardinality(B) + Cardinality(C)
  BY <1>2, <1>6, <1>7
<1> QED
  BY <1>2, <1>8

\* What the counters of a full analysis are.
LEMMA FullCounts ==
  ASSUME PipelineInv, StoredIn("full")
  PROVE  SummaryMatchesRows
<1> DEFINE Decisions(d) == {a \in Addresses : rows[a].verdict.decision = d}
           Shown == {"DROP", "REVIEW", "KEEP"}
<1>1. /\ DOMAIN rows = Addresses /\ Found(clusters, Addresses)
      /\ \A a \in Addresses : /\ rows[a].score = ScoreRow(a)
                              /\ rows[a].verdict = DecisionOf(ScoreRow(a))
  BY StoredRows DEF StoredIn
<1>2. IsFiniteSet(Addresses)
  <2>1. PICK j \in Jobs : j = job
    BY DEF PipelineInv, IsAccepted
  <2> QED
    BY <2>1, JobIs DEF Addresses
<1>3. reply = [scores |-> FullScores, summary |-> Summarize(FullScores)]
  BY DEF StoredIn, PipelineInv, IsAnswered
<1>4. DOMAIN FullScores = Addresses /\ \A a \in Addresses : FullScores[a] = ScoreRow(a)
  BY DEF FullScores
<1>5. \A a \in Addresses : /\ rows[a].score.sybil_score \in 0..100
                           /\ rows[a].score.label = LabelFromScore(rows[a].score.sybil_score)
                           /\ rows[a].score.cluster_size = SizeOf(ClustersWith(clusters, a))
  <2>1. ASSUME NEW a \in Addresses
        PROVE  /\ ScoreRow(a).sybil_score \in 0..100
               /\ ScoreRow(a).label = LabelFromScore(ScoreRow(a).sybil_score)
               /\ ScoreRow(a).cluster_size = SizeOf(ClustersWith(clusters, a))
    <3>1. ScoreRow(a).sybil_score = ScoreOf(features[a], ClustersWith(clusters, a))
      BY DEF ScoreRow
    <3>2. ScoreOf(features[a], ClustersWith(clusters, a)) \in 0..100
      BY ScoreIsPercent DEF ScoreOf
    <3> QED
      BY <3>1, <3>2 DEF ScoreRow
  <2> QED
    BY <1>1, <2>1
<1>6. \A a \in Addresses : rows[a].verdict.decision \in Shown
  <2>1. \A row : DecisionOf(row).decision \in Shown
    BY DEF DecisionOf, StoredIn, ComputeDecision, Decide, Result
  <2> QED
    BY <1>1, <2>1
<1>7. tally = [drop   |-> Cardinality(Decisions("DROP")),
               review |-> Cardinality(Decisions("REVIEW")),
               keep   |-> Cardinality(Decisions("KEEP"))]
  <2> DEFINE decisions == [i \in DOMAIN reply.scores |-> DecisionOf(reply.scores[i])]
  <2>1. tally = [drop   |-> Decided(decisions, "DROP"),
                 review |-> Decided(decisions, "REVIEW"),
                 keep   |-> Decided(decisions, "KEEP")]
    BY DEF StoredIn, PipelineInv, IsStored
  <2>2. DOMAIN decisions = Addresses /\ \A a \in Addresses : decisions[a] = rows[a].verdict
    BY <1>1, <1>3, <1>4
  <2> HIDE DEF decisions
  <2>3. \A d : Decided(decisions, d) = Cardinality(Decisions(d))
    <3>1. ASSUME NEW d
          PROVE {i \in DOMAIN decisions : decisions[i].decision = d} = Decisions(d)
      BY <2>2
    <3> QED
      BY <3>1 DEF Decided
  <2> QED
    BY <2>1, <2>3
<1>8. /\ Cardinality(Decisions("DROP")) + Cardinality(Decisions("REVIEW"))
         + Cardinality(Decisions("KEEP")) = Cardinality(Addresses)
      /\ Cardinality(Decisions("DROP")) <= Cardinality(Addresses)
      /\ Cardinality(Decisions("REVIEW")) <= Cardinality(Addresses)
      /\ Cardinality(Decisions("KEEP")) <= Cardinality(Addresses)
  <2>1. PICK S, A, B, C : /\ S = Addresses /\ A = Decisions("DROP")
                          /\ B = Decisions("REVIEW") /\ C = Decisions("KEEP")
    OBVIOUS
  <2>2. /\ A \in SUBSET S /\ B \in SUBSET S /\ C \in SUBSET S /\ IsFiniteSet(S)
        /\ \A x \in S : x \in A \/ x \in B \/ x \in C
        /\ \A x \in S : /\ ~(x \in A /\ x \in B) /\ ~(x \in A /\ x \in C)
                       /\ ~(x \in B /\ x \in C)
    BY <1>2, <1>6, <2>1
  <2>3. /\ Cardinality(A) + Cardinality(B) + Cardinality(C) = Cardinality(S)
        /\ Cardinality(A) <= Cardinality(S) /\ Cardinality(B) <= Cardinality(S)
        /\ Cardinality(C) <= Cardinality(S)
    BY <2>2, ThreeParts
  <2> HIDE DEF Decisions
  <2> QED
    BY <2>1, <2>3
<1>9. /\ reply.summary.total_scored = Cardinality(Addresses)
      /\ reply.summary.largest_cluster_size = LargestSize(clusters)
      /\ reply.summary.sybil_count = Count(FullScores, 70, 100)
      /\ reply.summary.suspicious_count = Count(FullScores, 40, 69)
      /\ reply.summary.genuine_count = Count(FullScores, 0, 39)
  BY <1>3, <1>4 DEF Summarize, Entries
<1>10. \A a \in Addresses :
         /\ rows[a].score.label = "sybil" <=> rows[a].score.sybil_score \in 70..100
         /\ rows[a].score.label = "suspicious" <=> rows[a].score.sybil_score \in 40..69
         /\ rows[a].score.label = "genuine" <=> rows[a].score.sybil_score \in 0..39
  <2>1. \A score \in 0..100 :
          /\ LabelFromScore(score) = "sybil" <=> score \in 70..100
          /\ LabelFromScore(score) = "suspicious" <=> score \in 40..69
          /\ LabelFromScore(score) = "genuine" <=> score \in 0..39
    BY DEF LabelFromScore
  <2> QED
    BY <1>5, <2>1
<1>11. /\ Count(FullScores, 70, 100)
            = Cardinality({a \in DOMAIN rows : rows[a].score.label = "sybil"})
       /\ Count(FullScores, 40, 69)
            = Cardinality({a \in DOMAIN rows : rows[a].score.label = "suspicious"})
       /\ Count(FullScores, 0, 39)
            = Cardinality({a \in DOMAIN rows : rows[a].score.label = "genuine"})
  <2>1. {a \in DOMAIN FullScores : FullScores[a].sybil_score \in 70..100}
          = {a \in DOMAIN rows : rows[a].score.label = "sybil"}
    BY <1>1, <1>4, <1>10
  <2>2. {a \in DOMAIN FullScores : FullScores[a].sybil_score \in 40..69}
          = {a \in DOMAIN rows : rows[a].score.label = "suspicious"}
    BY <1>1, <1>4, <1>10
  <2>3. {a \in DOMAIN FullScores : FullScores[a].sybil_score \in 0..39}
          = {a \in DOMAIN rows : rows[a].score.label = "genuine"}
    BY <1>1, <1>4, <1>10
  <2> QED
    BY <2>1, <2>2, <2>3 DEF Count
<1>12. LargestSize(clusters)
         = Greatest({0} \cup {rows[i].score.cluster_size : i \in DOMAIN rows})
  <2>1. PICK top \in Nat :
          /\ LargestSize(clusters) = top
          /\ \A a : /\ SizeOf(ClustersWith(clusters, a)) \in Nat
                    /\ SizeOf(ClustersWith(clusters, a)) <= top
          /\ top > 0 => \E a \in Addresses : /\ ~Alone(ClustersWith(clusters, a))
                                             /\ SizeOf(ClustersWith(clusters, a)) = top
    BY <1>1, LargestShown
  <2>2. PICK S : S = {0} \cup {rows[i].score.cluster_size : i \in DOMAIN rows}
    OBVIOUS
  <2>3. S \in SUBSET Nat /\ \A x \in S : x <= top
    BY <1>1, <1>5, <2>1, <2>2
  <2>4. top \in S
    BY <1>1, <1>5, <2>1, <2>2
  <2>5. Greatest(S) = top
    BY <2>3, <2>4, GreatestOf
  <2> QED
    BY <2>1, <2>2, <2>5
<1>13. \A a \in Addresses : DecisionChip(rows[a]) = rows[a].verdict.decision
  BY <1>6 DEF DecisionChip
<1>14. /\ DOMAIN StatCards = Shown
       /\ StatCards["DROP"]   = Card(Cardinality(Decisions("DROP")), Cardinality(Addresses))
       /\ StatCards["REVIEW"] = Card(Cardinality(Decisions("REVIEW")), Cardinality(Addresses))
       /\ StatCards["KEEP"]   = Card(Cardinality(Decisions("KEEP")), Cardinality(Addresses))
  <2>1. StatCards = [DROP   |-> Card(tally.drop, reply.summary.total_scored),
                     REVIEW |-> Card(tally.review, reply.summary.total_scored),
                     KEEP   |-> Card(tally.keep, reply.summary.total_scored)]
    BY DEF StatCards, StoredIn
  <2> HIDE DEF Decisions
  <2> QED
    BY <1>7, <1>9, <2>1
<1>15. ASSUME NEW name \in Shown
       PROVE  /\ StatCards[name].value
                   = Cardinality({i \in DOMAIN rows : DecisionChip(rows[i]) = name})
              /\ StatCards[name].value <= StatCards[name].of
  <2>1. {i \in DOMAIN rows : DecisionChip(rows[i]) = name} = Decisions(name)
    BY <1>1, <1>13
  <2>2. StatCards[name] = Card(Cardinality(Decisions(name)), Cardinality(Addresses))
    <3>1. name = "DROP" \/ name = "REVIEW" \/ name = "KEEP"
      OBVIOUS
    <3> HIDE DEF Decisions
    <3> QED
      BY <1>14, <3>1
  <2>3. Cardinality(Decisions(name)) <= Cardinality(Addresses)
    <3>1. name = "DROP" \/ name = "REVIEW" \/ name = "KEEP"
      OBVIOUS
    <3> HIDE DEF Decisions
    <3> QED
      BY <1>8, <3>1
  <2> HIDE DEF Decisions
  <2>4. /\ StatCards[name].value = Cardinality(Decisions(name))
        /\ StatCards[name].of = Cardinality(Addresses)
    BY <2>2 DEF Card
  <2> QED
    BY <2>1, <2>3, <2>4
<1>16. tally.drop + tally.review + tally.keep = Cardinality(Addresses)
  <2> HIDE DEF Decisions
  <2> QED
    BY <1>7, <1>8
<1>17. /\ reply.summary.total_scored = Entries(rows) /\ Entries(rows) = Cardinality(Addresses)
  BY <1>1, <1>9 DEF Entries
<1>18. \A i \in DOMAIN rows : DecisionChip(rows[i]) \in DOMAIN StatCards
  BY <1>1, <1>6, <1>13, <1>14
<1>19. \A name \in DOMAIN StatCards :
         /\ StatCards[name].value
              = Cardinality({i \in DOMAIN rows : DecisionChip(rows[i]) = name})
         /\ StatCards[name].value <= StatCards[name].of
  BY <1>14, <1>15
<1> HIDE DEF Decisions, Shown
<1> QED
  BY <1>9, <1>11, <1>12, <1>16, <1>17, <1>18, <1>19 DEF SummaryMatchesRows

\* What the counters of a cluster_only analysis are.
LEMMA ClusterOnlyCounts ==
  ASSUME PipelineInv, StoredIn("cluster_only")
  PROVE  SummaryMatchesRows
<1>1. /\ DOMAIN rows = DOMAIN ClusterOnlyRows /\ Found(clusters, Addresses)
      /\ \A k \in DOMAIN rows : /\ rows[k].score = ClusterOnlyRows[k]
                                /\ rows[k].verdict = NoDecision
  BY StoredRows DEF StoredIn
<1>2. reply = [scores |-> ClusterOnlyRows, summary |-> ClusterOnlySummary]
  BY DEF StoredIn, PipelineInv, IsAnswered
<1>3. /\ reply.summary.total_scored = Entries(rows)
      /\ reply.summary.largest_cluster_size = LargestSize(clusters)
  BY <1>1, <1>2 DEF ClusterOnlySummary, Entries
<1>4. DOMAIN rows = {n \in DOMAIN job.listing :
                       ~Alone(ClustersWith(clusters, job.listing[n]))}
  BY <1>1 DEF ClusterOnlyRows
<1>5. \A k \in DOMAIN rows :
        /\ rows[k].score.label = "unscored"
        /\ rows[k].score.cluster_size = SizeOf(ClustersWith(clusters, job.listing[k]))
  <2>1. ASSUME NEW k \in DOMAIN rows
        PROVE  LargestScanned(ClustersWith(clusters, job.listing[k]))
                 = Biggest(ClustersWith(clusters, job.listing[k]))
    <3>1. PICK a : a = job.listing[k]
      OBVIOUS
    <3> QED
      BY <1>1, <1>4, <3>1, ShownCluster
  <2>2. ASSUME NEW k \in DOMAIN rows
        PROVE  /\ rows[k].score.label = "unscored"
               /\ rows[k].score.cluster_size
                    = LargestScanned(ClustersWith(clusters, job.listing[k])).size
    <3> DEFINE largest == LargestScanned(ClustersWith(clusters, job.listing[k]))
    <3>1. ClusterOnlyRows[k]
            = [address |-> job.listing[k], sybil_score |-> 0, label |-> "unscored",
               cluster_id |-> largest.id, cluster_size |-> largest.size, evidence |-> {}]
      BY <1>1, <1>4 DEF ClusterOnlyRows
    <3> HIDE DEF largest
    <3>2. ClusterOnlyRows[k].label = "unscored" /\ ClusterOnlyRows[k].cluster_size = largest.size
      BY <3>1
    <3> QED
      BY <1>1, <3>2 DEF largest
  <2>3. \A k \in DOMAIN rows : ~Alone(ClustersWith(clusters, job.listing[k]))
    BY <1>4
  <2> QED
    BY <2>1, <2>2, <2>3 DEF SizeOf
<1>6. LargestSize(clusters)
        = Greatest({0} \cup {rows[i].score.cluster_size : i \in DOMAIN rows})
  <2>1. PICK top \in Nat :
          /\ LargestSize(clusters) = top
          /\ \A a : /\ SizeOf(ClustersWith(clusters, a)) \in Nat
                    /\ SizeOf(ClustersWith(clusters, a)) <= top
          /\ top > 0 => \E a \in Addresses : /\ ~Alone(ClustersWith(clusters, a))
                                             /\ SizeOf(ClustersWith(clusters, a)) = top
    BY <1>1, LargestShown
  <2>2. PICK S : S = {0} \cup {rows[i].score.cluster_size : i \in DOMAIN rows}
    OBVIOUS
  <2>3. S \in SUBSET Nat /\ \A x \in S : x <= top
    BY <1>5, <2>1, <2>2
  <2>4. top \in S
    <3>1. CASE top = 0
      BY <2>2, <3>1
    <3>2. CASE top > 0
      <4>1. PICK a \in Addresses : /\ ~Alone(ClustersWith(clusters, a))
                                   /\ SizeOf(ClustersWith(clusters, a)) = top
        BY <2>1, <3>2
      <4>2. PICK k \in DOMAIN job.listing : job.listing[k] = a
        BY DEF Addresses, Range
      <4>3. k \in DOMAIN rows
        BY <1>4, <4>1, <4>2
      <4> QED
        BY <1>5, <2>2, <4>1, <4>2, <4>3
    <3> QED
      BY <3>1, <3>2
  <2>5. Greatest(S) = top
    BY <2>3, <2>4, GreatestOf
  <2> QED
    BY <2>1, <2>2, <2>5
<1>7. \A k \in DOMAIN rows : DecisionChip(rows[k]) = "unscored"
  <2>1. NoDecision.decision = "none"
    BY DEF NoDecision, Result
  <2> QED
    BY <1>1, <1>5, <2>1 DEF DecisionChip
<1>8. /\ DOMAIN StatCards = {"unscored"}
      /\ StatCards["unscored"].value = Cardinality(DOMAIN rows)
      /\ StatCards["unscored"].of = Len(job.listing)
  BY <1>3 DEF StatCards, StoredIn, Card, Entries
<1>9. Cardinality(DOMAIN rows) <= Len(job.listing)
  <2>1. PICK j \in Jobs : j = job
    BY DEF PipelineInv, IsAccepted
  <2>2. j.listing \in Seq(Range(j.listing))
    BY JobIs
  <2>3. Len(j.listing) \in Nat /\ DOMAIN j.listing = 1..Len(j.listing)
    BY <2>2, LenProperties
  <2>4. PICK n, D : n = Len(j.listing) /\ D = DOMAIN rows
    OBVIOUS
  <2>5. D \in SUBSET (1..n)
    BY <1>4, <2>1, <2>3, <2>4
  <2>6. IsFiniteSet(1..n) /\ Cardinality(1..n) = n
    <3>1. n \in Nat
      BY <2>3, <2>4
    <3> QED
      BY <3>1, FS_Interval
  <2>7. Cardinality(D) <= Cardinality(1..n)
    BY <2>5, <2>6, FS_Subset
  <2> QED
    BY <2>1, <2>4, <2>6, <2>7
<1>10. {i \in DOMAIN rows : DecisionChip(rows[i]) = "unscored"} = DOMAIN rows
  BY <1>7
<1>11. job.mode # "full"
  BY DEF StoredIn
<1> QED
  BY <1>3, <1>6, <1>7, <1>8, <1>9, <1>10, <1>11 DEF SummaryMatchesRows

\* The counters and the cards of a stored analysis are those of its rows, for
\* every score and every set of clusters: no label, decision or size falls
\* between the thresholds of two places (_summarize, label_from_score, the
\* worker's loop, analyses/[id]/page.tsx).
THEOREM SummaryIsOfRows == Spec => []SummaryMatchesRows
<1>1. PipelineInv => SummaryMatchesRows
  <2> SUFFICES ASSUME PipelineInv, stage = "stored" PROVE SummaryMatchesRows
    BY DEF SummaryMatchesRows
  <2>1. job.mode \in {"full", "cluster_only"}
    <3>1. PICK j \in Jobs : j = job
      BY DEF PipelineInv, IsAccepted
    <3> QED
      BY <3>1, JobIs
  <2> QED
    BY <2>1, FullCounts, ClusterOnlyCounts DEF StoredIn
<1> QED
  BY <1>1, PipelineInvariant, PTL
=============================================================================
