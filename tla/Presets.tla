------------------------------ MODULE Presets ------------------------------
(***************************************************************************)
(* What becomes of a score: the presets' threshold rules as the worker     *)
(* applies them (lib/presets.ts), as the offline scripts do                *)
(* (scoring/presets.py) and as the form for a new analysis shows them.     *)
(* The tables and procedures are kept in step by hand, so all are here.    *)
(***************************************************************************)
EXTENDS Integers

Off    == -1          \* null: the threshold is disabled
Absent == -2          \* the key is not given: the preset's value stays

PresetNames == {"airdrop", "dao", "grant", "balanced"}

Rule(score, size) == [score_gte |-> score, cluster_size_gte |-> size]
Preset(drop, review) == [drop |-> drop, review |-> review]

PRESETS == [
  airdrop  |-> Preset(Rule(85, 50),  Rule(60, 20)),
  dao      |-> Preset(Rule(90, 30),  Rule(50, 10)),
  grant    |-> Preset(Rule(Off, 20), Rule(70, 5)),
  balanced |-> Preset(Rule(80, Off), Rule(50, Off))]

PyPRESETSBeforeCalibration == [
  airdrop  |-> Preset(Rule(85, 5),   Rule(60, 3)),
  dao      |-> Preset(Rule(90, 10),  Rule(50, 5)),
  grant    |-> Preset(Rule(Off, 3),  Rule(70, 3)),
  balanced |-> Preset(Rule(80, Off), Rule(50, Off))]

PyPRESETS == [
  airdrop  |-> Preset(Rule(85, 50),  Rule(60, 20)),
  dao      |-> Preset(Rule(90, 30),  Rule(50, 10)),
  grant    |-> Preset(Rule(Off, 20), Rule(70, 5)),
  balanced |-> Preset(Rule(80, Off), Rule(50, Off))]

\* The dashboard's copy, in the form for a new analysis.
PRESET_THRESHOLDS == [
  balanced |-> Preset(Rule(80, Off), Rule(50, Off)),
  airdrop  |-> Preset(Rule(85, 50),  Rule(60, 20)),
  dao      |-> Preset(Rule(90, 30),  Rule(50, 10)),
  grant    |-> Preset(Rule(Off, 20), Rule(70, 5))]

\* The overrides of an analysis; not given, they change nothing.
Overrides(drop, review) == [given |-> TRUE, drop |-> drop, review |-> review]
NoOverrides ==
  [given |-> FALSE, drop |-> Rule(Absent, Absent), review |-> Rule(Absent, Absent)]

Or(given, base) == IF given = Absent THEN base ELSE given

Merge(given, base) == Rule(Or(given.score_gte, base.score_gte),
                           Or(given.cluster_size_gte, base.cluster_size_gte))

ResolveConfig(preset, overrides) ==
  Preset(Merge(overrides.drop, PRESETS[preset].drop),
         Merge(overrides.review, PRESETS[preset].review))

----------------------------------------------------------------------------
(* The rationale codes.                                                    *)

Code(name)        == [code |-> name, at |-> 0]
ScoreCode(rule)   == [code |-> "score_ge", at |-> rule.score_gte]
SizeCode(rule)    == [code |-> "cluster_size_ge", at |-> rule.cluster_size_gte]
PairwiseCode      == Code("qf_pairwise_coordinated_pair")

CodeOfType == [
  temporal_scripting    |-> "scripted_timing",
  low_entropy           |-> "low_hour_entropy",
  high_autocorrelation  |-> "high_autocorrelation",
  shared_funding        |-> "shared_funder_cluster",
  shared_funding_weak   |-> "shared_funder_weak",
  behavioral_clone      |-> "behavioral_cluster",
  graph_cluster         |-> "graph_cluster",
  cross_chain_link      |-> "cross_chain_link",
  thin_account          |-> "thin_account",
  model_classification  |-> "model_classification",
  pairwise_funding_link |-> "qf_pairwise_coordinated_pair"]

EvidenceToCodes(evidence) ==
  {Code(CodeOfType[item.type]) : item \in
     {i \in evidence : i.type \in DOMAIN CodeOfType}}

----------------------------------------------------------------------------
(* The decision.  A row without a cluster has size 0 (clusterSize ?? 0).   *)

Reaches(value, threshold) == threshold # Off /\ value >= threshold
ScoreFires(score, rule) == Reaches(score, rule.score_gte)
SizeFires(size, rule) == Reaches(size, rule.cluster_size_gte)

Result(decision, confidence, codes) ==
  [decision |-> decision, confidence |-> confidence, codes |-> codes]

FiredCodes(score, size, rule) ==
  (IF ScoreFires(score, rule) THEN {ScoreCode(rule)} ELSE {})
    \cup (IF SizeFires(size, rule) THEN {SizeCode(rule)} ELSE {})

\* The drop rule, then the review rule and the pairwise signal of the grant
\* preset, then KEEP.
Decide(cfg, score, size, pairwise, supported, codes) ==
  LET scoreDrops   == ScoreFires(score, cfg.drop)
      sizeDrops    == SizeFires(size, cfg.drop)
      scoreReviews == ScoreFires(score, cfg.review)
      sizeReviews  == SizeFires(size, cfg.review)
  IN IF scoreDrops \/ sizeDrops
       THEN Result("DROP", IF scoreDrops /\ sizeDrops THEN "high" ELSE "medium",
                   codes \cup FiredCodes(score, size, cfg.drop))
       ELSE IF scoreReviews \/ sizeReviews \/ pairwise
       THEN Result("REVIEW", IF scoreReviews /\ sizeReviews THEN "high"
                             ELSE IF supported THEN "medium" ELSE "low",
                   codes \cup FiredCodes(score, size, cfg.review))
       ELSE Result("KEEP", "high", codes)

\* computeDecision()
ComputeDecision(score, size, preset, extraCodes, overrides) ==
  Decide(ResolveConfig(preset, overrides), score, size,
         preset = "grant" /\ PairwiseCode \in extraCodes,
         extraCodes # {},
         extraCodes \cup (IF overrides.given
                            THEN {Code("custom_thresholds")} ELSE {}))

\* compute_decision()
PyComputeDecision(score, size, preset, extraCodes) ==
  Decide(PyPRESETS[preset], score, size,
         preset = "grant" /\ PairwiseCode \in extraCodes,
         extraCodes # {},
         extraCodes)

----------------------------------------------------------------------------
(* What the pages say about a decision.                                    *)

\* presetRuleText(): the rules of the preset, without the overrides.
PresetRuleText(preset) == PRESETS[preset]

\* The rule that the drawer of a row cites.
DrawerRule(preset, decision) ==
  CASE decision = "DROP"   -> PresetRuleText(preset).drop
    [] decision = "REVIEW" -> PresetRuleText(preset).review
    [] OTHER               -> Rule(Off, Off)

\* explainCode() of the look-up page: the codes that it has words for.
ExplainCode ==
  {"score_ge", "cluster_size_ge", "scripted_timing", "low_hour_entropy",
   "high_autocorrelation", "shared_funder_cluster", "shared_funder_weak",
   "behavioral_cluster", "graph_cluster", "cross_chain_link", "thin_account",
   "model_classification", "custom_thresholds"}

Severity == [KEEP |-> 0, REVIEW |-> 1, DROP |-> 2]
=============================================================================
