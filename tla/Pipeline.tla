------------------------------ MODULE Pipeline ------------------------------
(***************************************************************************)
(* One analysis from its addresses to its stored rows: run(),              *)
(* run_clusters_only() and run_first_sight() of the ML service             *)
(* (pipeline.py) and what the worker makes of the reply                    *)
(* (analyze.worker.ts, lib/cluster-only.ts).  AnalysisLifecycle has these  *)
(* computations as single steps; here is what they compute.                *)
(***************************************************************************)
EXTENDS Scoring, Presets

CONSTANTS
  Primary,       \* the first chain of every job
  Jobs,          \* what may be asked for
  HistoriesOn,   \* the histories that an address may have on each chain
  LgbScore(_),   \* the trained model: its probability in percent, rounded
  ProbeScores,   \* scores and sizes at which decisions are compared
  ProbeSizes

ASSUME PipelineAssumption ==
  /\ Primary \in DOMAIN HistoriesOn
  /\ IsFiniteSet(DOMAIN HistoriesOn)
  /\ \A j \in Jobs :
       /\ j.mode \in {"full", "cluster_only"} /\ j.preset \in PresetNames
       /\ Primary \in j.chains /\ j.chains \subseteq DOMAIN HistoriesOn
       /\ j.listing \in Seq(Range(j.listing))
       /\ ~j.overrides.given => j.overrides = NoOverrides
  /\ {BehaviorMin, GraphMin} \subseteq Nat \ {0, 1} /\ GraphMax \in Nat
  /\ ProbeScores \subseteq 0..100 /\ ProbeSizes \subseteq Nat

VARIABLES
  job,        \* mode, chains, listing, preset, overrides; model: one is loaded
  stage,
  batches,    \* ingested, per chain and address
  features,
  clusters,   \* all_clusters
  pairs,      \* pairwise_funding, kept apart from clusters
  reply,      \* summary and scores as the worker gets them: by address, or
              \* by the place in the list when the worker makes them itself
  rows,       \* address_scores with the decisions, likewise
  tally       \* drop, review and keep counts

vars == <<job, stage, batches, features, clusters, pairs, reply, rows, tally>>

Chains    == job.chains
Addresses == Range(job.listing)

Init ==
  /\ job \in Jobs
  /\ stage = "accepted"
  /\ batches = << >> /\ features = << >> /\ clusters = << >> /\ pairs = {}
  /\ reply = << >> /\ rows = << >>
  /\ tally = [drop |-> 0, review |-> 0, keep |-> 0]

----------------------------------------------------------------------------
(* The ML service.                                                         *)

NoHistory == [funder |-> Nobody, at |-> 0, stamps |-> << >>, hourEntropy |-> 0,
              correlation |-> 0, bridged |-> FALSE]

\* ingest_batch(): an address that fails is kept without a history.
Ingest ==
  /\ stage = "accepted"
  /\ stage' = "ingested"
  /\ batches' \in {b \in [Chains -> [Addresses -> UNION {HistoriesOn[c] : c \in Chains}
                                                    \cup {NoHistory}]] :
                     \A c \in Chains, a \in Addresses :
                       b[c][a] \in HistoriesOn[c] \cup {NoHistory}}
  /\ UNCHANGED <<job, features, clusters, pairs, reply, rows, tally>>

FindClusters ==
  /\ stage = "ingested"
  /\ stage' = "clustered"
  /\ features' = ExtractAllFeatures(batches[Primary])
  /\ \E b \in BehaviorGroupings(Addresses), g \in GraphGroupings(Addresses),
        linked \in IF Cardinality(Chains) > 1 THEN LinkCrossChain(batches) ELSE {<< >>} :
       clusters' = ClusterByFundingSource(Primary, batches[Primary], 3)
                   \o ClustersOf("behavior", Primary, b)
                   \o ClustersOf("graph", Primary, g)
                   \o linked
  /\ pairs' = IF job.mode = "full" /\ job.preset = "grant"
                THEN {c \in Range(ClusterByFundingSource(Primary, batches[Primary], 2)) :
                        c.size <= 4 /\ c.confidence >= 80}
                ELSE {}
  /\ UNCHANGED <<job, batches, reply, rows, tally>>

\* max(..., key=size): the first of the largest.
Biggest(memberships) ==
  memberships[Least({i \in DOMAIN memberships :
    \A j \in DOMAIN memberships : memberships[j].size <= memberships[i].size})]

Alone(memberships)  == DOMAIN memberships = {}
IdOf(memberships)   == IF Alone(memberships) THEN NoCluster ELSE Biggest(memberships).id
SizeOf(memberships) == IF Alone(memberships) THEN 0 ELSE Biggest(memberships).size

PairItems(a) ==
  {[type |-> "pairwise_funding_link", cluster |-> c.id] :
     c \in {p \in pairs : a \in p.addresses}}

\* predict_scores() clips what the model answers.
Clip(score) == IF score \in 0..100 THEN score ELSE IF score < 0 THEN 0 ELSE 100

ScoreOf(f, memberships) ==
  IF job.model THEN Clip(LgbScore(f)) ELSE RuleScore(f, memberships)

\* The score of an address, its biggest cluster, and its evidence: that of
\* a pair is added whatever the score.
ScoreRow(a) ==
  LET memberships == ClustersWith(clusters, a)
      score == ScoreOf(features[a], memberships)
  IN [address |-> a, sybil_score |-> score, label |-> LabelFromScore(score),
      cluster_id |-> IdOf(memberships), cluster_size |-> SizeOf(memberships),
      evidence |-> GenerateEvidence(score, features[a], memberships) \cup PairItems(a)]

LargestSize(cs) == Greatest({0} \cup {cs[i].size : i \in DOMAIN cs})

Entries(scores) == Cardinality(DOMAIN scores)

Count(scores, low, high) ==
  Cardinality({i \in DOMAIN scores : scores[i].sybil_score \in low..high})

SummarizeFrom71(scores) ==
  [total_scored |-> Entries(scores), sybil_count |-> Count(scores, 71, 100),
   suspicious_count |-> Count(scores, 40, 69), genuine_count |-> Count(scores, 0, 39),
   cluster_count |-> Len(clusters), largest_cluster_size |-> LargestSize(clusters)]

\* _summarize()
Summarize(scores) ==
  [total_scored |-> Entries(scores), sybil_count |-> Count(scores, 70, 100),
   suspicious_count |-> Count(scores, 40, 69), genuine_count |-> Count(scores, 0, 39),
   cluster_count |-> Len(clusters), largest_cluster_size |-> LargestSize(clusters)]

ScoreAndExplain ==
  /\ stage = "clustered" /\ job.mode = "full"
  /\ stage' = "answered"
  /\ LET scores == [a \in Addresses |-> ScoreRow(a)]
     IN reply' = [scores |-> scores, summary |-> Summarize(scores)]
  /\ UNCHANGED <<job, batches, features, clusters, pairs, rows, tally>>

FirstSightUnexplained(h) ==
  LET f == ExtractAllFeatures([a \in {1} |-> h])[1]
      score == ScoreOf(f, << >>)
  IN [sybil_score |-> score, label |-> LabelFromScore(score), evidence |-> {}]

\* run_first_sight() of an address with history h: a batch of its own.
RunFirstSight(h) ==
  LET f == ExtractAllFeatures([a \in {1} |-> h])[1]
      score == ScoreOf(f, << >>)
  IN [sybil_score |-> score, label |-> LabelFromScore(score),
      evidence |-> GenerateEvidence(score, f, << >>)]

----------------------------------------------------------------------------
(* The worker.                                                             *)

LargestLastScanned(memberships) ==
  LET best[n \in 0..Len(clusters)] ==
        IF n = 0 THEN Least(DOMAIN memberships)
        ELSE IF n \in DOMAIN memberships
                  /\ memberships[n].size >= memberships[best[n - 1]].size
        THEN n ELSE best[n - 1]
  IN memberships[best[Len(clusters)]]

\* The scan of normaliseClusterOnlyResponse(), which begins with the first:
\* best[n] is the place of the largest of the first n clusters.
LargestScanned(memberships) ==
  LET best[n \in 0..Len(clusters)] ==
        IF n = 0 THEN Least(DOMAIN memberships)
        ELSE IF n \in DOMAIN memberships
                  /\ memberships[n].size > memberships[best[n - 1]].size
        THEN n ELSE best[n - 1]
  IN memberships[best[Len(clusters)]]

\* A row for each entry of the list that is in a cluster; an address listed
\* twice gets two.
ClusterOnlyRows ==
  [k \in {n \in DOMAIN job.listing : ~Alone(ClustersWith(clusters, job.listing[n]))} |->
     LET largest == LargestScanned(ClustersWith(clusters, job.listing[k]))
     IN [address |-> job.listing[k], sybil_score |-> 0, label |-> "unscored",
         cluster_id |-> largest.id, cluster_size |-> largest.size,
         evidence |-> {}]]

NormaliseClusterOnly ==
  /\ stage = "clustered" /\ job.mode = "cluster_only"
  /\ stage' = "answered"
  /\ reply' = [scores |-> ClusterOnlyRows,
               summary |-> [total_scored |-> Entries(ClusterOnlyRows), sybil_count |-> 0,
                            suspicious_count |-> 0, genuine_count |-> 0,
                            cluster_count |-> Len(clusters),
                            largest_cluster_size |-> LargestSize(clusters)]]
  /\ UNCHANGED <<job, batches, features, clusters, pairs, rows, tally>>

NoDecision == Result("none", "none", {})

DecisionOf(row) ==
  IF job.mode = "cluster_only" THEN NoDecision
  ELSE ComputeDecision(row.sybil_score, row.cluster_size, job.preset,
                       EvidenceToCodes(row.evidence), job.overrides)

Decided(decisions, d) ==
  Cardinality({i \in DOMAIN decisions : decisions[i].decision = d})

\* Decisions, counters and rows, as phase 1 stores them.
EnrichAndStore ==
  /\ stage = "answered"
  /\ stage' = "stored"
  /\ LET decisions == [i \in DOMAIN reply.scores |-> DecisionOf(reply.scores[i])]
     IN /\ rows' = [i \in DOMAIN decisions |->
                      [score |-> reply.scores[i], verdict |-> decisions[i]]]
        /\ tally' = [drop   |-> Decided(decisions, "DROP"),
                     review |-> Decided(decisions, "REVIEW"),
                     keep   |-> Decided(decisions, "KEEP")]
  /\ UNCHANGED <<job, batches, features, clusters, pairs, reply>>

----------------------------------------------------------------------------
(* The page of the analysis.                                               *)

Card(value, of) == [value |-> value, of |-> of]

\* hasDecisionSummary: the worker stores the counters of a full analysis only.
StatCards ==
  IF job.mode # "cluster_only"
    THEN [DROP   |-> Card(tally.drop, reply.summary.total_scored),
          REVIEW |-> Card(tally.review, reply.summary.total_scored),
          KEEP   |-> Card(tally.keep, reply.summary.total_scored)]
    ELSE [unscored |-> Card(reply.summary.total_scored, Len(job.listing))]

\* DecisionChip, of a row in the table
DecisionChip(row) ==
  IF row.verdict.decision = "none" THEN row.score.label ELSE row.verdict.decision

----------------------------------------------------------------------------
Next == Ingest \/ FindClusters \/ ScoreAndExplain \/ NormaliseClusterOnly
          \/ EnrichAndStore

Spec == Init /\ [][Next]_vars

----------------------------------------------------------------------------
(* Properties.                                                             *)

StoredIn(mode) == stage = "stored" /\ job.mode = mode

Verdict(row, score, size, codes) ==
  ComputeDecision(score, size, job.preset, codes, job.overrides)

\* The offline scripts, whose rules are a second copy of the worker's
\* (presets.py), decide every stored row as the worker did, and go on doing
\* so for every score and size it might have had; the form's third copy
\* shows the thresholds that are then applied (new/page.tsx:8-14); the rule
\* that the drawer cites is one the row meets (analyses/[id]/page.tsx:357);
\* and the look-up page has words for every code but the pairwise one
\* (lookup/page.tsx:30-58).
LanguagesAgree ==
  StoredIn("full") /\ ~job.overrides.given =>
    /\ \A i \in DOMAIN rows : LET codes == EvidenceToCodes(rows[i].score.evidence) IN
         \A s \in ProbeScores, z \in ProbeSizes :
           Verdict(rows[i], s, z, codes) = PyComputeDecision(s, z, job.preset, codes)
    /\ PRESET_THRESHOLDS[job.preset] = ResolveConfig(job.preset, job.overrides)
    /\ \A i \in DOMAIN rows :
         LET cited == DrawerRule(job.preset, rows[i].verdict.decision) IN
         /\ rows[i].verdict.decision # "KEEP" =>
              \/ ScoreFires(rows[i].score.sybil_score, cited)
              \/ SizeFires(rows[i].score.cluster_size, cited)
              \/ PairwiseCode \in rows[i].verdict.codes
         /\ {c.code : c \in rows[i].verdict.codes \ {PairwiseCode}} \subseteq ExplainCode

\* Every address from 40 on has evidence, and every cluster it cites is one
\* of the run that holds the address (generator.py:4-6); only a pair is
\* cited below 40, and no row's own cluster is one (pipeline.py:111-127).
EvidenceTraceable ==
  StoredIn("full") =>
    \A i \in DOMAIN rows : LET row == rows[i].score IN
      /\ row.sybil_score >= 40 => row.evidence # {}
      /\ row.sybil_score < 40 => row.evidence = PairItems(row.address)
      /\ row.cluster_id # NoCluster =>
           \E j \in DOMAIN clusters : clusters[j].id = row.cluster_id
      /\ \A e \in row.evidence : e.cluster # NoCluster =>
           \E c \in Range(clusters) \cup pairs :
             c.id = e.cluster /\ row.address \in c.addresses

\* The counters of the analysis are those of its rows: by label, by decision
\* and by the largest cluster (_summarize, label_from_score, the worker's
\* loop).  All of the three places have thresholds of their own.  The cards
\* at the top of its page count the chips in the table below, all of them and
\* never out of fewer (analyses/[id]/page.tsx:144-223, 638-675).
SummaryMatchesRows ==
  stage = "stored" =>
    LET Labelled(l) == Cardinality({i \in DOMAIN rows : rows[i].score.label = l})
        sum == reply.summary
    IN /\ sum.total_scored = Entries(rows)
       /\ sum.largest_cluster_size = Greatest({0} \cup {rows[i].score.cluster_size :
                                                          i \in DOMAIN rows})
       /\ job.mode = "full" =>
            /\ sum.sybil_count = Labelled("sybil")
            /\ sum.suspicious_count = Labelled("suspicious")
            /\ sum.genuine_count = Labelled("genuine")
            /\ tally.drop + tally.review + tally.keep = Entries(rows)
       /\ \A i \in DOMAIN rows : DecisionChip(rows[i]) \in DOMAIN StatCards
       /\ \A name \in DOMAIN StatCards : LET card == StatCards[name] IN
            /\ card.value = Cardinality({i \in DOMAIN rows : DecisionChip(rows[i]) = name})
            /\ card.value <= card.of

\* A cluster_only analysis shows an address in the cluster that a full one
\* would: the worker's scan and the pipeline's max() break ties alike.
ModesAgreeOnCluster ==
  StoredIn("cluster_only") =>
    \A i \in DOMAIN rows : LET row == rows[i].score IN
      row.cluster_id = IdOf(ClustersWith(clusters, row.address))

\* First sight says of an address what an analysis of that address alone on
\* that chain says, evidence included (run_first_sight:246-254).
AloneIsFirstSight ==
  StoredIn("full") /\ Cardinality(Addresses) = 1 /\ Cardinality(Chains) = 1 =>
    \A i \in DOMAIN rows : LET row == rows[i].score IN
      RunFirstSight(batches[Primary][row.address])
        = [sybil_score |-> row.sybil_score, label |-> row.label,
           evidence |-> row.evidence]
=============================================================================
