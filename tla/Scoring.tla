------------------------------- MODULE Scoring -------------------------------
(***************************************************************************)
(* From histories to a score and its evidence: the features that a rule or *)
(* an evidence item looks at (apps/ml/sybilshield/features), the fallback  *)
(* score (_rule_based_scoring), the labels and the evidence items.         *)
(* Entropies and correlations are in hundredths, and where scipy or numpy   *)
(* computes them they are a part of the history: hourEntropy, correlation. *)
(***************************************************************************)
EXTENDS Clustering

----------------------------------------------------------------------------
(* extract_temporal_features().                                            *)

Times(h) == SortSeq(SelectSeq(h.stamps, LAMBDA t : t # 0), <)

Gaps(times) == [i \in 1..(Len(times) - 1) |-> times[i + 1] - times[i]]

Constant(s) == \A i, j \in DOMAIN s : s[i] = s[j]

\* _autocorr() > 0.7: the correlation of the gaps with their successors.  A
\* side without variance counts as perfectly regular; two pairs of gaps lie
\* on a line, so that four transactions correlate by 1 or -1; of more pairs
\* the history says what numpy computes.
Regular(gaps, correlation) ==
  LET x == SubSeq(gaps, 1, Len(gaps) - 1)
      y == Tail(gaps)
  IN /\ Len(gaps) >= 3
     /\ \/ Constant(x) \/ Constant(y)
        \/ Len(gaps) = 3 /\ (gaps[1] < gaps[2] <=> gaps[2] < gaps[3])
        \/ Len(gaps) > 3 /\ correlation > 70

\* Under two transactions there is no timing: every feature is its default.
TemporalFeatures(h) ==
  LET times == Times(h)  gaps == Gaps(times)
  IN IF Len(times) < 2
       THEN [hour_entropy |-> 0, min_inter_tx_seconds |-> 0, regular |-> FALSE,
             account_age_days |-> 0]
       ELSE [hour_entropy |-> h.hourEntropy,
             min_inter_tx_seconds |-> Least({gaps[i] : i \in DOMAIN gaps}),
             regular |-> Regular(gaps, h.correlation),
             account_age_days |->
               LET days == (times[Len(times)] - times[1]) \div Day
               IN IF days < 1 THEN 1 ELSE days]

----------------------------------------------------------------------------
(* compute_same_funder_counts(), extract_funding_features() and, of the    *)
(* behavioral features, the one a rule looks at.                           *)

SameFunderCount(batch, a) == Cardinality(FundedBy(batch, batch[a].funder))

\* extract_all_features(): one record per address of the batch.
ExtractAllFeatures(batch) ==
  [a \in DOMAIN batch |->
     [temporal |-> TemporalFeatures(batch[a]),
      funding_source_is_exchange |-> batch[a].funder \in KnownExchanges,
      same_funder_count |-> SameFunderCount(batch, a),
      total_tx_count |-> Len(batch[a].stamps)]]

----------------------------------------------------------------------------
(* _rule_based_scoring() and label_from_score().                           *)

LabelFromScore(score) ==
  IF score >= 70 THEN "sybil" ELSE IF score >= 40 THEN "suspicious" ELSE "genuine"

If(condition, points) == IF condition THEN points ELSE 0

In(memberships, method) == \E i \in DOMAIN memberships : memberships[i].method = method

Scripted(t) == t.min_inter_tx_seconds \in 1..59

RuleScore(f, memberships) ==
  LET points == If(In(memberships, "funding"), 35) + If(In(memberships, "behavior"), 25)
                + If(In(memberships, "graph"), 20) + If(In(memberships, "cross_chain"), 15)
                + If(f.temporal.hour_entropy \in 1..119, 15)
                + If(Scripted(f.temporal), 10) + If(f.temporal.regular, 10)
                + If(f.total_tx_count < 5, 5)
  IN IF points > 100 THEN 100 ELSE points

----------------------------------------------------------------------------
(* generate_evidence().  A cluster's item cites it; the others cite none.  *)

NoCluster == [method |-> "none", nodes |-> {}]

Item(type) == [type |-> type, cluster |-> NoCluster]

ItemOfMethod == [funding |-> "shared_funding", behavior |-> "behavioral_clone",
                 graph |-> "graph_cluster", cross_chain |-> "cross_chain_link"]

ClusterItems(memberships) ==
  {[type |-> ItemOfMethod[memberships[i].method], cluster |-> memberships[i].id] :
     i \in DOMAIN memberships}

\* The features have account_age_days; address_age_days, which is asked
\* for, is not among them and reads as 0.
AddressAgeDays(f) == 0

ThinAccount(f) == f.total_tx_count \in 1..9 /\ AddressAgeDays(f) < 30

RuleItems(f, memberships) ==
  {Item(t) : t \in
     {u \in {"low_entropy", "temporal_scripting", "high_autocorrelation",
             "shared_funding_weak", "thin_account"} :
        CASE u = "low_entropy"          -> f.temporal.hour_entropy \in 1..149
          [] u = "temporal_scripting"   -> Scripted(f.temporal)
          [] u = "high_autocorrelation" -> f.temporal.regular
          [] u = "shared_funding_weak"  -> /\ f.same_funder_count >= 3
                                           /\ ~In(memberships, "funding")
          [] u = "thin_account"         -> ThinAccount(f)}}

GenerateEvidenceWithoutFloor(score, f, memberships) ==
  IF score < 40 THEN {} ELSE ClusterItems(memberships) \cup RuleItems(f, memberships)

\* Nothing below 40; from 40 on at least one item.
GenerateEvidence(score, f, memberships) ==
  LET items == ClusterItems(memberships) \cup RuleItems(f, memberships)
  IN IF score < 40 THEN {}
     ELSE IF items = {} THEN {Item("model_classification")}
     ELSE items
=============================================================================
