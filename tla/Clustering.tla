----------------------------- MODULE Clustering -----------------------------
(***************************************************************************)
(* The clusters of a batch (apps/ml/sybilshield/clustering).  A batch maps *)
(* addresses to what ingest_address() has found of their history on one    *)
(* chain:                                                                  *)
(*   funder, at : the sender and time of the first incoming value          *)
(*                (Nobody, 0 when there is none)                           *)
(*   stamps     : the times of its transactions, 0 for a missing one       *)
(*   bridged    : it has sent to a known bridge contract                   *)
(* A cluster lists nodes, pairs of chain and address; its id is hashed     *)
(* from its root, which determines its nodes.                              *)
(***************************************************************************)
EXTENDS Integers, FiniteSets, SequencesExt

CONSTANTS
  Nobody,          \* no funder
  KnownExchanges,  \* hot wallets and bridges of data/known_exchanges.py
  BehaviorMin,     \* min_cluster_size of cluster_by_behavior()
  GraphMin,        \* min_size of detect_communities()
  GraphMax         \* max_size of detect_communities()

Hour == 3600
Day  == 24 * Hour

Cluster(method, nodes, size, confidence) ==
  [id |-> [method |-> method, nodes |-> nodes], method |-> method,
   addresses |-> {n[2] : n \in nodes}, size |-> size, confidence |-> confidence]

On(chain, addresses) == {<<chain, a>> : a \in addresses}

Greatest(S) == CHOOSE x \in S : \A y \in S : y <= x
Least(S)    == CHOOSE x \in S : \A y \in S : x <= y

----------------------------------------------------------------------------
(* cluster_by_funding_source(): confidence in percent.                     *)

\* The addresses whose funder is f, unless f is an exchange.
FundedBy(batch, f) ==
  {a \in DOMAIN batch : batch[a].funder = f /\ f \notin {Nobody} \cup KnownExchanges}

SpreadConfidence(times) ==
  LET spread == Greatest(times) - Least(times)
  IN CASE spread < Day -> 95
       [] spread >= Day /\ spread < 7 * Day -> 80
       [] spread >= 7 * Day -> 60

FundingGroups(batch) ==
  {FundedBy(batch, batch[a].funder) : a \in DOMAIN batch} \ {{}}

FundingTimes(batch, group) == {batch[a].at : a \in group} \ {0}

\* In some order: an address is in one of these at most, so that among its
\* clusters the order does not show.
ClusterByFundingSource(chain, batch, minClusterSize) ==
  LET kept == {g \in FundingGroups(batch) :
                 Cardinality(g) >= minClusterSize /\ FundingTimes(batch, g) # {}}
      order == SetToSeq(kept)
  IN [i \in DOMAIN order |->
        Cluster("funding", On(chain, order[i]), Cardinality(order[i]),
                SpreadConfidence(FundingTimes(batch, order[i])))]

----------------------------------------------------------------------------
(* cluster_by_behavior() and detect_communities(): HDBSCAN with its        *)
(* fallbacks and Leiden may return any disjoint groups of legal size.      *)

Disjoint(groups) == \A g, h \in groups : g # h => g \cap h = {}

BehaviorGroupings(addresses) ==
  {gs \in SUBSET {g \in SUBSET addresses : Cardinality(g) >= BehaviorMin} :
     Disjoint(gs)}

GraphGroupings(addresses) ==
  {gs \in SUBSET {g \in SUBSET addresses :
                    Cardinality(g) \in GraphMin..GraphMax} : Disjoint(gs)}

\* In some order of the labels, of which an address has one; confidence is
\* not looked at again.
ClustersOf(method, chain, groups) ==
  LET order == SetToSeq(groups)
  IN [i \in DOMAIN order |->
        Cluster(method, On(chain, order[i]), Cardinality(order[i]), 50)]

----------------------------------------------------------------------------
(* link_cross_chain(): batches maps each chain to its batch.               *)

LinkWindow == 600

NodesOf(batches) == UNION {On(c, DOMAIN batches[c]) : c \in DOMAIN batches}
HistoryOf(batches, n) == batches[n[1]][n[2]]

\* A transaction to a bridge links the address with itself on every chain.
SelfBridged(batches, m, n) ==
  m[2] = n[2] /\ (HistoryOf(batches, m).bridged \/ HistoryOf(batches, n).bridged)

\* The same funder, whoever it is, on two chains within ten minutes.
FundedTogether(batches, m, n) ==
  LET p == HistoryOf(batches, m)  q == HistoryOf(batches, n)
  IN /\ p.funder = q.funder /\ p.funder # Nobody
     /\ p.at # 0 /\ q.at # 0
     /\ p.at - q.at \in -LinkWindow..LinkWindow

Linked(batches, m, n) ==
  m[1] # n[1] /\ (SelfBridged(batches, m, n) \/ FundedTogether(batches, m, n))

\* The component of n: what every set that is closed under links and has n
\* contains.
Entity(batches, n) ==
  LET nodes == NodesOf(batches)
      links == {p \in nodes \X nodes : Linked(batches, p[1], p[2])}
      Closed(S) == \A p \in links : p[1] \in S => p[2] \in S
  IN {m \in nodes : \A S \in SUBSET nodes : n \in S /\ Closed(S) => m \in S}

\* The size counts nodes: an address counts once per chain, and may be in two
\* clusters.  They are in any order; the code's is that of the chains.
LinkCrossChain(batches) ==
  LET entities == {Entity(batches, n) : n \in NodesOf(batches)}
      kept == {e \in entities : Cardinality(e) >= 3 /\ Cardinality({n[1] : n \in e}) >= 2}
  IN {[i \in DOMAIN order |->
         Cluster("cross_chain", order[i], Cardinality(order[i]), 85)] :
        order \in SetToSeqs(kept)}

----------------------------------------------------------------------------
(* merge_clusters(): the clusters of an address, at their places in the    *)
(* list of all of them.                                                    *)

ClustersWith(clusters, a) ==
  Restrict(clusters, {i \in DOMAIN clusters : a \in clusters[i].addresses})
=============================================================================
