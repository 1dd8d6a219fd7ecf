---------------------------- MODULE AnalysisPage ----------------------------
(* The dashboard's page of one analysis (dashboard/analyses/[id]/page.tsx) *)
(* in a browser, against the API that AnalysisContract describes.  React   *)
(* runs the polling effect anew whenever the filter changes; what an older *)
(* effect has asked for still arrives.                                     *)
EXTENDS Naturals, Sequences

CONSTANTS
  Filters,     \* the values of the decision filter, "" for all
  RowsOf,      \* the rows that each of them selects
  MaxEffects   \* bound: how often the filter can change, and one

ASSUME AnalysisPageAssumption ==
  "" \in Filters /\ DOMAIN RowsOf = Filters /\ MaxEffects \in Nat \ {0}

VARIABLES
  view, readable, announced,   \* the analysis, on the server
  page,        \* "closed", "open", or "crashed" while it was rendered
  ticks,       \* for each run of the effect, where its tick() is
  shown,       \* analysis.status
  table,       \* results
  broken,      \* error
  clusters, clusterFetch       \* what the graph has, and how its fetch ended

pageVars == <<view, readable, announced, page, ticks, shown, table, broken,
              clusters, clusterFetch>>
serverVars == <<view, readable, announced>>

Server == INSTANCE AnalysisContract WITH Analyses <- {"it"}

Answer(is, rows) == [is |-> is, rows |-> rows]
NoAnswer == Answer("none", {})
Tick(filter) == [filter |-> filter, at |-> "asking", got |-> NoAnswer]

AnalysisPageInit ==
  /\ Server!Init
  /\ page = "closed" /\ ticks = << >> /\ shown = "none" /\ table = {}
  /\ broken = FALSE /\ clusters = "none" /\ clusterFetch = "none"

Cancelled(n) == n < Len(ticks) \/ page # "open"
Goes(n, at, got) ==
  ticks' = [ticks EXCEPT ![n] = [filter |-> @.filter, at |-> at, got |-> got]]

OpenPage ==
  /\ page = "closed" /\ ticks = << >> /\ view["it"] # "none"
  /\ page' = "open" /\ ticks' = <<Tick("")>>
  /\ UNCHANGED <<serverVars, shown, table, broken, clusters, clusterFetch>>

LeavePage ==
  /\ page = "open" /\ page' = "closed"
  /\ UNCHANGED <<serverVars, ticks, shown, table, broken, clusters, clusterFetch>>

\* The cleanup cancels the tick of the old filter, and a tick of the new one
\* starts.
ChooseFilter ==
  /\ page = "open" /\ shown = "ready" /\ Len(ticks) < MaxEffects
  /\ \E f \in Filters \ {ticks[Len(ticks)].filter} : ticks' = Append(ticks, Tick(f))
  /\ UNCHANGED <<serverVars, page, shown, table, broken, clusters, clusterFetch>>

\* The requests of a tick, answered by the server, refused (401, 404, 429) or
\* lost.
AnswerAnalysis(n) ==
  /\ ticks[n].at = "asking"
  /\ \E is \in {view["it"], "refused", "lost"} : Goes(n, "answered", Answer(is, {}))
  /\ UNCHANGED <<serverVars, page, shown, table, broken, clusters, clusterFetch>>

AnswerResults(n) ==
  /\ ticks[n].at = "listing"
  /\ \E got \in {Answer("rows", IF readable["it"] THEN RowsOf[ticks[n].filter] ELSE {}),
                 Answer("refused", {}), Answer("lost", {})} : Goes(n, "listed", got)
  /\ UNCHANGED <<serverVars, page, shown, table, broken, clusters, clusterFetch>>

AnswerTooLate(n) ==
  /\ ticks[n].at \in {"answered", "listed"} /\ Cancelled(n)
  /\ Goes(n, "ended", ticks[n].got)
  /\ UNCHANGED <<serverVars, page, shown, table, broken, clusters, clusterFetch>>

\* An answer that is no JSON, or none: the poll is over.
AnswerLost(n) ==
  /\ ticks[n].at \in {"answered", "listed"} /\ ~Cancelled(n) /\ ticks[n].got.is = "lost"
  /\ broken' = TRUE /\ Goes(n, "ended", ticks[n].got)
  /\ UNCHANGED <<serverVars, page, shown, table, clusters, clusterFetch>>

\* A refusal has no address_count, and ProgressCard cannot be rendered.
AnalysisRefused(n) ==
  /\ ticks[n].at = "answered" /\ ~Cancelled(n) /\ ticks[n].got.is = "refused"
  /\ page' = "crashed" /\ Goes(n, "ended", ticks[n].got)
  /\ UNCHANGED <<serverVars, shown, table, broken, clusters, clusterFetch>>

After == [waiting |-> "sleeping", ready |-> "listing", failed |-> "ended"]

\* setAnalysis(); when the status changes, the clusters' effect runs anew.
ShowAnalysis(n) ==
  /\ ticks[n].at = "answered" /\ ~Cancelled(n)
  /\ LET status == ticks[n].got.is IN
       /\ status \in DOMAIN After
       /\ shown' = status /\ Goes(n, After[status], ticks[n].got)
       /\ clusterFetch' = IF status = shown THEN clusterFetch
                          ELSE IF status = "ready" THEN "asking" ELSE "none"
  /\ UNCHANGED <<serverVars, page, table, broken, clusters>>

ShowResultsUnchecked(n) ==
  /\ ticks[n].at = "listed" /\ ticks[n].got.is \in {"rows", "refused"}
  /\ table' = ticks[n].got.rows /\ Goes(n, "ended", ticks[n].got)
  /\ UNCHANGED <<serverVars, page, shown, broken, clusters, clusterFetch>>
\* setResults(r.data ?? [])
ShowResults(n) ==
  /\ ticks[n].at = "listed" /\ ~Cancelled(n) /\ ticks[n].got.is \in {"rows", "refused"}
  /\ table' = ticks[n].got.rows /\ Goes(n, "ended", ticks[n].got)
  /\ UNCHANGED <<serverVars, page, shown, broken, clusters, clusterFetch>>

\* Two seconds later; clearTimeout() took the timer of a cancelled tick.
PollAgain(n) ==
  /\ ticks[n].at = "sleeping" /\ ~Cancelled(n)
  /\ Goes(n, "asking", NoAnswer)
  /\ UNCHANGED <<serverVars, page, shown, table, broken, clusters, clusterFetch>>

ShowClusters ==
  /\ page = "open" /\ clusterFetch = "asking"
  /\ \/ /\ clusters' = IF readable["it"] THEN "stored" ELSE "none"
        /\ clusterFetch' = "answered"
     \/ clusters' = "none" /\ clusterFetch' = "refused"
     \/ clusterFetch' = "lost" /\ UNCHANGED clusters
  /\ UNCHANGED <<serverVars, page, ticks, shown, table, broken>>

ServerStep ==
  /\ Server!Next
  /\ UNCHANGED <<page, ticks, shown, table, broken, clusters, clusterFetch>>

AnalysisPageNext ==
  \/ ServerStep \/ OpenPage \/ LeavePage \/ ChooseFilter \/ ShowClusters
  \/ \E n \in DOMAIN ticks :
       \/ AnswerAnalysis(n) \/ AnswerResults(n) \/ AnswerTooLate(n) \/ AnswerLost(n)
       \/ AnalysisRefused(n) \/ ShowAnalysis(n) \/ ShowResults(n) \/ PollAgain(n)

AnalysisPageSpec == AnalysisPageInit /\ [][AnalysisPageNext]_pageVars
----------------------------------------------------------------------------
\* Once the table of a finished analysis has had its answer, it holds all the
\* rows of the filter that is selected, however late the answers for another
\* filter come in (page.tsx:89); and the graph's clusters are the stored ones.
ShowsItsFilter ==
  page = "open" /\ shown = "ready" =>
    /\ LET t == ticks[Len(ticks)] IN
         t.at = "ended" /\ t.got.is = "rows" => table = RowsOf[t.filter]
    /\ clusterFetch = "answered" => clusters = "stored"
=============================================================================
