----------------------------- MODULE ResultPages -----------------------------
(* The lists that a client reads page by page: the rows of an analysis and *)
(* its entries in the audit log (routes/analyses.ts, routes/audit-log.ts). *)
(* Every page is a query of its own, and rows that its ORDER BY does not   *)
(* tell apart come in any order.  The rows of an analysis and its entries  *)
(* are stored in one transaction, so the entries have one created_at.      *)
EXTENDS Naturals, Sequences, FiniteSets, SequencesExt

CONSTANTS
  Tables,      \* what an analysis may have stored: [address, chain, score, decision]
  PageLimit,   \* 1000
  PageSizes,   \* values of ?limit=
  Decisions    \* values of ?decision=, "" for none

\* Rows of a list without repeats: each address has one on each chain.
ASSUME ResultPagesAssumption ==
  /\ PageLimit \in Nat \ {0} /\ PageSizes \subseteq Nat \ {0}
  /\ \A table \in Tables :
       /\ IsFiniteSet(table) /\ \A r \in table : r.score \in Nat /\ r.address \in Nat
       /\ \A r, q \in table : r.address = q.address /\ r.chain = q.chain => r = q

VARIABLES rows, walk

resultVars == <<rows, walk>>

NoWalk == [list |-> "none", decision |-> "", limit |-> 1, page |-> 0, got |-> << >>,
           done |-> FALSE]

ResultPagesInit == rows \in Tables /\ walk = NoWalk

Selected(list, decision) ==
  IF list = "results" THEN {r \in rows : decision \in {"", r.decision}} ELSE rows

BeforeByScore(list, r, q) == list # "audit" /\ r.score > q.score
\* orderBy() of the three queries.
Before(list, r, q) ==
  \/ list # "audit" /\ r.score > q.score
  \/ list = "results" /\ r.score = q.score /\ r.address < q.address

Answers(list, selected) ==
  {s \in SetToSeqs(selected) :
     \A i, j \in DOMAIN s : Before(list, s[i], s[j]) => i < j}

Page(answer, page, limit) ==
  SubSeq(answer, page * limit + 1,
         IF (page + 1) * limit < Len(answer) THEN (page + 1) * limit ELSE Len(answer))

\* The limit of results is cut to 1000; the audit log refuses more.
StartWalk ==
  /\ walk = NoWalk
  /\ \E list \in {"results", "audit"}, limit \in PageSizes, decision \in Decisions :
       /\ list = "audit" => limit <= PageLimit /\ decision = ""
       /\ walk' = [NoWalk EXCEPT !.list = list, !.decision = decision,
                     !.limit = IF limit < PageLimit THEN limit ELSE PageLimit]
  /\ UNCHANGED rows

\* The client asks for the next page until one is not full.
ReadPage ==
  /\ walk.list # "none" /\ ~walk.done
  /\ \E answer \in Answers(walk.list, Selected(walk.list, walk.decision)) :
       LET page == Page(answer, walk.page, walk.limit) IN
         walk' = [walk EXCEPT !.got = @ \o page, !.page = @ + 1,
                              !.done = Len(page) < walk.limit]
  /\ UNCHANGED rows

\* The CSV file has every row, by score alone.
Export ==
  /\ walk = NoWalk
  /\ \E answer \in Answers("export", rows) :
       walk' = [NoWalk EXCEPT !.list = "export", !.got = answer, !.done = TRUE]
  /\ UNCHANGED rows

ResultPagesNext == StartWalk \/ ReadPage \/ Export

ResultPagesSpec == ResultPagesInit /\ [][ResultPagesNext]_resultVars
----------------------------------------------------------------------------
OneChain == Cardinality({r.chain : r \in rows}) <= 1

\* Reading an analysis of one chain page by page, in queries that know nothing
\* of each other, gives every row that the filter selects once and no other
\* (the order by score and then address leaves no ties); the audit log, whose
\* order does leave them, only when it fits on one page.
PagesPartition ==
  walk.done /\ (walk.list = "results" => OneChain)
            /\ (walk.list = "audit" => Cardinality(rows) <= walk.limit)
  => /\ Range(walk.got) = Selected(walk.list, walk.decision)
     /\ Len(walk.got) = Cardinality(Range(walk.got))
=============================================================================
