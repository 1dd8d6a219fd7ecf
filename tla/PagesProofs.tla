----------------------------- MODULE PagesProofs -----------------------------
(* Proofs about the pages of the web application in one browser: the page  *)
(* of an analysis, the customer's key, the lists of the dashboard, the     *)
(* form for a new analysis and the lists that are read page by page, for   *)
(* any number of requests, filters, changes, texts and rows.               *)
EXTENDS AnalysisPage, KeyPages, DashboardLists, NewAnalysisPage, ResultPages,
        FiniteSetTheorems, SequenceTheorems, TLAPS

----------------------------------------------------------------------------
(* The page of an analysis.                                                *)

\* How an answer can come out: an analysis in some state, rows or neither.
Outcomes == {"none", "waiting", "ready", "failed", "refused", "lost", "rows"}
Replies == [is : Outcomes, rows : {{}} \cup {RowsOf[f] : f \in Filters}]
Places == {"asking", "answered", "listing", "listed", "sleeping", "ended"}
Ticks == [filter : Filters, at : Places, got : Replies]

PageTypes ==
  /\ view \in [{"it"} -> {"none", "waiting", "ready", "failed"}]
  /\ readable \in [{"it"} -> BOOLEAN]
  /\ page \in {"closed", "open", "crashed"}
  /\ ticks \in Seq(Ticks)
  /\ ticks = << >> => page = "closed"

\* Nobody says "ready" before the rows can be read, and they stay readable;
\* so what a tick asks for then is there.
ReadyIsReadable ==
  /\ view["it"] = "ready" => readable["it"]
  /\ clusterFetch = "asking" => readable["it"]
  /\ clusterFetch = "answered" => clusters = "stored"

\* What a tick has got: rows come after the list was asked for, and are those
\* of its own filter.
TickKnows(n) ==
  LET t == ticks[n] IN
  /\ t.got.is = "rows" => t.at \in {"listed", "ended"} /\ t.got.rows = RowsOf[t.filter]
  /\ t.at = "answered" /\ t.got.is = "ready" => readable["it"]
  /\ t.at = "listing" => readable["it"]

\* The last tick, the only one that is not cancelled, has put its rows into
\* the table.
LastTickShown ==
  page = "open" => LET t == ticks[Len(ticks)] IN
                     t.at = "ended" /\ t.got.is = "rows" => table = RowsOf[t.filter]

PageInv ==
  /\ PageTypes /\ ReadyIsReadable /\ LastTickShown
  /\ \A n \in DOMAIN ticks : TickKnows(n)

\* Goes changes where one tick is and what it has got.
LEMMA GoingOn ==
  ASSUME PageTypes, NEW n \in DOMAIN ticks,
         NEW at \in Places, NEW got \in Replies,
         Goes(n, at, got)
  PROVE  /\ ticks' \in Seq(Ticks) /\ ticks' # << >>
         /\ DOMAIN ticks' = DOMAIN ticks /\ Len(ticks') = Len(ticks)
         /\ \A m \in DOMAIN ticks : m # n => ticks'[m] = ticks[m]
         /\ ticks'[n].at = at /\ ticks'[n].got = got
         /\ ticks'[n].filter = ticks[n].filter
<1> DEFINE new == [filter |-> ticks[n].filter, at |-> at, got |-> got]
<1>1. /\ ticks \in Seq(Ticks) /\ DOMAIN ticks = 1..Len(ticks) /\ Len(ticks) \in Nat
      /\ ticks \in [1..Len(ticks) -> Ticks]
  BY LenProperties DEF PageTypes
<1>2. ticks[n] \in Ticks
  BY <1>1, ElementOfSeq
<1>3. new \in Ticks
  BY <1>2 DEF Ticks
<1>4. ticks' = [ticks EXCEPT ![n] = new]
  BY <1>1, <1>2 DEF Goes, Ticks
<1>5. /\ ticks' \in Seq(Ticks) /\ Len(ticks') = Len(ticks) /\ DOMAIN ticks' = DOMAIN ticks
      /\ ticks'[n] = new /\ \A m \in DOMAIN ticks : m # n => ticks'[m] = ticks[m]
  BY <1>1, <1>3, <1>4, ExceptSeq
<1>6. ticks' # << >>
  BY <1>1, <1>5
<1> QED
  BY <1>5, <1>6

\* A step that leaves the ticks, the table and the tab alone, and takes no row
\* away.
LEMMA TicksStay ==
  ASSUME PageInv, UNCHANGED <<ticks, table>>, readable["it"] => readable'["it"],
         page' = page \/ page' = "closed"
  PROVE  LastTickShown' /\ (\A n \in DOMAIN ticks : TickKnows(n))'
<1>1. \A n \in DOMAIN ticks : TickKnows(n)'
  BY DEF PageInv, TickKnows
<1> QED
  BY <1>1 DEF PageInv, LastTickShown

\* A tick goes on as it should: it knows what it has to, and when it is the
\* last one to have its rows, they are in the table.
LEMMA TickGoesOn ==
  ASSUME PageInv, NEW n \in DOMAIN ticks, NEW at \in Places, NEW got \in Replies,
         Goes(n, at, got), UNCHANGED readable,
         got.is = "rows" => at \in {"listed", "ended"} /\ got.rows = RowsOf[ticks[n].filter],
         at = "answered" /\ got.is = "ready" => readable["it"],
         at = "listing" => readable["it"],
         page' \in {page, "crashed"},
         page' = "open" => IF n < Len(ticks) THEN table' = table
                           ELSE at = "ended" /\ got.is = "rows" =>
                                  table' = RowsOf[ticks[n].filter]
  PROVE  /\ ticks' \in Seq(Ticks) /\ ticks' # << >>
         /\ LastTickShown' /\ (\A m \in DOMAIN ticks : TickKnows(m))'
<1>1. /\ ticks' \in Seq(Ticks) /\ ticks' # << >>
      /\ DOMAIN ticks' = DOMAIN ticks /\ Len(ticks') = Len(ticks)
      /\ \A m \in DOMAIN ticks : m # n => ticks'[m] = ticks[m]
      /\ ticks'[n].at = at /\ ticks'[n].got = got
      /\ ticks'[n].filter = ticks[n].filter
  BY GoingOn DEF PageInv
<1>2. DOMAIN ticks = 1..Len(ticks) /\ Len(ticks) \in Nat
  BY LenProperties DEF PageInv, PageTypes
<1>3. ASSUME NEW m \in DOMAIN ticks PROVE TickKnows(m)'
  BY <1>1 DEF PageInv, TickKnows
<1>4. LastTickShown'
  <2> SUFFICES ASSUME page' = "open", ticks'[Len(ticks')].at = "ended",
                      ticks'[Len(ticks')].got.is = "rows"
               PROVE  table' = RowsOf[ticks'[Len(ticks')].filter]
    BY DEF LastTickShown
  <2>1. page = "open" OBVIOUS
  <2>2. CASE n < Len(ticks)
    BY <1>1, <1>2, <2>1, <2>2 DEF PageInv, LastTickShown
  <2>3. CASE ~(n < Len(ticks))
    BY <1>1, <1>2, <2>3
  <2> QED
    BY <2>2, <2>3
<1> QED
  BY <1>1, <1>3, <1>4

\* The steps of one tick.
LEMMA TickSteps ==
  ASSUME PageInv, NEW n \in DOMAIN ticks,
         \/ AnswerAnalysis(n) \/ AnswerResults(n) \/ AnswerTooLate(n) \/ AnswerLost(n)
         \/ AnalysisRefused(n) \/ ShowAnalysis(n) \/ ShowResults(n) \/ PollAgain(n)
  PROVE  PageInv'
<1> USE DEF PageInv
<1>1. /\ ticks \in Seq(Ticks) /\ DOMAIN ticks = 1..Len(ticks) /\ Len(ticks) \in Nat
      /\ ticks[n] \in Ticks /\ ticks # << >>
  BY LenProperties, ElementOfSeq, EmptySeq DEF PageTypes
<1>2. /\ ticks[n].at \in Places /\ ticks[n].got \in Replies /\ ticks[n].filter \in Filters
      /\ ticks[n].got.is \in Outcomes
  BY <1>1 DEF Ticks, Replies
<1>3. NoAnswer \in Replies
  BY DEF NoAnswer, Answer, Replies, Outcomes
<1>4. TickKnows(n)
  OBVIOUS
<1> DEFINE Kept == LastTickShown' /\ (\A m \in DOMAIN ticks : TickKnows(m))'
<1>5. CASE AnswerAnalysis(n)
  <2>1. PICK is \in {view["it"], "refused", "lost"} : Goes(n, "answered", Answer(is, {}))
    BY <1>5 DEF AnswerAnalysis
  <2>2. /\ UNCHANGED <<view, readable, page, shown, table, broken, clusters, clusterFetch>>
        /\ is \in Outcomes /\ is # "rows"
    BY <1>5 DEF AnswerAnalysis, serverVars, PageTypes, Outcomes
  <2>3. Answer(is, {}) \in Replies /\ Answer(is, {}).is = is /\ "answered" \in Places
    BY <2>2 DEF Answer, Replies, Places
  <2>4. is = "ready" => readable["it"]
    BY DEF ReadyIsReadable
  <2>5. ticks' \in Seq(Ticks) /\ ticks' # << >> /\ Kept
    BY <2>1, <2>2, <2>3, <2>4, TickGoesOn
  <2> QED
    BY <2>2, <2>5 DEF PageTypes, ReadyIsReadable
<1>6. CASE AnswerResults(n)
  <2>1. PICK got \in {Answer("rows", RowsOf[ticks[n].filter]),
                      Answer("refused", {}), Answer("lost", {})} : Goes(n, "listed", got)
    BY <1>6, <1>4 DEF AnswerResults, TickKnows
  <2>2. UNCHANGED <<view, readable, page, shown, table, broken, clusters, clusterFetch>>
    BY <1>6 DEF AnswerResults, serverVars
  <2>3. /\ got \in Replies /\ "listed" \in Places
        /\ got.is = "rows" => got.rows = RowsOf[ticks[n].filter]
    BY <1>2 DEF Answer, Replies, Outcomes, Places
  <2>4. ticks' \in Seq(Ticks) /\ ticks' # << >> /\ Kept
    BY <2>1, <2>2, <2>3, TickGoesOn
  <2> QED
    BY <2>2, <2>4 DEF PageTypes, ReadyIsReadable
<1>7. CASE AnswerTooLate(n)
  <2>1. /\ UNCHANGED <<view, readable, page, shown, table, broken, clusters, clusterFetch>>
        /\ Goes(n, "ended", ticks[n].got) /\ "ended" \in Places
        /\ n < Len(ticks) \/ page # "open"
    BY <1>7 DEF AnswerTooLate, serverVars, Cancelled, Places
  <2>2. ticks' \in Seq(Ticks) /\ ticks' # << >> /\ Kept
    BY <2>1, <1>2, <1>4, TickGoesOn DEF TickKnows
  <2> QED
    BY <2>1, <2>2 DEF PageTypes, ReadyIsReadable
<1>8. CASE AnswerLost(n)
  <2>1. /\ UNCHANGED <<view, readable, page, shown, table, clusters, clusterFetch>>
        /\ Goes(n, "ended", ticks[n].got) /\ "ended" \in Places /\ ticks[n].got.is = "lost"
    BY <1>8 DEF AnswerLost, serverVars, Places
  <2>2. ticks' \in Seq(Ticks) /\ ticks' # << >> /\ Kept
    BY <2>1, <1>2, TickGoesOn
  <2> QED
    BY <2>1, <2>2 DEF PageTypes, ReadyIsReadable
<1>9. CASE AnalysisRefused(n)
  <2>1. /\ UNCHANGED <<view, readable, shown, table, broken, clusters, clusterFetch>>
        /\ Goes(n, "ended", ticks[n].got) /\ "ended" \in Places
        /\ ticks[n].got.is = "refused" /\ page' = "crashed"
    BY <1>9 DEF AnalysisRefused, serverVars, Places
  <2>2. ticks' \in Seq(Ticks) /\ ticks' # << >> /\ Kept
    BY <2>1, <1>2, TickGoesOn
  <2> QED
    BY <2>1, <2>2 DEF PageTypes, ReadyIsReadable
<1>10. CASE ShowAnalysis(n)
  <2> DEFINE status == ticks[n].got.is
  <2>1. /\ UNCHANGED <<view, readable, page, table, broken, clusters>>
        /\ Goes(n, After[status], ticks[n].got) /\ ticks[n].at = "answered"
        /\ status \in {"waiting", "ready", "failed"}
        /\ clusterFetch' = IF status = shown THEN clusterFetch
                           ELSE IF status = "ready" THEN "asking" ELSE "none"
    BY <1>10 DEF ShowAnalysis, serverVars, After
  <2>2. /\ After[status] \in Places
        /\ After[status] = "listing" => status = "ready"
        /\ After[status] # "answered"
    BY <2>1 DEF After, Places
  <2>3. status = "ready" => readable["it"]
    BY <1>4, <2>1 DEF TickKnows
  <2>4. ticks' \in Seq(Ticks) /\ ticks' # << >> /\ Kept
    BY <2>1, <2>2, <2>3, <1>2, TickGoesOn
  <2> QED
    BY <2>1, <2>3, <2>4 DEF PageTypes, ReadyIsReadable
<1>11. CASE ShowResults(n)
  <2>1. /\ UNCHANGED <<view, readable, page, shown, broken, clusters, clusterFetch>>
        /\ Goes(n, "ended", ticks[n].got) /\ "ended" \in Places
        /\ table' = ticks[n].got.rows /\ ~(n < Len(ticks))
    BY <1>11 DEF ShowResults, serverVars, Places, Cancelled
  <2>2. ticks' \in Seq(Ticks) /\ ticks' # << >> /\ Kept
    BY <2>1, <1>2, <1>4, TickGoesOn DEF TickKnows
  <2> QED
    BY <2>1, <2>2 DEF PageTypes, ReadyIsReadable
<1>12. CASE PollAgain(n)
  <2>1. /\ UNCHANGED <<view, readable, page, shown, table, broken, clusters, clusterFetch>>
        /\ Goes(n, "asking", NoAnswer) /\ "asking" \in Places
        /\ NoAnswer.is = "none"
    BY <1>12 DEF PollAgain, serverVars, Places, NoAnswer, Answer
  <2>2. ticks' \in Seq(Ticks) /\ ticks' # << >> /\ Kept
    BY <2>1, <1>3, TickGoesOn
  <2> QED
    BY <2>1, <2>2 DEF PageTypes, ReadyIsReadable
<1> QED
  BY <1>5, <1>6, <1>7, <1>8, <1>9, <1>10, <1>11, <1>12

\* What the server does: rows that can be read stay so, and "ready" is said of
\* nothing else.
LEMMA ServerSteps ==
  ASSUME PageTypes, ReadyIsReadable, Server!Next
  PROVE  /\ view' \in [{"it"} -> {"none", "waiting", "ready", "failed"}]
         /\ readable' \in [{"it"} -> BOOLEAN]
         /\ readable["it"] => readable'["it"]
         /\ view'["it"] = "ready" => readable'["it"]
<1>1. CASE Server!Submit("it")
  BY <1>1 DEF Server!Submit, PageTypes, ReadyIsReadable
<1>2. CASE Server!Work("it")
  BY <1>2 DEF Server!Work, PageTypes, ReadyIsReadable
<1>3. CASE Server!Publish("it")
  BY <1>3 DEF Server!Publish, PageTypes, ReadyIsReadable
<1>4. CASE Server!Ready("it")
  BY <1>4 DEF Server!Ready, PageTypes, ReadyIsReadable
<1>5. CASE Server!Fail("it")
  BY <1>5 DEF Server!Fail, PageTypes, ReadyIsReadable
<1>6. CASE Server!Announce("it")
  BY <1>6 DEF Server!Announce, PageTypes, ReadyIsReadable
<1> QED
  BY <1>1, <1>2, <1>3, <1>4, <1>5, <1>6 DEF Server!Next

\* Every other step of the page keeps the invariant too.
LEMMA PageSteps ==
  ASSUME PageInv, [AnalysisPageNext]_pageVars
  PROVE  PageInv'
<1> USE DEF PageInv
<1>1. /\ ticks \in Seq(Ticks) /\ DOMAIN ticks = 1..Len(ticks) /\ Len(ticks) \in Nat
  BY LenProperties DEF PageTypes
<1>2. \A f \in Filters : Tick(f) \in Ticks /\ Tick(f).at = "asking" /\ Tick(f).got.is = "none"
  BY DEF Tick, Ticks, NoAnswer, Answer, Replies, Outcomes, Places
<1>3. CASE UNCHANGED pageVars
  <2>1. UNCHANGED <<view, readable, page, ticks, table, clusters, clusterFetch>>
    BY <1>3 DEF pageVars
  <2> QED
    BY <2>1, TicksStay DEF PageTypes, ReadyIsReadable
<1>4. CASE ServerStep
  <2>1. UNCHANGED <<page, ticks, table, clusters, clusterFetch>> /\ Server!Next
    BY <1>4 DEF ServerStep
  <2> QED
    BY <2>1, ServerSteps, TicksStay DEF PageTypes, ReadyIsReadable
<1>5. CASE OpenPage
  <2>1. /\ UNCHANGED <<view, readable, table, clusters, clusterFetch>>
        /\ page' = "open" /\ ticks' = <<Tick("")>>
    BY <1>5 DEF OpenPage, serverVars
  <2>2. /\ "" \in Filters /\ ticks' \in Seq(Ticks) /\ ticks' # << >>
        /\ Len(ticks') = 1 /\ DOMAIN ticks' = {1} /\ ticks'[1] = Tick("")
    <3>1. "" \in Filters /\ Tick("") \in Ticks
      BY <1>2, AnalysisPageAssumption
    <3>2. ASSUME NEW t \in Ticks
          PROVE  /\ <<t>> \in Seq(Ticks) /\ <<t>> # << >>
                 /\ Len(<<t>>) = 1 /\ DOMAIN <<t>> = {1} /\ <<t>>[1] = t
      OBVIOUS
    <3> QED
      BY <2>1, <3>1, <3>2, Zenon
  <2> QED
    <3>1. PageTypes' /\ ReadyIsReadable'
      BY <2>1, <2>2, <1>2 DEF PageTypes, ReadyIsReadable
    <3>2. Tick("").at = "asking" /\ Tick("").got.is = "none"
      BY DEF Tick, NoAnswer, Answer
    <3>3. LastTickShown'
      BY <2>2, <3>2 DEF LastTickShown
    <3>4. \A n \in DOMAIN ticks' : TickKnows(n)'
      BY <2>2, <3>2 DEF TickKnows
    <3> QED
      BY <3>1, <3>3, <3>4
<1>6. CASE LeavePage
  <2>1. /\ UNCHANGED <<view, readable, ticks, table, clusters, clusterFetch>>
        /\ page' = "closed"
    BY <1>6 DEF LeavePage, serverVars
  <2> QED
    BY <2>1, TicksStay DEF PageTypes, ReadyIsReadable
<1>7. CASE ChooseFilter
  <2>1. PICK f \in Filters : ticks' = Append(ticks, Tick(f))
    BY <1>7 DEF ChooseFilter
  <2>2. UNCHANGED <<view, readable, page, table, clusters, clusterFetch>>
    BY <1>7 DEF ChooseFilter, serverVars
  <2>3. /\ ticks' \in Seq(Ticks) /\ ticks' # << >> /\ Len(ticks') = Len(ticks) + 1
        /\ DOMAIN ticks' = 1..(Len(ticks) + 1)
        /\ \A m \in 1..Len(ticks) : ticks'[m] = ticks[m]
        /\ ticks'[Len(ticks) + 1] = Tick(f)
    <3>1. ticks' \in Seq(Ticks) /\ ticks' # << >> /\ Len(ticks') = Len(ticks) + 1
          /\ (\A m \in 1..Len(ticks) : ticks'[m] = ticks[m])
          /\ ticks'[Len(ticks) + 1] = Tick(f)
      BY <2>1, <1>1, <1>2, AppendProperties
    <3> QED
      BY <3>1, LenProperties
  <2>4. LastTickShown'
    BY <2>3, <1>2 DEF LastTickShown
  <2>5. ASSUME NEW m \in 1..(Len(ticks) + 1) PROVE TickKnows(m)'
    <3>1. CASE m \in 1..Len(ticks)
      BY <3>1, <2>2, <2>3, <1>1 DEF TickKnows
    <3>2. CASE m = Len(ticks) + 1
      BY <3>2, <2>3, <1>2 DEF TickKnows
    <3> QED
      BY <3>1, <3>2, <1>1
  <2> QED
    BY <2>2, <2>3, <2>4, <2>5 DEF PageTypes, ReadyIsReadable
<1>8. CASE ShowClusters
  <2>1. UNCHANGED <<view, readable, page, ticks, table>>
    BY <1>8 DEF ShowClusters, serverVars
  <2>2. ReadyIsReadable'
    BY <1>8, <2>1 DEF ShowClusters, ReadyIsReadable
  <2> QED
    BY <2>1, <2>2, TicksStay DEF PageTypes
<1>9. CASE \E n \in DOMAIN ticks :
             \/ AnswerAnalysis(n) \/ AnswerResults(n) \/ AnswerTooLate(n) \/ AnswerLost(n)
             \/ AnalysisRefused(n) \/ ShowAnalysis(n) \/ ShowResults(n) \/ PollAgain(n)
  BY <1>9, TickSteps
<1> QED
  BY <1>3, <1>4, <1>5, <1>6, <1>7, <1>8, <1>9 DEF AnalysisPageNext

\* The page keeps its ticks apart: each knows no more than it asked for, and
\* the table is that of the last one, over every interleaving of the polls,
\* filters and answers (dashboard/analyses/[id]/page.tsx).
THEOREM PageInvariance == AnalysisPageSpec => []PageInv
<1>1. AnalysisPageInit => PageInv
  BY EmptySeq DEF AnalysisPageInit, Server!Init, PageInv, PageTypes, ReadyIsReadable,
     LastTickShown
<1>2. PageInv /\ [AnalysisPageNext]_pageVars => PageInv'
  BY PageSteps
<1> QED
  BY <1>1, <1>2, PTL DEF AnalysisPageSpec

\* However late the answers for another filter come in, the table of a
\* finished analysis holds all the rows of the one that is selected, and the
\* graph has the stored clusters (page.tsx:89).
THEOREM TableShowsItsFilter == AnalysisPageSpec => []ShowsItsFilter
<1>1. PageInv => ShowsItsFilter
  BY DEF PageInv, ReadyIsReadable, LastTickShown, ShowsItsFilter
<1> QED
  BY <1>1, PageInvariance, PTL

----------------------------------------------------------------------------
(* The customer's key.                                                     *)

Asking ==
  [n : 1..MaxAsked, kind : {"register", "rotate"}, key : Nat,
   at : {"sent", "admitted", "refused", "stored"}, new : Nat, here : BOOLEAN]

KeyTypes ==
  /\ current \in Nat /\ keysMade \in Nat /\ saved \in Nat /\ strayed \in BOOLEAN
  /\ tab \in [page : {"none", "sign-up", "overview", "keys"}, key : Nat, new : Nat,
              account : BOOLEAN, armed : BOOLEAN, busy : BOOLEAN]
  /\ asked \subseteq Asking /\ IsFiniteSet(asked)

\* A request has a new key when the server has stored it; rotations are
\* confirmed on the page of keys.
KeysAreStored ==
  /\ \A r \in asked : r.at = "stored" <=> r.new # NoKey
  /\ tab.account \/ tab.armed => tab.page = "keys"

\* While the user has put in no key and left no request alone, there is at
\* most one, the page is busy with it, and the key it has stored is the
\* server's: nothing has changed the key since.
OneAtATime ==
  ~strayed =>
    /\ \A r, q \in asked : r = q
    /\ \A r \in asked :
         /\ r.here /\ tab.busy /\ tab.page # "none"
         /\ tab.page = "sign-up" => tab.new = NoKey
         /\ r.at = "stored" => r.new = current

KeyIsSomewhere ==
  ~strayed => \/ saved = current \/ current \in lostKeys
              \/ \E r \in asked : r.at = "stored" /\ r.new = current

KeyInv == KeyTypes /\ KeysAreStored /\ OneAtATime /\ KeyIsSomewhere

\* Of fewer numbered things than numbers one number is free.
LEMMA FreeNumber ==
  ASSUME NEW N \in Nat, NEW S, NEW things, IsFiniteSet(things), Cardinality(things) < N,
         NEW number \in [things -> S]
  PROVE  \E n \in 1..N : \A x \in things : number[x] # n
<1> SUFFICES ASSUME \A n \in 1..N : \E x \in things : number[x] = n PROVE FALSE
  OBVIOUS
<1> DEFINE numbered == {x \in things : number[x] \in 1..N}
           f == [x \in numbered |-> number[x]]
<1>1. f \in Surjection(numbered, 1..N)
  BY DEF Surjection
<1>2. IsFiniteSet(numbered) /\ Cardinality(numbered) <= Cardinality(things)
  BY FS_Subset
<1>3. Cardinality(1..N) <= Cardinality(numbered)
  BY <1>1, <1>2, FS_Surjection
<1>4. Cardinality(1..N) = N
  BY FS_Interval
<1> QED
  BY <1>2, <1>3, <1>4, FS_CardinalityType

\* A page that asks has one more request.
LEMMA AsksOneMore ==
  ASSUME KeyTypes, NEW kind \in {"register", "rotate"}, NEW key \in Nat, Asks(kind, key)
  PROVE  \E r \in Asking : /\ asked' = asked \cup {r}
                           /\ r.at = "sent" /\ r.new = NoKey /\ r.here
<1> DEFINE n == CHOOSE n \in 1..MaxAsked : \A r \in asked : r.n # n
           r == [n |-> n, kind |-> kind, key |-> key, at |-> "sent", new |-> NoKey,
                 here |-> TRUE]
           number == [q \in asked |-> q.n]
<1>1. number \in [asked -> 1..MaxAsked]
  BY DEF KeyTypes, Asking
<1>2. IsFiniteSet(asked) /\ MaxAsked \in Nat /\ Cardinality(asked) < MaxAsked
  BY KeyPagesAssumption DEF KeyTypes, Asks
<1>3. \E m \in 1..MaxAsked : \A q \in asked : number[q] # m
  <2> HIDE DEF number
  <2> QED
    BY <1>1, <1>2, FreeNumber
<1>4. n \in 1..MaxAsked
  BY <1>3
<1>5. asked' = asked \cup {r} /\ r.at = "sent" /\ r.new = NoKey /\ r.here
  BY DEF Asks
<1>6. r \in Asking
  <2> HIDE DEF n
  <2> QED
    BY <1>4 DEF Asking, NoKey
<1> HIDE DEF r
<1> QED
  BY <1>5, <1>6

\* A request that becomes another one, and nothing else changes in it.
LEMMA RequestBecomes ==
  ASSUME KeyTypes, NEW r \in asked, NEW at \in {"admitted", "refused", "stored"},
         NEW new \in Nat, Becomes(r, at, new)
  PROVE  \E q \in Asking : /\ asked' = (asked \ {r}) \cup {q}
                           /\ q.at = at /\ q.new = new /\ q.here = r.here /\ q.kind = r.kind
<1> DEFINE q == [r EXCEPT !.at = at, !.new = new]
<1>1. r \in Asking
  BY DEF KeyTypes
<1>2. q \in Asking /\ q.at = at /\ q.new = new /\ q.here = r.here /\ q.kind = r.kind
  BY <1>1 DEF Asking
<1>3. asked' = (asked \ {r}) \cup {q}
  BY DEF Becomes
<1> HIDE DEF q
<1> QED
  BY <1>2, <1>3

TabTypes ==
  [page : {"none", "sign-up", "overview", "keys"}, key : Nat, new : Nat,
   account : BOOLEAN, armed : BOOLEAN, busy : BOOLEAN]

LEMMA FreshTab ==
  ASSUME NEW where \in {"none", "sign-up", "overview", "keys"}, NEW key \in Nat
  PROVE  /\ Tab(where, key) \in TabTypes /\ Tab(where, key).page = where
         /\ ~Tab(where, key).account /\ ~Tab(where, key).armed
BY DEF Tab, TabTypes, NoKey

\* A page that is opened, left or used without a request.
LEMMA TabSteps ==
  ASSUME KeyInv,
         \/ OpenTab \/ LeaveTab \/ ContinueWithKey \/ PasteKey
         \/ TypeKey \/ LoadAccount \/ Arm \/ CancelConfirm
  PROVE  KeyInv'
<1> USE DEF KeyInv
<1>1. tab \in TabTypes /\ tab.key \in Nat /\ tab.new \in Nat /\ saved \in Nat
  BY DEF KeyTypes, TabTypes
<1>2. KeysSeen \subseteq Nat /\ NoKey \in Nat
  BY KeyPagesAssumption DEF KeysSeen, NotAKey, KeyTypes, NoKey
<1>3. CASE OpenTab
  <2>1. /\ UNCHANGED <<current, keysMade, saved, asked, lostKeys, strayed>>
        /\ tab' \in TabTypes /\ ~tab'.account /\ ~tab'.armed
    BY <1>1, <1>3, FreshTab DEF OpenTab, keyServer
  <2>2. ~strayed => asked = {}
    BY <1>3 DEF OpenTab, OneAtATime
  <2> QED
    BY <2>1, <2>2 DEF KeyTypes, TabTypes, KeysAreStored, OneAtATime, KeyIsSomewhere
<1>4. CASE LeaveTab
  <2> DEFINE left == {[r EXCEPT !.here = FALSE] : r \in asked}
             f == [r \in asked |-> [r EXCEPT !.here = FALSE]]
  <2>1. /\ UNCHANGED <<current, keysMade, saved, lostKeys>> /\ asked' = left
        /\ tab' \in TabTypes /\ ~tab'.account /\ ~tab'.armed
        /\ strayed' = (strayed \/ asked # {})
    BY <1>2, <1>4, FreshTab DEF LeaveTab, keyServer
  <2>2. left \subseteq Asking /\ \A r \in left : r.at = "stored" <=> r.new # NoKey
    <3>1. ASSUME NEW r \in asked
          PROVE  LET q == [r EXCEPT !.here = FALSE]
                 IN  q \in Asking /\ (q.at = "stored" <=> q.new # NoKey)
      <4>1. r \in Asking /\ (r.at = "stored" <=> r.new # NoKey)
        BY DEF KeyTypes, KeysAreStored
      <4> QED
        BY <4>1 DEF Asking
    <3> QED
      BY <3>1
  <2>3. IsFiniteSet(left)
    <3>1. f \in Surjection(asked, left)
      BY DEF Surjection
    <3> QED
      BY <3>1, FS_Surjection DEF KeyTypes
  <2>4. ~strayed' => ~strayed /\ asked = {} /\ left = {}
    BY <2>1
  <2> QED
    BY <2>1, <2>2, <2>3, <2>4 DEF KeyTypes, TabTypes, KeysAreStored, OneAtATime, KeyIsSomewhere
<1>5. CASE ContinueWithKey
  <2>1. /\ UNCHANGED <<current, keysMade, saved, asked, lostKeys, strayed>>
        /\ tab' \in TabTypes /\ ~tab'.account /\ ~tab'.armed
    BY <1>1, <1>5, FreshTab DEF ContinueWithKey, keyServer
  <2>2. ~strayed => asked = {}
    BY <1>5 DEF ContinueWithKey, OneAtATime
  <2> QED
    BY <2>1, <2>2 DEF KeyTypes, TabTypes, KeysAreStored, OneAtATime, KeyIsSomewhere
<1>6. CASE PasteKey
  <2>1. /\ UNCHANGED <<current, keysMade, asked, lostKeys>> /\ strayed' = TRUE
        /\ saved' \in Nat /\ tab' \in TabTypes /\ ~tab'.account /\ ~tab'.armed
    BY <1>2, <1>6, FreshTab DEF PasteKey, keyServer
  <2> QED
    BY <2>1 DEF KeyTypes, TabTypes, KeysAreStored, OneAtATime, KeyIsSomewhere
<1>7. CASE TypeKey
  <2>1. PICK key \in {NoKey} \cup KeysSeen : saved' = key /\ tab' = [tab EXCEPT !.key = key]
    BY <1>7 DEF TypeKey
  <2>2. /\ UNCHANGED <<current, keysMade, asked, lostKeys>> /\ strayed' = TRUE
        /\ tab.page = "keys"
    BY <1>7 DEF TypeKey, keyServer
  <2>3. saved' \in Nat /\ tab' \in TabTypes /\ tab'.page = "keys"
    BY <1>1, <1>2, <2>1, <2>2 DEF TabTypes
  <2> QED
    BY <2>2, <2>3 DEF KeyTypes, TabTypes, KeysAreStored, OneAtATime, KeyIsSomewhere
<1>8. CASE LoadAccount \/ Arm \/ CancelConfirm
  <2>1. /\ UNCHANGED <<current, keysMade, saved, asked, lostKeys, strayed>>
        /\ tab.page = "keys"
    BY <1>8 DEF LoadAccount, Arm, CancelConfirm, keyServer, KeysAreStored
  <2>2. tab' \in TabTypes /\ tab'.page = "keys" /\ tab'.busy = tab.busy
    BY <1>1, <1>8, <2>1 DEF LoadAccount, Arm, CancelConfirm, TabTypes
  <2> QED
    BY <2>1, <2>2 DEF KeyTypes, TabTypes, KeysAreStored, OneAtATime, KeyIsSomewhere
<1> QED
  BY <1>3, <1>4, <1>5, <1>6, <1>7, <1>8

\* A request is sent when the page is not busy with another one.
LEMMA AskingSteps ==
  ASSUME KeyInv, Register \/ Confirm
  PROVE  KeyInv'
<1> USE DEF KeyInv
<1>1. tab \in TabTypes /\ tab.key \in Nat /\ NoKey \in Nat
  BY DEF KeyTypes, TabTypes, NoKey
<1>2. PICK kind \in {"register", "rotate"}, key \in Nat : Asks(kind, key)
  BY <1>1 DEF Register, Confirm
<1>3. PICK r \in Asking : asked' = asked \cup {r} /\ r.at = "sent" /\ r.new = NoKey /\ r.here
  BY <1>2, AsksOneMore
<1>4. /\ UNCHANGED <<current, keysMade, saved, lostKeys, strayed>>
      /\ ~tab.busy /\ tab' = [tab EXCEPT !.busy = TRUE]
      /\ tab.page = "keys" \/ (tab.page = "sign-up" /\ tab.new = NoKey)
  BY DEF Register, Confirm, keyServer, KeysAreStored
<1>5. /\ tab' \in TabTypes /\ tab'.busy /\ tab'.page = tab.page /\ tab'.new = tab.new
      /\ tab'.account = tab.account /\ tab'.armed = tab.armed
  BY <1>1, <1>4 DEF TabTypes
<1>6. ~strayed => asked = {}
  BY <1>4 DEF OneAtATime
<1>7. KeyTypes'
  BY <1>3, <1>4, <1>5, FS_AddElement DEF KeyTypes, TabTypes
<1>8. KeysAreStored'
  BY <1>3, <1>5 DEF KeysAreStored
<1>9. OneAtATime'
  BY <1>3, <1>4, <1>5, <1>6 DEF OneAtATime
<1>10. KeyIsSomewhere'
  BY <1>3, <1>4, <1>6 DEF KeyIsSomewhere
<1> QED
  BY <1>7, <1>8, <1>9, <1>10

\* The server goes on with a request: no other request is in its way unless
\* the user has strayed.
LEMMA KeyServerSteps ==
  ASSUME KeyInv, Admit \/ RefuseKey \/ StoreKey
  PROVE  KeyInv'
<1> USE DEF KeyInv
<1>1. NoKey \in Nat /\ NoKey = 0
  BY DEF NoKey
<1>2. UNCHANGED <<saved, tab, lostKeys, strayed>>
  BY DEF Admit, RefuseKey, StoreKey, keyServer
<1> DEFINE Turns(r, q) == r \in asked /\ q \in Asking /\ q.here = r.here
                          /\ asked' = (asked \ {r}) \cup {q}
<1>3. ASSUME NEW r, NEW q, Turns(r, q) PROVE IsFiniteSet(asked') /\ asked' \subseteq Asking
  BY <1>3, FS_AddElement, FS_RemoveElement DEF KeyTypes
<1>4. CASE Admit \/ RefuseKey
  <2>1. PICK r \in asked : /\ r.at \in {"sent", "admitted"}
                           /\ Becomes(r, "admitted", NoKey) \/ Becomes(r, "refused", NoKey)
    BY <1>4 DEF Admit, RefuseKey
  <2>2. PICK q \in Asking : Turns(r, q) /\ q.at # "stored" /\ q.new = NoKey
    <3>1. CASE Becomes(r, "admitted", NoKey)
      BY <1>1, <3>1, RequestBecomes
    <3>2. CASE Becomes(r, "refused", NoKey)
      BY <1>1, <3>2, RequestBecomes
    <3> QED
      BY <2>1, <3>1, <3>2
  <2>3. UNCHANGED <<current, keysMade>>
    BY <1>4 DEF Admit, RefuseKey, keyServer
  <2>4. KeyTypes' /\ KeysAreStored'
    BY <1>2, <1>3, <2>2, <2>3 DEF KeyTypes, KeysAreStored
  <2>5. OneAtATime'
    BY <1>2, <2>2, <2>3 DEF OneAtATime
  <2>6. KeyIsSomewhere'
    BY <1>2, <2>1, <2>2, <2>3 DEF KeyIsSomewhere
  <2> QED
    BY <2>4, <2>5, <2>6
<1>5. CASE StoreKey
  <2>1. PICK r \in asked :
          /\ r.at = "admitted" /\ keysMade' = keysMade + 1
          /\ \/ Becomes(r, "refused", NoKey) /\ UNCHANGED current
             \/ Becomes(r, "stored", keysMade') /\ current' = keysMade'
    BY <1>5 DEF StoreKey
  <2>2. keysMade' \in Nat /\ keysMade' # NoKey
    BY <1>1, <2>1 DEF KeyTypes
  <2>3. CASE Becomes(r, "refused", NoKey) /\ UNCHANGED current
    <3>1. PICK q \in Asking : Turns(r, q) /\ q.at # "stored" /\ q.new = NoKey
      BY <1>1, <2>3, RequestBecomes
    <3>2. KeyTypes'
      <4>1. current' \in Nat /\ keysMade' \in Nat
        BY <2>2, <2>3 DEF KeyTypes
      <4> QED
        BY <1>2, <1>3, <3>1, <4>1 DEF KeyTypes
    <3>5. KeysAreStored'
      BY <1>2, <3>1 DEF KeysAreStored
    <3>3. OneAtATime'
      BY <1>2, <2>3, <3>1 DEF OneAtATime
    <3>4. KeyIsSomewhere'
      BY <1>2, <2>1, <2>3, <3>1 DEF KeyIsSomewhere
    <3> QED
      BY <3>2, <3>3, <3>4, <3>5
  <2>4. CASE Becomes(r, "stored", keysMade') /\ current' = keysMade'
    <3>1. PICK q \in Asking : Turns(r, q) /\ q.at = "stored" /\ q.new = keysMade'
      <4>1. PICK made \in Nat : made = keysMade'
        BY <2>2
      <4> QED
        BY <2>4, <4>1, RequestBecomes
    <3>2. KeyTypes' /\ KeysAreStored'
      BY <1>2, <1>3, <2>2, <2>4, <3>1 DEF KeyTypes, KeysAreStored
    <3>3. OneAtATime'
      BY <1>2, <2>4, <3>1 DEF OneAtATime
    <3>4. KeyIsSomewhere'
      BY <2>4, <3>1 DEF KeyIsSomewhere
    <3> QED
      BY <3>2, <3>3, <3>4
  <2> QED
    BY <2>1, <2>3, <2>4
<1> QED
  BY <1>4, <1>5

\* A reply, or none.
LEMMA ReplySteps ==
  ASSUME KeyInv, KeyArrives \/ NoKeyArrives
  PROVE  KeyInv'
<1> USE DEF KeyInv
<1>1. tab \in TabTypes
  BY DEF KeyTypes, TabTypes
<1>2. PICK r \in asked :
        /\ asked' = asked \ {r}
        /\ \/ /\ r.at = "stored" /\ saved' = r.new /\ UNCHANGED lostKeys
              /\ tab' = IF r.here THEN [Done(r) EXCEPT !.new = r.new, !.key = r.new] ELSE tab
           \/ /\ tab' = Done(r) /\ lostKeys' = lostKeys \cup ({r.new} \ {NoKey})
              /\ UNCHANGED saved
  BY DEF KeyArrives, NoKeyArrives
<1>3. UNCHANGED <<current, keysMade, strayed>>
  BY DEF KeyArrives, NoKeyArrives, keyServer
<1>4. r \in Asking /\ r.new \in Nat /\ (r.at = "stored" <=> r.new # NoKey)
  BY DEF KeyTypes, KeysAreStored, Asking
<1>5. /\ Done(r) \in TabTypes /\ Done(r).page = tab.page
      /\ Done(r).account = tab.account /\ (Done(r).armed => tab.armed)
  BY <1>1, <1>4 DEF Done, TabTypes, Asking
<1>6. /\ tab' \in TabTypes /\ tab'.page = tab.page
      /\ (tab'.account => tab.account) /\ (tab'.armed => tab.armed)
  <2>1. PICK done \in TabTypes : done = Done(r)
    BY <1>5
  <2> QED
    BY <1>1, <1>2, <1>4, <1>5, <2>1 DEF TabTypes
<1>7. ~strayed => asked' = {} /\ (r.at = "stored" => r.new = current)
  BY <1>2 DEF OneAtATime
<1>8. KeyTypes'
  BY <1>2, <1>3, <1>4, <1>6, FS_RemoveElement DEF KeyTypes, TabTypes
<1>9. KeysAreStored'
  <2>1. asked' = asked \ {r}
    BY <1>2
  <2>2. \A q \in asked' : q.at = "stored" <=> q.new # NoKey
    BY <2>1 DEF KeysAreStored
  <2>3. tab'.account \/ tab'.armed => tab'.page = "keys"
    BY <1>6 DEF KeysAreStored
  <2> QED
    BY <2>2, <2>3 DEF KeysAreStored
<1>10. OneAtATime'
  BY <1>3, <1>7 DEF OneAtATime
<1>11. KeyIsSomewhere'
  <2>1. \A q \in asked : ~strayed => q = r
    BY DEF OneAtATime
  <2> QED
    BY <1>2, <1>3, <1>4, <1>7, <2>1 DEF KeyIsSomewhere
<1> QED
  BY <1>8, <1>9, <1>10, <1>11

\* Between a browser and the server at most one request changes the key while
\* the user leaves it alone (InlineConfirm.tsx, dashboard/page.tsx).
THEOREM KeyPagesInvariance == KeyPagesSpec => []KeyInv
<1>1. KeyPagesInit => KeyInv
  <2> SUFFICES ASSUME KeyPagesInit PROVE KeyInv
    OBVIOUS
  <2>1. tab \in TabTypes /\ ~tab.account /\ ~tab.armed
    BY FreshTab DEF KeyPagesInit, NoKey
  <2>2. /\ current \in Nat /\ keysMade \in Nat /\ saved \in Nat /\ saved = current
        /\ asked = {} /\ IsFiniteSet(asked) /\ strayed = FALSE
    BY FS_EmptySet DEF KeyPagesInit
  <2> QED
    BY <2>1, <2>2 DEF KeyInv, KeyTypes, TabTypes, KeysAreStored, OneAtATime, KeyIsSomewhere
<1>2. KeyInv /\ [KeyPagesNext]_keyPageVars => KeyInv'
  <2> SUFFICES ASSUME KeyInv, [KeyPagesNext]_keyPageVars PROVE KeyInv'
    OBVIOUS
  <2>1. CASE UNCHANGED keyPageVars
    BY <2>1 DEF keyPageVars, KeyInv, KeyTypes, KeysAreStored, OneAtATime, KeyIsSomewhere
  <2> QED
    BY <2>1, TabSteps, AskingSteps, KeyServerSteps, ReplySteps DEF KeyPagesNext
<1> QED
  BY <1>1, <1>2, PTL DEF KeyPagesSpec

\* A user who puts in no key and waits for the answers is not locked out: the
\* key in localStorage is the server's, unless the reply with it is under way
\* or was lost (InlineConfirm.tsx:52, 68).
THEOREM UserIsNotLockedOut == KeyPagesSpec => []BrowserKeepsKey
<1>1. KeyInv => BrowserKeepsKey
  BY DEF KeyInv, KeyIsSomewhere, BrowserKeepsKey
<1> QED
  BY <1>1, KeyPagesInvariance, PTL

----------------------------------------------------------------------------
(* The lists of the dashboard.                                             *)

ActKinds == {"add", "remove", "invite", "test", "retry", "markRead", "markAll", "watch"}
ListFilters == {"all", "unread"}
ActRequests == [n : 1..MaxLoads, kind : ActKinds, filter : ListFilters, made : Nat]
ListLoads ==
  [n : Nat, filter : ListFilters, for : ActKinds \cup {"page"}, at : {"sent", "listed"},
   seen : Nat]
WatchedRows == [id : Nat, address : Spellings]

ListTypes ==
  /\ changes \in Nat /\ own \in Nat /\ sentLoads \in Nat /\ switched \in BOOLEAN
  /\ open \in [page : {"none"} \cup DOMAIN Acts, filter : ListFilters]
  /\ acts \subseteq ActRequests /\ IsFiniteSet(acts)
  /\ loads \subseteq ListLoads /\ showing \in ListLoads
  /\ watched \subseteq WatchedRows

\* Only the scoring page watches an address, and it alone loads no list.
ScoringHasNoList ==
  /\ open.page = "none" => acts = {}
  /\ open.page \in {"none", "scoring"} => loads = {} /\ showing = NoLoad /\ sentLoads = 0
  /\ \A act \in acts : act.kind = "watch" <=> open.page = "scoring"

\* What the page was told is made has been made, and it acts with the filter of
\* its click.
ActsAreMade ==
  /\ own <= changes
  /\ \A act \in acts : act.made <= changes /\ (~switched => act.filter = open.filter)

\* No load was sent after the last one, whose answer has what was made before
\* it was sent.
Knows(load) ==
  /\ load.n <= sentLoads
  /\ load.n = sentLoads => /\ load.at = "listed" => load.seen >= own
                           /\ ~switched => load.filter = open.filter
LoadsKnow == Knows(showing) /\ \A load \in loads : Knows(load)

\* Rows of the watch list are in lower case, and no address has two.
WatchedOnce ==
  /\ \A row \in watched : LowerCase[row.address] = row.address
  /\ \A r, q \in watched : r.address = q.address => r = q

ListInv == ListTypes /\ ScoringHasNoList /\ ActsAreMade /\ LoadsKnow /\ WatchedOnce

\* A change of the lists; an address that is watched is not watched again,
\* however it is spelt.
LEMMA OneMoreChange ==
  ASSUME ListTypes, WatchedOnce, NEW kind, Changed(kind)
  PROVE  changes' = changes + 1 /\ watched' \subseteq WatchedRows /\ WatchedOnce'
<1>1. changes' = changes + 1 /\ changes \in Nat /\ watched \subseteq WatchedRows
  BY DEF Changed, ListTypes
<1>2. CASE \E spelling \in Spellings : AddToWatchlist(spelling)
  <2>1. PICK spelling \in Spellings : AddToWatchlist(spelling)
    BY <1>2
  <2> DEFINE row == [id |-> changes + 1, address |-> LowerCase[spelling]]
  <2>2. watched' = watched \cup {row}
    BY <1>1, <2>1 DEF AddToWatchlist, Stored
  <2>3. /\ LowerCase[spelling] \in Spellings
        /\ LowerCase[LowerCase[spelling]] = LowerCase[spelling]
    BY DashboardListsAssumption
  <2>4. row \in WatchedRows /\ row.address = LowerCase[spelling]
    BY <1>1, <2>3 DEF WatchedRows
  <2>5. \A r \in watched : r.address # row.address
    BY <2>1, <2>4 DEF AddToWatchlist, Stored
  <2> HIDE DEF row
  <2> QED
    BY <1>1, <2>2, <2>3, <2>4, <2>5 DEF WatchedOnce
<1>3. CASE watched' \subseteq watched
  BY <1>1, <1>3 DEF WatchedOnce
<1> QED
  BY <1>1, <1>2, <1>3 DEF Changed, RemoveFromWatchlist

\* A load that is sent is the last one.
LEMMA OneMoreLoad ==
  ASSUME ListTypes, LoadsKnow, NEW filter \in ListFilters,
         NEW for \in ActKinds \cup {"page"}, Sends(filter, for)
  PROVE  /\ loads' \subseteq ListLoads /\ sentLoads' \in Nat
         /\ showing.n < sentLoads'
         /\ \A load \in loads' :
              /\ load.n <= sentLoads'
              /\ load.n = sentLoads' => load.at = "sent" /\ load.filter = filter
<1> DEFINE new == [n |-> sentLoads + 1, filter |-> filter, for |-> for, at |-> "sent",
                   seen |-> 0]
<1>1. sentLoads \in Nat /\ loads \subseteq ListLoads /\ showing \in ListLoads
  BY DEF ListTypes
<1>2. sentLoads' = sentLoads + 1 /\ loads' = loads \cup {new}
  BY DEF Sends, Load
<1>3. new \in ListLoads /\ new.n = sentLoads + 1 /\ new.at = "sent" /\ new.filter = filter
  BY <1>1 DEF ListLoads
<1>4. \A load \in ListLoads : load.n \in Nat
  BY DEF ListLoads
<1> HIDE DEF new
<1>5. ASSUME NEW load \in loads' PROVE /\ load.n <= sentLoads'
                                       /\ load.n = sentLoads' => load = new
  BY <1>1, <1>2, <1>3, <1>4, <1>5 DEF LoadsKnow, Knows
<1> QED
  BY <1>1, <1>2, <1>3, <1>4, <1>5 DEF LoadsKnow, Knows

\* So nothing older counts: what was shown or was under way says no more about
\* the list than that it is an older one.
LEMMA SentLoadsKnow ==
  ASSUME ListTypes, LoadsKnow, NEW filter \in ListFilters,
         NEW for \in ActKinds \cup {"page"}, Sends(filter, for),
         UNCHANGED showing, ~switched' => filter = open'.filter
  PROVE  loads' \subseteq ListLoads /\ sentLoads' \in Nat /\ LoadsKnow'
<1>1. /\ loads' \subseteq ListLoads /\ sentLoads' \in Nat
      /\ showing.n < sentLoads' /\ showing.n \in Nat
      /\ \A load \in loads' :
           /\ load.n <= sentLoads'
           /\ load.n = sentLoads' => load.at = "sent" /\ load.filter = filter
  BY OneMoreLoad DEF ListTypes, ListLoads
<1>2. Knows(showing)'
  BY <1>1 DEF Knows
<1>3. \A load \in loads' : /\ load.n <= sentLoads'
                           /\ load.n = sentLoads' => /\ load.at = "listed" => load.seen >= own'
                                                     /\ ~switched' => load.filter = open'.filter
  BY <1>1
<1> QED
  BY <1>1, <1>2, <1>3 DEF LoadsKnow, Knows

\* Without a load, and while the page learns of no new change, everything that
\* is under way knows what it did.
LEMMA OldLoadsKnow ==
  ASSUME LoadsKnow, UNCHANGED <<sentLoads, own, switched>>, open'.filter = open.filter,
         loads' \subseteq loads, showing' \in loads \cup {showing}
  PROVE  LoadsKnow'
<1>1. \A load \in loads \cup {showing} :
        /\ load.n <= sentLoads'
        /\ load.n = sentLoads' => /\ load.at = "listed" => load.seen >= own'
                                  /\ ~switched' => load.filter = open'.filter
  BY DEF LoadsKnow, Knows
<1> QED
  BY <1>1 DEF LoadsKnow, Knows

\* Others change the list that is open; the user opens a page and clicks.
LEMMA UserSteps ==
  ASSUME ListInv, OthersChange \/ OpenList \/ Click \/ SwitchFilter
  PROVE  ListInv'
<1> USE DEF ListInv
<1>1. /\ open.page \in {"none"} \cup DOMAIN Acts /\ open.filter \in ListFilters
      /\ "all" \in ListFilters
  BY DEF ListTypes, ListFilters
<1>2. CASE OthersChange
  <2>1. UNCHANGED <<open, testing, acts, loads, sentLoads, showing, own, switched>>
    BY <1>2 DEF OthersChange, loadVars
  <2>2. changes' = changes + 1 /\ watched' \subseteq WatchedRows /\ WatchedOnce'
    BY <1>2, OneMoreChange DEF OthersChange
  <2>3. ListTypes' /\ ScoringHasNoList'
    BY <2>1, <2>2 DEF ListTypes, ScoringHasNoList
  <2>4. ActsAreMade'
    BY <2>1, <2>2 DEF ActsAreMade, ListTypes, ActRequests
  <2>5. LoadsKnow'
    BY <2>1, OldLoadsKnow
  <2> QED
    BY <2>2, <2>3, <2>4, <2>5
<1>3. CASE OpenList
  <2>1. /\ UNCHANGED <<watched, changes, testing, acts, showing, own, switched>>
        /\ open = NoPage /\ open.page = "none" /\ open.filter = "all"
    BY <1>3 DEF OpenList, NoPage, listTables
  <2>2. PICK p \in DOMAIN Acts :
          /\ open' = [open EXCEPT !.page = p]
          /\ IF p = "scoring" THEN UNCHANGED loadVars ELSE Sends("all", "page")
    BY <1>3 DEF OpenList
  <2>3. /\ open'.page = p /\ open'.filter = "all" /\ p # "none"
        /\ open' \in [page : {"none"} \cup DOMAIN Acts, filter : ListFilters]
    BY <1>1, <2>1, <2>2 DEF ListTypes, Acts
  <2>4. WatchedOnce' /\ ActsAreMade'
    BY <2>1, <2>3 DEF WatchedOnce, ActsAreMade
  <2>5. CASE p = "scoring"
    <3>1. UNCHANGED <<loads, sentLoads>>
      BY <2>2, <2>5 DEF loadVars
    <3> QED
      BY <2>1, <2>3, <2>4, <2>5, <3>1, OldLoadsKnow DEF ListTypes, ScoringHasNoList
  <2>6. CASE p # "scoring"
    <3>1. loads' \subseteq ListLoads /\ sentLoads' \in Nat /\ LoadsKnow'
      BY <1>1, <2>1, <2>2, <2>3, <2>6, SentLoadsKnow
    <3> QED
      BY <2>1, <2>3, <2>4, <2>6, <3>1 DEF ListTypes, ScoringHasNoList
  <2> QED
    BY <2>5, <2>6
<1>4. CASE Click
  <2>1. UNCHANGED <<watched, changes, open, loads, sentLoads, showing, own, switched>>
    BY <1>4 DEF Click, listTables, loadVars
  <2> DEFINE n == CHOOSE n \in 1..MaxLoads : \A act \in acts : act.n # n
             number == [act \in acts |-> act.n]
  <2>2. PICK kind \in Offers :
          acts' = acts \cup {[n |-> n, kind |-> kind, filter |-> open.filter, made |-> 0]}
    BY <1>4 DEF Click
  <2> DEFINE new == [n |-> n, kind |-> kind, filter |-> open.filter, made |-> 0]
  <2>3. n \in 1..MaxLoads
    <3>1. number \in [acts -> 1..MaxLoads]
      BY DEF ListTypes, ActRequests
    <3>2. IsFiniteSet(acts) /\ MaxLoads \in Nat /\ Cardinality(acts) < MaxLoads
      <4>1. Cardinality(acts) \in Nat /\ MaxLoads \in Nat /\ sentLoads \in Nat
        BY FS_CardinalityType, DashboardListsAssumption DEF ListTypes
      <4> QED
        BY <1>4, <4>1 DEF Click, ListTypes
    <3>3. \E m \in 1..MaxLoads : \A act \in acts : number[act] # m
      <4> HIDE DEF number
      <4> QED
        BY <3>1, <3>2, FreeNumber
    <3> QED
      BY <3>3
  <2>4. /\ kind \in ActKinds /\ (kind = "watch" <=> open.page = "scoring")
        /\ open.page # "none"
    BY <1>1, <2>2 DEF Offers, WatchlistOffers, TeamOffers, WebhooksOffers,
       NotificationsOffers, ScoringOffers, ActKinds, Acts
  <2>5. new \in ActRequests /\ new.kind = kind /\ new.filter = open.filter /\ new.made = 0
    <3> HIDE DEF n
    <3> QED
      BY <1>1, <2>3, <2>4 DEF ActRequests
  <2>6. acts' = acts \cup {new}
    BY <2>2
  <2> HIDE DEF new, n
  <2>7. ListTypes'
    BY <2>1, <2>5, <2>6, FS_AddElement DEF ListTypes
  <2>8. ScoringHasNoList'
    BY <2>1, <2>4, <2>5, <2>6 DEF ScoringHasNoList
  <2>9. ActsAreMade'
    BY <2>1, <2>5, <2>6 DEF ActsAreMade, ListTypes
  <2>10. LoadsKnow' /\ WatchedOnce'
    BY <2>1, OldLoadsKnow DEF WatchedOnce
  <2> QED
    BY <2>7, <2>8, <2>9, <2>10
<1>5. CASE SwitchFilter
  <2>1. PICK filter \in ListFilters : Chooses(filter) /\ Sends(filter, "page")
    BY <1>5 DEF SwitchFilter, ListFilters
  <2>2. /\ UNCHANGED <<watched, changes, testing, acts, showing, own>>
        /\ open.page = "notifications" /\ open' = [open EXCEPT !.filter = filter]
        /\ switched' = (switched \/ acts # {})
    BY <2>1 DEF Chooses, listTables
  <2>3. /\ open'.page = open.page /\ open'.filter = filter
        /\ open' \in [page : {"none"} \cup DOMAIN Acts, filter : ListFilters]
    BY <1>1, <2>2 DEF ListTypes
  <2>4. loads' \subseteq ListLoads /\ sentLoads' \in Nat /\ LoadsKnow'
    BY <2>1, <2>2, <2>3, SentLoadsKnow
  <2>5. ListTypes' /\ ScoringHasNoList'
    BY <2>2, <2>3, <2>4 DEF ListTypes, ScoringHasNoList
  <2>6. ActsAreMade' /\ WatchedOnce'
    BY <2>2 DEF ActsAreMade, WatchedOnce
  <2> QED
    BY <2>4, <2>5, <2>6
<1> QED
  BY <1>2, <1>3, <1>4, <1>5

\* The server makes a change that the page has asked for; its reply is lost,
\* refuses or comes.
LEMMA ActSteps ==
  ASSUME ListInv, ServerActs \/ ActLost \/ ActRefused \/ ActDone
  PROVE  ListInv'
<1> USE DEF ListInv
<1>1. CASE ServerActs
  <2>1. UNCHANGED <<open, testing, loads, sentLoads, showing, own, switched>>
    BY <1>1 DEF ServerActs, loadVars
  <2>2. PICK act \in acts :
          /\ act.made = 0 /\ Changed(act.kind)
          /\ acts' = (acts \ {act}) \cup {[act EXCEPT !.made = changes']}
    BY <1>1 DEF ServerActs
  <2> DEFINE new == [act EXCEPT !.made = changes']
  <2>3. changes' = changes + 1 /\ watched' \subseteq WatchedRows /\ WatchedOnce'
    BY <2>2, OneMoreChange
  <2>4. /\ new \in ActRequests /\ new.kind = act.kind /\ new.filter = act.filter
        /\ new.made = changes'
    <3>1. act \in ActRequests /\ changes' \in Nat
      BY <2>3 DEF ListTypes
    <3> QED
      BY <3>1 DEF ActRequests
  <2>5. acts' = (acts \ {act}) \cup {new}
    BY <2>2
  <2> HIDE DEF new
  <2>6. ListTypes'
    <3>1. acts' \subseteq ActRequests /\ IsFiniteSet(acts')
      BY <2>4, <2>5, FS_AddElement, FS_RemoveElement DEF ListTypes
    <3> QED
      BY <2>1, <2>3, <3>1 DEF ListTypes
  <2>7. ScoringHasNoList'
    BY <2>1, <2>2, <2>4, <2>5 DEF ScoringHasNoList
  <2>8. ActsAreMade'
    <3>1. \A a \in acts : a.made \in Nat
      BY DEF ListTypes, ActRequests
    <3>2. changes \in Nat /\ own \in Nat
      BY DEF ListTypes
    <3> QED
      BY <2>1, <2>3, <2>4, <2>5, <3>1, <3>2 DEF ActsAreMade
  <2>9. LoadsKnow'
    BY <2>1, OldLoadsKnow
  <2> QED
    BY <2>3, <2>6, <2>7, <2>8, <2>9
<1>2. CASE ActLost
  <2>1. UNCHANGED <<watched, changes, open, loads, sentLoads, showing, own, switched>>
    BY <1>2 DEF ActLost, listTables, loadVars
  <2>2. PICK act \in acts : acts' = acts \ {act}
    BY <1>2 DEF ActLost
  <2>3. ListTypes'
    BY <2>1, <2>2, FS_RemoveElement DEF ListTypes
  <2>4. LoadsKnow'
    BY <2>1, OldLoadsKnow
  <2> QED
    BY <2>1, <2>2, <2>3, <2>4 DEF ScoringHasNoList, ActsAreMade, WatchedOnce
<1>3. CASE ActRefused
  <2>1. UNCHANGED <<watched, changes, open, testing, showing, own, switched>>
    BY <1>3 DEF ActRefused, listTables
  <2>2. PICK act \in acts :
          /\ acts' = acts \ {act}
          /\ IF Acts[open.page][act.kind] = "stops" THEN UNCHANGED loadVars
             ELSE Sends(act.filter, act.kind)
    BY <1>3 DEF ActRefused
  <2>3. /\ act.filter \in ListFilters /\ act.kind \in ActKinds
        /\ ~switched => act.filter = open.filter
    BY DEF ListTypes, ActRequests, ActsAreMade
  <2>4. IsFiniteSet(acts')
    BY <2>2, FS_RemoveElement DEF ListTypes
  <2>5. ActsAreMade' /\ WatchedOnce'
    BY <2>1, <2>2 DEF ActsAreMade, WatchedOnce
  <2>6. CASE UNCHANGED loadVars
    <3>1. UNCHANGED <<loads, sentLoads>>
      BY <2>6 DEF loadVars
    <3> QED
      BY <2>1, <2>2, <2>4, <2>5, <3>1, OldLoadsKnow DEF ListTypes, ScoringHasNoList
  <2>7. CASE Acts[open.page][act.kind] # "stops" /\ Sends(act.filter, act.kind)
    <3>1. open.page \notin {"none", "scoring"}
      <4>1. open.page # "none"
        BY DEF ScoringHasNoList
      <4>2. open.page = "scoring" => act.kind = "watch"
        BY DEF ScoringHasNoList
      <4> QED
        BY <2>7, <4>1, <4>2 DEF Acts, ScoringActs
    <3>2. loads' \subseteq ListLoads /\ sentLoads' \in Nat /\ LoadsKnow'
      BY <2>1, <2>3, <2>7, SentLoadsKnow
    <3> QED
      BY <2>1, <2>2, <2>4, <2>5, <3>1, <3>2 DEF ListTypes, ScoringHasNoList
  <2> QED
    BY <2>2, <2>6, <2>7
<1>4. CASE ActDone
  <2>1. UNCHANGED <<watched, changes, open, testing, showing, switched>>
    BY <1>4 DEF ActDone, listTables
  <2>2. PICK act \in acts :
          /\ acts' = acts \ {act}
          /\ own' = IF act.made > own THEN act.made ELSE own
          /\ IF act.kind = "watch" THEN UNCHANGED loadVars ELSE Sends(act.filter, act.kind)
    BY <1>4 DEF ActDone
  <2>3. /\ act.filter \in ListFilters /\ act.kind \in ActKinds /\ act.made \in Nat
        /\ act.made <= changes /\ (~switched => act.filter = open.filter)
    BY DEF ListTypes, ActRequests, ActsAreMade
  <2>4. IsFiniteSet(acts') /\ own' \in Nat
    BY <2>2, <2>3, FS_RemoveElement DEF ListTypes
  <2>5. ActsAreMade' /\ WatchedOnce'
    BY <2>1, <2>2, <2>3 DEF ActsAreMade, WatchedOnce
  <2>6. open.page # "none"
    BY DEF ScoringHasNoList
  <2>7. CASE act.kind = "watch"
    <3>1. /\ UNCHANGED <<loads, sentLoads>> /\ loads = {} /\ showing = NoLoad
          /\ sentLoads = 0 /\ NoLoad.at = "sent" /\ NoLoad.n = 0
      BY <2>2, <2>7 DEF loadVars, ScoringHasNoList, NoLoad, Load
    <3>2. LoadsKnow'
      BY <2>1, <3>1 DEF LoadsKnow, Knows
    <3> QED
      BY <2>1, <2>2, <2>4, <2>5, <3>1, <3>2 DEF ListTypes, ScoringHasNoList
  <2>8. CASE act.kind # "watch"
    <3>1. loads' \subseteq ListLoads /\ sentLoads' \in Nat /\ LoadsKnow'
      BY <2>1, <2>2, <2>3, <2>8, SentLoadsKnow
    <3>2. open.page \notin {"none", "scoring"}
      BY <2>6, <2>8 DEF ScoringHasNoList
    <3> QED
      BY <2>1, <2>2, <2>4, <2>5, <3>1, <3>2 DEF ListTypes, ScoringHasNoList
  <2> QED
    BY <2>7, <2>8
<1> QED
  BY <1>1, <1>2, <1>3, <1>4

\* The server lists the rows; the answer comes, refuses or is lost.
LEMMA LoadSteps ==
  ASSUME ListInv, ServerLists \/ ShowList \/ LoadRefused \/ LoadLost
  PROVE  ListInv'
<1> USE DEF ListInv
<1>1. UNCHANGED <<watched, changes, open, acts, sentLoads, own, switched>>
  BY DEF ServerLists, ShowList, LoadRefused, LoadLost, listTables
<1>2. ActsAreMade' /\ WatchedOnce'
  BY <1>1 DEF ActsAreMade, WatchedOnce
<1>3. CASE ServerLists
  <2>1. PICK load \in loads :
          /\ load.at = "sent"
          /\ loads' = (loads \ {load}) \cup {[load EXCEPT !.at = "listed", !.seen = changes]}
    BY <1>3 DEF ServerLists
  <2> DEFINE new == [load EXCEPT !.at = "listed", !.seen = changes]
  <2>2. /\ new \in ListLoads /\ new.n = load.n /\ new.filter = load.filter
        /\ new.seen = changes
    <3>1. load \in ListLoads /\ changes \in Nat
      BY DEF ListTypes
    <3> QED
      BY <3>1 DEF ListLoads
  <2>3. loads' = (loads \ {load}) \cup {new} /\ UNCHANGED showing
    BY <1>3, <2>1 DEF ServerLists
  <2> HIDE DEF new
  <2>4. ListTypes' /\ ScoringHasNoList'
    BY <1>1, <2>2, <2>3 DEF ListTypes, ScoringHasNoList
  <2>5. LoadsKnow'
    <3>1. new.seen >= own
      BY <2>2 DEF ListTypes, ActsAreMade
    <3>2. Knows(load) /\ Knows(showing) /\ \A l \in loads : Knows(l)
      BY DEF LoadsKnow
    <3>3. ASSUME NEW l \in loads' PROVE Knows(l)'
      BY <1>1, <2>2, <2>3, <3>1, <3>2 DEF Knows
    <3>4. Knows(showing)'
      BY <1>1, <2>3, <3>2 DEF Knows
    <3> QED
      BY <3>3, <3>4 DEF LoadsKnow
  <2> QED
    BY <1>2, <2>4, <2>5
<1>4. CASE ShowList \/ LoadRefused \/ LoadLost
  <2>1. PICK load \in loads : loads' = loads \ {load} /\ showing' \in {load, showing}
    BY <1>4 DEF ShowList, LoadRefused, LoadLost, Loaded
  <2>2. ListTypes' /\ ScoringHasNoList'
    BY <1>1, <2>1 DEF ListTypes, ScoringHasNoList
  <2>3. LoadsKnow'
    BY <1>1, <2>1, OldLoadsKnow
  <2> QED
    BY <1>2, <2>2, <2>3
<1> QED
  BY <1>3, <1>4

\* A page, its clicks and its loads over every order of the answers
\* (dashboard/*/page.tsx, routes/watchlist.ts).
THEOREM ListsInvariance == DashboardListsSpec => []ListInv
<1>1. DashboardListsInit => ListInv
  <2> SUFFICES ASSUME DashboardListsInit PROVE ListInv
    OBVIOUS
  <2>1. NoLoad \in ListLoads /\ NoLoad.n = 0 /\ NoLoad.at = "sent" /\ NoLoad.filter = "all"
    BY DEF NoLoad, Load, ListLoads, ListFilters, ActKinds
  <2>2. /\ open \in [page : {"none"} \cup DOMAIN Acts, filter : ListFilters]
        /\ open.page = "none" /\ open.filter = "all"
    BY DEF DashboardListsInit, NoPage, ListFilters
  <2>3. ListTypes
    BY <2>1, <2>2, FS_EmptySet DEF DashboardListsInit, ListTypes
  <2>4. ScoringHasNoList /\ ActsAreMade /\ WatchedOnce
    BY <2>2 DEF DashboardListsInit, ScoringHasNoList, ActsAreMade, WatchedOnce
  <2>5. LoadsKnow
    BY <2>1, <2>2 DEF DashboardListsInit, LoadsKnow, Knows
  <2> QED
    BY <2>3, <2>4, <2>5 DEF ListInv
<1>2. ListInv /\ [DashboardListsNext]_listVars => ListInv'
  <2> SUFFICES ASSUME ListInv, [DashboardListsNext]_listVars PROVE ListInv'
    OBVIOUS
  <2>1. CASE UNCHANGED listVars
    <3>1. UNCHANGED <<watched, changes, open, acts, loads, sentLoads, showing, own, switched>>
      BY <2>1 DEF listVars
    <3>2. LoadsKnow'
      BY <3>1, OldLoadsKnow DEF ListInv
    <3> QED
      BY <3>1, <3>2 DEF ListInv, ListTypes, ScoringHasNoList, ActsAreMade, WatchedOnce
  <2> QED
    BY <2>1, UserSteps, ActSteps, LoadSteps DEF DashboardListsNext
<1> QED
  BY <1>1, <1>2, PTL DEF DashboardListsSpec

\* A page that shows the answer to its last load shows every change that it was
\* told is made, in the filter that is chosen; and no address is watched twice
\* (notifications/page.tsx:43-55, watchlist.ts:41).
THEOREM ListsShowOwnChanges == DashboardListsSpec => []ListsOwnChanges
<1>1. ListInv => ListsOwnChanges
  BY DEF ListInv, ListTypes, LoadsKnow, Knows, WatchedOnce, Settled, ListsOwnChanges
<1> QED
  BY <1>1, ListsInvariance, PTL

----------------------------------------------------------------------------
(* The form for a new analysis.                                            *)

\* A function over the first numbers is a sequence.
LEMMA FunctionIsSeq ==
  ASSUME NEW n \in Nat, NEW S, NEW f \in [1..n -> S]
  PROVE  f \in Seq(S) /\ Len(f) = n
<1>1. \A T : Seq(T) = UNION {[1..m -> T] : m \in Nat}
  OBVIOUS
<1>2. f \in Seq(S)
  BY <1>1
<1> QED
  BY <1>2, LenProperties

\* Every number up to their number is the rank of one of finitely many places,
\* and no two places have one rank.
LEMMA Ranks ==
  ASSUME NEW places \in SUBSET Nat, IsFiniteSet(places)
  PROVE  \A n \in 1..Cardinality(places) :
           \E k \in places : Cardinality({j \in places : j < k}) = n - 1
<1> DEFINE below(k) == {j \in places : j < k}
           size == Cardinality(places)
           rank == [k \in places |-> Cardinality(below(k)) + 1]
<1>1. \A k \in places : IsFiniteSet(below(k)) /\ Cardinality(below(k)) \in Nat
  <2> TAKE k \in places
  <2>1. below(k) \in SUBSET places
    OBVIOUS
  <2> QED
    BY <2>1, FS_Subset, FS_CardinalityType
<1>2. size \in Nat
  BY FS_CardinalityType
<1>3. ASSUME NEW k \in places PROVE Cardinality(below(k)) < size
  <2>1. below(k) \in SUBSET places /\ k \notin below(k)
    OBVIOUS
  <2>2. Cardinality(below(k)) <= size /\ (size = Cardinality(below(k)) => places = below(k))
    BY <2>1, FS_Subset
  <2> QED
    BY <1>1, <1>2, <2>1, <2>2
<1>4. ASSUME NEW k \in places, NEW l \in places, k < l
      PROVE  Cardinality(below(k)) < Cardinality(below(l))
  <2>1. below(k) \in SUBSET below(l) /\ k \in below(l) /\ k \notin below(k)
    <3>1. k \in Nat /\ l \in Nat /\ \A j \in places : j \in Nat
      OBVIOUS
    <3>2. \A j \in places : j < k => j < l
      BY <1>4, <3>1
    <3>3. k \in below(l)
      BY <1>4
    <3>4. k \notin below(k)
      BY <3>1
    <3>5. \A j \in below(k) : j \in below(l)
      BY <3>2
    <3> QED
      BY <3>3, <3>4, <3>5
  <2>2. /\ Cardinality(below(k)) <= Cardinality(below(l))
        /\ Cardinality(below(l)) = Cardinality(below(k)) => below(l) = below(k)
    BY <1>1, <2>1, FS_Subset
  <2> QED
    BY <1>1, <2>1, <2>2
<1>5. rank \in Injection(places, 1..size)
  <2>1. \A k \in places : Cardinality(below(k)) + 1 \in 1..size
    BY <1>1, <1>2, <1>3
  <2>2. ASSUME NEW k \in places, NEW l \in places, k # l
        PROVE  Cardinality(below(k)) # Cardinality(below(l))
    <3>1. CASE k < l
      BY <1>1, <1>4, <3>1
    <3>2. CASE l < k
      BY <1>1, <1>4, <3>2
    <3> QED
      BY <2>2, <3>1, <3>2
  <2> HIDE DEF below, size
  <2>3. rank \in [places -> 1..size]
    BY <2>1
  <2>4. IsInjective(rank)
    BY <1>1, <2>2 DEF IsInjective
  <2> QED
    BY <2>3, <2>4 DEF Injection
<1>6. IsFiniteSet(1..size) /\ Cardinality(1..size) = size
  BY <1>2, FS_Interval
<1>7. rank \in Surjection(places, 1..size)
  <2> HIDE DEF rank
  <2> QED
    BY <1>5, <1>6, FS_Injection
<1> QED
  <2> TAKE n \in 1..size
  <2>1. PICK k \in places : rank[k] = n
    BY <1>7 DEF Surjection
  <2>2. Cardinality(below(k)) + 1 = n
    BY <2>1
  <2>3. Cardinality(below(k)) = n - 1
    BY <1>1, <2>2
  <2> QED
    BY <2>3

\* What At takes from a list is at different places, each among those asked
\* for, and it takes as much as there are places.
LEMMA AtPlaces ==
  ASSUME NEW S, NEW list \in Seq(S), NEW places \in SUBSET DOMAIN list
  PROVE  /\ IsFiniteSet(places) /\ Cardinality(places) \in Nat
         /\ DOMAIN At(list, places) = 1..Cardinality(places)
         /\ \E p \in [1..Cardinality(places) -> places] :
              /\ IsInjective(p)
              /\ \A n \in 1..Cardinality(places) : At(list, places)[n] = list[p[n]]
<1> DEFINE size == Cardinality(places)
           rank(k) == Cardinality({j \in places : j < k})
           p == [n \in 1..size |-> CHOOSE k \in places : rank(k) = n - 1]
<1>1. DOMAIN list = 1..Len(list) /\ Len(list) \in Nat
  BY LenProperties
<1>2. IsFiniteSet(places) /\ size \in Nat /\ places \in SUBSET Nat
  <2>1. IsFiniteSet(1..Len(list)) /\ places \in SUBSET (1..Len(list))
    BY <1>1, FS_Interval
  <2>2. IsFiniteSet(places)
    BY <2>1, FS_Subset
  <2> QED
    BY <2>1, <2>2, FS_CardinalityType
<1>3. \A n \in 1..size : \E k \in places : rank(k) = n - 1
  BY <1>2, Ranks
<1>4. \A n \in 1..size : p[n] \in places /\ rank(p[n]) = n - 1
  <2> HIDE DEF rank, size
  <2> QED
    BY <1>3
<1>5. p \in [1..size -> places]
  <2> HIDE DEF rank, size
  <2>1. p = [n \in 1..size |-> p[n]]
    OBVIOUS
  <2> HIDE DEF p
  <2> QED
    BY <1>4, <2>1
<1>6. IsInjective(p)
  <2>1. DOMAIN p = 1..size
    OBVIOUS
  <2>2. ASSUME NEW m \in 1..size, NEW n \in 1..size, p[m] = p[n] PROVE m = n
    <3> HIDE DEF p, rank
    <3>1. rank(p[m]) = rank(p[n]) /\ rank(p[m]) = m - 1 /\ rank(p[n]) = n - 1
      BY <1>4, <2>2
    <3>2. m - 1 = n - 1
      BY <3>1, Zenon
    <3>3. m \in Nat /\ n \in Nat
      BY <1>2
    <3> QED
      BY <3>2, <3>3
  <2> HIDE DEF p
  <2> QED
    BY <2>1, <2>2 DEF IsInjective
<1>7. DOMAIN At(list, places) = 1..size
  BY DEF At
<1>8. \A n \in 1..size : At(list, places)[n] = list[p[n]]
  BY DEF At
<1> HIDE DEF p
<1> QED
  BY <1>2, <1>5, <1>6, <1>7, <1>8

\* So what it takes is a list of things that are at those places.
LEMMA AtIsSeq ==
  ASSUME NEW S, NEW list \in Seq(S), NEW places \in SUBSET DOMAIN list,
         NEW T, \A k \in places : list[k] \in T
  PROVE  At(list, places) \in Seq(T)
<1> DEFINE size == Cardinality(places)
<1>1. size \in Nat /\ DOMAIN At(list, places) = 1..size
  BY AtPlaces
<1>2. \A n \in 1..size : At(list, places)[n] \in T
  <2>1. PICK p \in [1..size -> places] :
          \A n \in 1..size : At(list, places)[n] = list[p[n]]
    BY AtPlaces
  <2> HIDE DEF size
  <2> QED
    BY <2>1
<1>3. At(list, places) = [n \in 1..size |-> At(list, places)[n]]
  BY <1>1 DEF At
<1>4. At(list, places) \in [1..size -> T]
  <2> HIDE DEF size
  <2> QED
    BY <1>2, <1>3
<1> QED
  BY <1>1, <1>4, FunctionIsSeq

\* And without repeats, when the list has none, or none at those places.
LEMMA AtHasNoRepeats ==
  ASSUME NEW S, NEW list \in Seq(S), NEW places \in SUBSET DOMAIN list,
         \A j, k \in places : list[j] = list[k] => j = k
  PROVE  IsInjective(At(list, places))
<1> DEFINE size == Cardinality(places)
<1>1. PICK p \in [1..size -> places] :
        IsInjective(p) /\ \A n \in 1..size : At(list, places)[n] = list[p[n]]
  BY AtPlaces
<1>2. DOMAIN At(list, places) = 1..size
  BY AtPlaces
<1> HIDE DEF size
<1>3. ASSUME NEW m \in 1..size, NEW n \in 1..size, At(list, places)[m] = At(list, places)[n]
      PROVE  m = n
  <2>1. p[m] \in places /\ p[n] \in places /\ list[p[m]] = list[p[n]]
    BY <1>1, <1>3
  <2>2. p[m] = p[n]
    BY <2>1
  <2> QED
    BY <1>1, <2>2 DEF IsInjective
<1> QED
  BY <1>2, <1>3 DEF IsInjective

\* filter() keeps a list without repeats so.
LEMMA OnlyKeeps ==
  ASSUME NEW S, NEW list \in Seq(S), NEW kind
  PROVE  /\ Only(list, kind) \in Seq(S) /\ Only(list, kind) \in Seq(kind)
         /\ IsInjective(list) => IsInjective(Only(list, kind))
<1> DEFINE places == {k \in DOMAIN list : list[k] \in kind}
<1>1. places \in SUBSET DOMAIN list /\ Only(list, kind) = At(list, places)
  BY DEF Only
<1>2. \A k \in places : list[k] \in S /\ list[k] \in kind
  BY LenProperties
<1>3. IsInjective(list) => \A j, k \in places : list[j] = list[k] => j = k
  BY DEF IsInjective
<1> HIDE DEF places
<1>4. At(list, places) \in Seq(S) /\ At(list, places) \in Seq(kind)
  BY <1>1, <1>2, AtIsSeq
<1>5. IsInjective(list) => IsInjective(At(list, places))
  BY <1>1, <1>3, AtHasNoRepeats
<1> QED
  BY <1>1, <1>4, <1>5

\* The distinct cells of a list are a list of cells of that kind without
\* repeats.
LEMMA DistinctIsDistinct ==
  ASSUME NEW S, NEW list \in Seq(S), NEW kind
  PROVE  Distinct(list, kind) \in Seq(kind) /\ IsInjective(Distinct(list, kind))
<1> DEFINE places == {k \in DOMAIN list :
                        list[k] \in kind /\ \A j \in 1..k - 1 : list[j] # list[k]}
<1>1. DOMAIN list = 1..Len(list) /\ Len(list) \in Nat
  BY LenProperties
<1>2. places \in SUBSET DOMAIN list /\ Distinct(list, kind) = At(list, places)
  BY DEF Distinct
<1>3. \A k \in places : list[k] \in kind
  OBVIOUS
<1>4. ASSUME NEW j \in places, NEW k \in places, list[j] = list[k] PROVE j = k
  <2>1. j \in Nat \ {0} /\ k \in Nat \ {0}
    BY <1>1
  <2>2. ~(j < k)
    <3> SUFFICES ASSUME j < k PROVE FALSE
      OBVIOUS
    <3>1. j \in 1..k - 1
      BY <2>1
    <3> QED
      BY <1>4, <3>1
  <2>3. ~(k < j)
    <3> SUFFICES ASSUME k < j PROVE FALSE
      OBVIOUS
    <3>1. k \in 1..j - 1
      BY <2>1
    <3> QED
      BY <1>4, <3>1
  <2> QED
    BY <2>1, <2>2, <2>3
<1> HIDE DEF places
<1> QED
  BY <1>2, <1>3, <1>4, AtIsSeq, AtHasNoRepeats

\* A list that takes no value twice has as many values as it is long.
LEMMA InjectiveHasNoRepeats ==
  ASSUME NEW S, NEW list \in Seq(S), IsInjective(list)
  PROVE  HasNoRepeats(list)
<1>1. list \in [1..Len(list) -> S] /\ DOMAIN list = 1..Len(list) /\ Len(list) \in Nat
  BY LenProperties
<1>2. list \in Surjection(1..Len(list), Range(list)) /\ list \in Injection(1..Len(list), Range(list))
  BY <1>1 DEF Surjection, Injection, Range
<1>3. IsFiniteSet(1..Len(list)) /\ Cardinality(1..Len(list)) = Len(list)
  <2>1. PICK n \in Nat : n = Len(list)
    BY <1>1
  <2>2. IsFiniteSet(1..n) /\ Cardinality(1..n) = n
    BY FS_Interval
  <2> QED
    BY <2>1, <2>2
<1> QED
  BY <1>2, <1>3, FS_Surjection DEF HasNoRepeats

Addresses == AddressCells \cup Range(AddressOf) \cup {NoAddress}
AddressLists == Seq(Addresses)
NameLists == Seq(NameCells)
ChainLists == Seq(Chains \cup {"ethereum"})

FormTypes ==
  /\ form \in [named : BOOLEAN, chains : ChainLists, addresses : AddressLists,
               candidates : NameLists, failed : NameLists, resolved : Nat,
               at : {"open", "leaving", "left"}]
  /\ readings \subseteq Texts /\ resolution \in NameLists /\ sent.count \in Nat

\* Neither the addresses nor the chains of the form ever have a repeat, though
\* files, texts and names be merged into them in any order.
ListedOnce == IsInjective(form.addresses) /\ IsInjective(form.chains)

FormInv == FormTypes /\ ListedOnce /\ SubmittedIsASet

Forms ==
  [named : BOOLEAN, chains : ChainLists, addresses : AddressLists,
   candidates : NameLists, failed : NameLists, resolved : Nat,
   at : {"open", "leaving", "left"}]

\* What is parsed out of a text.
LEMMA Parsed ==
  ASSUME NEW text \in Texts
  PROVE  /\ ParseAddresses(text) \in AddressLists /\ IsInjective(ParseAddresses(text))
         /\ ExtractEnsNames(text) \in NameLists
<1>1. text \in Seq(Range(text))
  BY NewAnalysisAssumption
<1>2. ParseAddresses(text) \in Seq(AddressCells) /\ IsInjective(ParseAddresses(text))
  BY <1>1, DistinctIsDistinct DEF ParseAddresses
<1>3. ExtractEnsNames(text) \in NameLists
  BY <1>1, DistinctIsDistinct DEF ExtractEnsNames, NameLists
<1>4. ParseAddresses(text) \in AddressLists
  BY <1>2, SeqMonotonic DEF Addresses, AddressLists
<1> QED
  BY <1>2, <1>3, <1>4

LEMMA NothingIsAList == Nothing \in AddressLists /\ Nothing \in NameLists /\ Nothing \in ChainLists
BY EmptySeq DEF Nothing, AddressLists, NameLists, ChainLists

\* Files and texts.
LEMMA InputSteps ==
  ASSUME FormInv, ChooseFile \/ FileRead \/ FileUnreadable \/ HandlePaste
  PROVE  FormInv'
<1>1. form \in Forms /\ readings \subseteq Texts
  BY DEF FormInv, FormTypes, Forms
<1>2. UNCHANGED <<resolution, sent>>
  BY DEF ChooseFile, FileRead, FileUnreadable, HandlePaste
<1>3. SubmittedIsASet'
  BY <1>2 DEF FormInv, SubmittedIsASet, HasNoRepeats, Range
<1>4. /\ form' \in Forms /\ readings' \subseteq Texts
      /\ form'.chains = form.chains
      /\ form'.addresses = form.addresses \/ IsInjective(form'.addresses)
  <2>1. CASE ChooseFile
    <3>1. PICK text \in Texts : readings' = readings \cup {text}
      BY <2>1 DEF ChooseFile
    <3>2. form' = [form EXCEPT !.candidates = Nothing, !.failed = Nothing, !.resolved = 0]
      BY <2>1 DEF ChooseFile
    <3> QED
      BY <1>1, <3>1, <3>2, NothingIsAList DEF Forms
  <2>2. CASE FileRead
    <3>1. PICK text \in readings :
            /\ readings' = readings \ {text}
            /\ form' = [form EXCEPT !.addresses = ParseAddresses(text),
                                    !.candidates = ExtractEnsNames(text)]
      BY <2>2 DEF FileRead
    <3>2. /\ ParseAddresses(text) \in AddressLists /\ IsInjective(ParseAddresses(text))
          /\ ExtractEnsNames(text) \in NameLists
      BY <1>1, Parsed
    <3> QED
      BY <1>1, <3>1, <3>2 DEF Forms
  <2>3. CASE FileUnreadable
    BY <1>1, <2>3 DEF FileUnreadable
  <2>4. CASE HandlePaste
    <3>1. PICK text \in Texts :
            form' = [form EXCEPT !.addresses = ParseAddresses(text),
                                 !.candidates = ExtractEnsNames(text),
                                 !.failed = Nothing, !.resolved = 0]
      BY <2>4 DEF HandlePaste
    <3>2. /\ ParseAddresses(text) \in AddressLists /\ IsInjective(ParseAddresses(text))
          /\ ExtractEnsNames(text) \in NameLists
      BY Parsed
    <3>3. readings' = readings
      BY <2>4 DEF HandlePaste
    <3> QED
      BY <1>1, <3>1, <3>2, <3>3, NothingIsAList DEF Forms
  <2> QED
    BY <2>1, <2>2, <2>3, <2>4
<1>5. ListedOnce'
  BY <1>4 DEF FormInv, ListedOnce
<1> QED
  BY <1>2, <1>3, <1>4, <1>5 DEF FormInv, FormTypes, Forms

\* ENS names that are resolved go into the list of now, without repeats.
LEMMA NameSteps ==
  ASSUME FormInv, ResolveEns \/ EnsResolved
  PROVE  FormInv'
<1>1. /\ form \in Forms /\ readings \subseteq Texts /\ resolution \in NameLists
      /\ form.addresses \in AddressLists /\ form.candidates \in NameLists
  BY DEF FormInv, FormTypes, Forms
<1>2. UNCHANGED <<readings, sent>>
  BY DEF ResolveEns, EnsResolved
<1>3. SubmittedIsASet'
  BY <1>2 DEF FormInv, SubmittedIsASet, HasNoRepeats, Range
<1>4. CASE ResolveEns
  <2>1. form' = form /\ resolution' = Upto(form.candidates, MAX_ENS_PER_RESOLVE)
    BY <1>4 DEF ResolveEns
  <2>2. PICK list \in Seq(NameCells) : list = form.candidates
    BY <1>1 DEF NameLists
  <2>3. Upto(list, MAX_ENS_PER_RESOLVE) \in Seq(NameCells)
    <3>1. Len(list) \in Nat /\ MAX_ENS_PER_RESOLVE \in Nat
      BY LenProperties, NewAnalysisAssumption
    <3>2. PICK m \in 0..Len(list) :
            m = IF MAX_ENS_PER_RESOLVE < Len(list) THEN MAX_ENS_PER_RESOLVE ELSE Len(list)
      BY <3>1
    <3>3. \A i \in 1..m : list[i] \in NameCells
      BY <3>1, ElementOfSeq
    <3>4. SubSeq(list, 1, m) \in Seq(NameCells)
      BY <3>1, <3>3, SubSeqProperties
    <3> QED
      BY <3>2, <3>4 DEF Upto
  <2>4. resolution' \in NameLists
    BY <2>1, <2>2, <2>3 DEF NameLists
  <2> QED
    BY <1>2, <1>3, <2>1, <2>4 DEF FormInv, FormTypes, ListedOnce
<1>5. CASE EnsResolved
  <2> DEFINE answers == {r \in [Range(resolution) -> Range(AddressOf) \cup {NoAddress}] :
                           \A n \in DOMAIN r : r[n] \in ResolveReplies(n)}
             found(r) == Only(resolution, {n \in DOMAIN r : r[n] # NoAddress})
             more(r) == [k \in DOMAIN found(r) |-> r[found(r)[k]]]
             lost(r) == Only(resolution, {n \in DOMAIN r : r[n] = NoAddress})
             rest == Only(form.candidates, Range(form.candidates) \ Range(resolution))
  <2>1. PICK r \in answers :
          form' = [form EXCEPT !.addresses = Merge(@, more(r)), !.resolved = Len(found(r)),
                               !.failed = lost(r), !.candidates = rest]
    BY <1>5 DEF EnsResolved
  <2>2. /\ found(r) \in Seq({n \in DOMAIN r : r[n] # NoAddress})
        /\ lost(r) \in NameLists /\ rest \in NameLists
    BY <1>1, OnlyKeeps DEF NameLists
  <2>3. DOMAIN found(r) = 1..Len(found(r)) /\ Len(found(r)) \in Nat
    BY <2>2, LenProperties
  <2>4. \A k \in 1..Len(found(r)) : r[found(r)[k]] \in Addresses
    <3> TAKE k \in 1..Len(found(r))
    <3>1. found(r)[k] \in DOMAIN r
      <4>1. found(r)[k] \in {n \in DOMAIN r : r[n] # NoAddress}
        BY <2>2, ElementOfSeq
      <4> QED
        BY <4>1
    <3> HIDE DEF found
    <3> QED
      BY <3>1 DEF Addresses
  <2>5. more(r) \in Seq(Addresses)
    <3>1. more(r) \in [1..Len(found(r)) -> Addresses]
      BY <2>3, <2>4
    <3> QED
      BY <2>3, <3>1, FunctionIsSeq
  <2>6. Merge(form.addresses, more(r)) \in AddressLists /\ IsInjective(Merge(form.addresses, more(r)))
    <3>1. PICK both \in Seq(Addresses) : both = form.addresses \o more(r)
      BY <1>1, <2>5, ConcatProperties DEF AddressLists
    <3>2. /\ Merge(form.addresses, more(r)) = Distinct(both, Range(both))
          /\ Distinct(both, Range(both)) \in Seq(Range(both))
          /\ IsInjective(Distinct(both, Range(both)))
      BY <3>1, DistinctIsDistinct DEF Merge
    <3>3. Range(both) \subseteq Addresses
      BY LenProperties DEF Range
    <3> QED
      BY <3>2, <3>3, SeqMonotonic DEF AddressLists
  <2> HIDE DEF found, more, lost, rest
  <2>7. form' \in Forms /\ form'.chains = form.chains /\ IsInjective(form'.addresses)
    BY <1>1, <2>1, <2>2, <2>3, <2>6 DEF Forms
  <2>8. resolution' \in NameLists
    BY <1>5, NothingIsAList DEF EnsResolved
  <2>9. ListedOnce'
    BY <2>7 DEF FormInv, ListedOnce
  <2> QED
    BY <1>2, <1>3, <2>7, <2>8, <2>9 DEF FormInv, FormTypes, Forms
<1> QED
  BY <1>4, <1>5

\* A chain that is put in was not there; one that is taken out is not put in.
LEMMA ChainSteps ==
  ASSUME FormInv, ToggleChain \/ Name
  PROVE  FormInv'
<1>1. /\ form \in Forms /\ form.chains \in Seq(Chains \cup {"ethereum"})
      /\ IsInjective(form.chains)
  BY DEF FormInv, FormTypes, Forms, ListedOnce, ChainLists
<1>2. UNCHANGED <<readings, resolution, sent>>
  BY DEF ToggleChain, Name
<1>3. SubmittedIsASet'
  BY <1>2 DEF FormInv, SubmittedIsASet, HasNoRepeats, Range
<1>4. /\ form' \in Forms /\ form'.addresses = form.addresses /\ IsInjective(form'.chains)
  <2>1. CASE Name
    BY <1>1, <2>1 DEF Name, Forms
  <2>2. CASE ToggleChain
    <3>1. PICK c \in Chains :
            form' = [form EXCEPT !.chains = IF c \in Range(@) THEN Only(@, Range(@) \ {c})
                                            ELSE Append(@, c)]
      BY <2>2 DEF ToggleChain
    <3> DEFINE chains == IF c \in Range(form.chains)
                         THEN Only(form.chains, Range(form.chains) \ {c})
                         ELSE Append(form.chains, c)
    <3>2. chains \in ChainLists /\ IsInjective(chains)
      <4>1. CASE c \in Range(form.chains)
        BY <1>1, <4>1, OnlyKeeps DEF ChainLists
      <4>2. CASE c \notin Range(form.chains)
        <5>1. PICK list \in Seq(Chains \cup {"ethereum"}), len \in Nat :
                list = form.chains /\ len = Len(list)
          BY <1>1, LenProperties
        <5>2. /\ Append(list, c) \in Seq(Chains \cup {"ethereum"})
              /\ Len(Append(list, c)) = len + 1 /\ Append(list, c)[len + 1] = c
              /\ \A i \in 1..len : Append(list, c)[i] = list[i]
          BY <5>1, AppendProperties
        <5>3. DOMAIN list = 1..len /\ DOMAIN Append(list, c) = 1..(len + 1)
          BY <5>1, <5>2, LenProperties
        <5>4. \A i \in 1..len : list[i] # c
          BY <4>2, <5>1, <5>3 DEF Range
        <5>5. \A i, j \in 1..len : list[i] = list[j] => i = j
          BY <1>1, <5>1, <5>3 DEF IsInjective
        <5>6. ASSUME NEW i \in 1..(len + 1), NEW j \in 1..(len + 1),
                     Append(list, c)[i] = Append(list, c)[j]
              PROVE  i = j
          <6>1. (i \in 1..len \/ i = len + 1) /\ (j \in 1..len \/ j = len + 1)
            BY <5>1
          <6> QED
            BY <5>2, <5>4, <5>5, <5>6, <6>1
        <5>7. IsInjective(Append(list, c))
          BY <5>3, <5>6 DEF IsInjective
        <5> QED
          BY <4>2, <5>1, <5>2, <5>7 DEF ChainLists
      <4> QED
        BY <4>1, <4>2
    <3>3. form' = [form EXCEPT !.chains = chains]
      BY <3>1
    <3> HIDE DEF chains
    <3> QED
      BY <1>1, <3>2, <3>3 DEF Forms
  <2> QED
    BY <2>1, <2>2
<1>5. ListedOnce'
  BY <1>4 DEF FormInv, ListedOnce
<1> QED
  BY <1>2, <1>3, <1>4, <1>5 DEF FormInv, FormTypes, Forms

\* What is posted is what the form has, which is no longer than the limit.
LEMMA SubmitSteps ==
  ASSUME FormInv, Submit \/ Accepted \/ NotAccepted \/ Navigated
  PROVE  FormInv'
<1>1. /\ form \in Forms /\ readings \subseteq Texts /\ resolution \in NameLists
      /\ sent.count \in Nat
  BY DEF FormInv, FormTypes, Forms
<1>2. CASE Submit
  <2>1. /\ UNCHANGED <<form, readings, resolution>>
        /\ form.addresses # Nothing /\ ~OverLimit /\ form.chains # Nothing
        /\ sent' = [count |-> sent.count + 1, addresses |-> form.addresses,
                    chains |-> form.chains]
    BY <1>2 DEF Submit, SubmitEnabled
  <2>2. PICK list \in Seq(Addresses), chains \in Seq(Chains \cup {"ethereum"}) :
          /\ list = form.addresses /\ chains = form.chains
          /\ IsInjective(list) /\ IsInjective(chains)
    BY DEF FormInv, FormTypes, AddressLists, ChainLists, ListedOnce
  <2>3. HasNoRepeats(list) /\ HasNoRepeats(chains)
    BY <2>2, InjectiveHasNoRepeats
  <2>4. Len(list) <= MAX_ADDRESSES
    BY <2>1, <2>2, LenProperties, NewAnalysisAssumption DEF OverLimit
  <2>5. sent'.addresses = list /\ sent'.chains = chains /\ sent'.count \in Nat
    BY <1>1, <2>1, <2>2
  <2>6. SubmittedIsASet'
    BY <2>1, <2>2, <2>3, <2>4, <2>5 DEF SubmittedIsASet, HasNoRepeats, Range, Nothing
  <2> QED
    BY <1>1, <2>1, <2>5, <2>6 DEF FormInv, FormTypes, ListedOnce
<1>3. CASE Accepted \/ NotAccepted \/ Navigated
  <2>1. sent' = sent /\ readings' \subseteq Texts /\ resolution' \in NameLists
    BY <1>1, <1>3, NothingIsAList DEF Accepted, NotAccepted, Navigated
  <2>2. /\ form' \in Forms /\ form'.addresses = form.addresses
        /\ form'.chains = form.chains
    BY <1>1, <1>3 DEF Accepted, NotAccepted, Navigated, Forms
  <2>3. SubmittedIsASet'
    BY <2>1 DEF FormInv, SubmittedIsASet, HasNoRepeats, Range
  <2>4. ListedOnce'
    BY <2>2 DEF FormInv, ListedOnce
  <2> QED
    BY <1>1, <2>1, <2>2, <2>3, <2>4 DEF FormInv, FormTypes, Forms
<1> QED
  BY <1>2, <1>3

\* The form over every order of files, texts, names, chains and posts
\* (dashboard/new/page.tsx).
THEOREM FormInvariance == FormSpec => []FormInv
<1>1. FormInit => FormInv
  <2> SUFFICES ASSUME FormInit PROVE FormInv
    OBVIOUS
  <2>1. <<"ethereum">> \in ChainLists /\ IsInjective(<<"ethereum">>)
    BY DEF ChainLists, IsInjective
  <2>2. IsInjective(Nothing)
    BY DEF IsInjective, Nothing
  <2>3. FormTypes
    BY <2>1, NothingIsAList DEF FormInit, FormTypes
  <2>4. ListedOnce /\ SubmittedIsASet
    BY <2>1, <2>2 DEF FormInit, ListedOnce, SubmittedIsASet
  <2> QED
    BY <2>3, <2>4 DEF FormInv
<1>2. FormInv /\ [FormNext]_formVars => FormInv'
  <2> SUFFICES ASSUME FormInv, [FormNext]_formVars PROVE FormInv'
    OBVIOUS
  <2>1. CASE UNCHANGED formVars
    BY <2>1 DEF formVars, FormInv, FormTypes, ListedOnce, SubmittedIsASet, HasNoRepeats,
       Range, IsInjective
  <2> QED
    BY <2>1, InputSteps, NameSteps, ChainSteps, SubmitSteps DEF FormNext
<1> QED
  BY <1>1, <1>2, PTL DEF FormSpec

\* What is posted is a list of addresses without repeats, not empty and within
\* the fair use, on chains without repeats, however files, texts and names
\* follow (analyses.ts:52 and cluster-only.ts:70 count each that is listed).
THEOREM SubmitsASet == FormSpec => []SubmittedIsASet
<1>1. FormInv => SubmittedIsASet
  BY DEF FormInv
<1> QED
  BY <1>1, FormInvariance, PTL

----------------------------------------------------------------------------
(* The lists that are read page by page.                                   *)

\* An arrangement of finitely many things has each of them once.
LEMMA Arranged ==
  ASSUME NEW S, IsFiniteSet(S), NEW s \in SetToSeqs(S)
  PROVE  /\ s \in Seq(S) /\ Len(s) = Cardinality(S) /\ Len(s) \in Nat
         /\ DOMAIN s = 1..Len(s) /\ Range(s) = S
         /\ \A i, j \in 1..Len(s) : s[i] = s[j] => i = j
<1> DEFINE size == Cardinality(S)
<1>1. size \in Nat
  BY FS_CardinalityType
<1>2. s \in [1..size -> S] /\ \A i, j \in 1..size : i # j => s[i] # s[j]
  BY DEF SetToSeqs
<1>3. IsFiniteSet(1..size) /\ Cardinality(1..size) = size
  BY <1>1, FS_Interval
<1> HIDE DEF size
<1>4. s \in Seq(S) /\ Len(s) = size /\ DOMAIN s = 1..size
  BY <1>1, <1>2, FunctionIsSeq
<1>5. s \in Injection(1..size, S)
  BY <1>2 DEF Injection, IsInjective
<1>6. s \in Surjection(1..size, S)
  BY <1>3, <1>5, FS_Injection DEF size
<1>7. Range(s) = S
  BY <1>2, <1>6 DEF Surjection, Range
<1> QED
  BY <1>1, <1>2, <1>4, <1>7 DEF size

\* On one chain no two rows of an analysis tie.
LEMMA NoTies ==
  ASSUME rows \in Tables, OneChain, NEW r \in rows, NEW q \in rows, r # q
  PROVE  Before("results", r, q) \/ Before("results", q, r)
<1> DEFINE chains == {x.chain : x \in rows}
           f == [x \in rows |-> x.chain]
<1>1. f \in Surjection(rows, chains)
  BY DEF Surjection
<1>2. IsFiniteSet(chains) /\ Cardinality(chains) \in Nat
  BY <1>1, FS_Surjection, FS_CardinalityType, ResultPagesAssumption
<1>3. r.chain = q.chain
  <2>1. Cardinality(chains) <= 1
    BY DEF OneChain
  <2>2. CASE Cardinality(chains) = 0
    BY <1>2, <2>2, FS_EmptySet
  <2>3. CASE Cardinality(chains) = 1
    <3>1. PICK c : chains = {c}
      BY <1>2, <2>3, FS_Singleton
    <3> QED
      BY <3>1
  <2> QED
    BY <1>2, <2>1, <2>2, <2>3
<1>4. /\ r.score \in Nat /\ q.score \in Nat /\ r.address \in Nat /\ q.address \in Nat
      /\ r.address # q.address
  BY <1>3, ResultPagesAssumption
<1> QED
  BY <1>4 DEF Before

\* So its rows have one order: each is preceded by those before it, and by
\* them alone.
LEMMA OneAnswer ==
  ASSUME rows \in Tables, OneChain, NEW S \in SUBSET rows,
         NEW s \in Answers("results", S), NEW t \in Answers("results", S)
  PROVE  s = t
<1> DEFINE ahead(r) == {q \in S : Before("results", q, r)}
<1>1. IsFiniteSet(S)
  BY FS_Subset, ResultPagesAssumption
<1>2. ASSUME NEW a \in Answers("results", S), NEW i \in 1..Len(a)
      PROVE  Cardinality(ahead(a[i])) = i - 1
  <2>1. a \in SetToSeqs(S) /\ \A j, k \in DOMAIN a : Before("results", a[j], a[k]) => j < k
    BY DEF Answers
  <2>2. /\ a \in Seq(S) /\ DOMAIN a = 1..Len(a) /\ Range(a) = S /\ Len(a) \in Nat
        /\ \A j, k \in 1..Len(a) : a[j] = a[k] => j = k
    BY <1>1, <2>1, Arranged
  <2> DEFINE f == [j \in 1..i - 1 |-> a[j]]
             before == ahead(a[i])
  <2>3. \A j \in 1..i - 1 : j \in 1..Len(a) /\ a[j] \in S /\ Before("results", a[j], a[i])
    <3> TAKE j \in 1..i - 1
    <3>1. j \in 1..Len(a) /\ i \in 1..Len(a) /\ j < i
      BY <2>2
    <3>2. a[j] \in S /\ a[i] \in S /\ a[j] # a[i]
      BY <2>2, <3>1, ElementOfSeq
    <3>3. Before("results", a[j], a[i]) \/ Before("results", a[i], a[j])
      BY <3>2, NoTies
    <3>4. ~(i < j)
      BY <3>1
    <3> QED
      BY <2>1, <2>2, <3>1, <3>2, <3>3, <3>4
  <2>4. \A r \in before : \E j \in 1..i - 1 : a[j] = r
    <3> TAKE r \in before
    <3>1. PICK j \in 1..Len(a) : a[j] = r
      BY <2>2 DEF Range
    <3>2. Before("results", a[j], a[i])
      BY <3>1
    <3>3. j < i
      BY <2>1, <2>2, <3>2
    <3> QED
      BY <2>2, <3>1, <3>3
  <2>5. \A j \in 1..i - 1 : a[j] \in before
    BY <2>3
  <2> HIDE DEF before
  <2>6. f \in Surjection(1..i - 1, before)
    BY <2>4, <2>5 DEF Surjection
  <2>7. f \in Injection(1..i - 1, before)
    BY <2>2, <2>3, <2>5 DEF Injection, IsInjective
  <2>8. IsFiniteSet(1..i - 1) /\ Cardinality(1..i - 1) = i - 1
    <3>1. PICK m \in Nat : m = i - 1
      BY <2>2
    <3>2. IsFiniteSet(1..m) /\ Cardinality(1..m) = m
      BY FS_Interval
    <3> QED
      BY <3>1, <3>2
  <2>9. Cardinality(before) = Cardinality(1..i - 1)
    <3> HIDE DEF f
    <3> QED
      BY <2>6, <2>7, <2>8, FS_Surjection
  <2> QED
    BY <2>8, <2>9 DEF before
<1>3. /\ s \in Seq(S) /\ t \in Seq(S) /\ Len(s) = Len(t) /\ Len(s) \in Nat
      /\ DOMAIN t = 1..Len(t) /\ Range(t) = S
  BY <1>1, Arranged DEF Answers
<1>4. ASSUME NEW i \in 1..Len(s) PROVE s[i] = t[i]
  <2>1. PICK j \in 1..Len(t) : t[j] = s[i]
    BY <1>3, ElementOfSeq DEF Range
  <2>2. Cardinality(ahead(s[i])) = i - 1 /\ Cardinality(ahead(t[j])) = j - 1
    BY <1>2
  <2> HIDE DEF ahead
  <2>3. i - 1 = j - 1
    BY <2>1, <2>2
  <2> QED
    BY <1>3, <2>1, <2>3
<1> QED
  BY <1>3, <1>4, SeqEqual

Walks ==
  [list : {"none", "results", "audit", "export"}, decision : Decisions \cup {""},
   limit : Nat \ {0}, page : Nat, got : Seq(rows), done : BOOLEAN]

\* The first n of an answer, or all when there are no more.
FirstOf(answer, n) == SubSeq(answer, 1, IF n < Len(answer) THEN n ELSE Len(answer))

\* The pages of results that have been read are the first rows of an answer,
\* and it has been read to its end when the walk is done; one answer gives the
\* pages of all, as there is no other.
ResultsInOrder ==
  walk.list = "results" /\ OneChain =>
    IF walk.page = 0 THEN walk.got = << >> /\ ~walk.done
    ELSE \E answer \in Answers("results", Selected("results", walk.decision)) :
           /\ walk.got = FirstOf(answer, walk.page * walk.limit)
           /\ ~walk.done => walk.page * walk.limit <= Len(answer)
           /\ walk.done => walk.got = answer

\* What fits on one page is read with the first.
AuditOnOnePage ==
  walk.list = "audit" /\ Cardinality(rows) <= walk.limit =>
    IF walk.page = 0 THEN walk.got = << >> /\ ~walk.done
                     ELSE walk.got \in Answers("audit", rows)

WalkInv ==
  /\ rows \in Tables /\ walk \in Walks
  /\ walk.list = "none" => ~walk.done
  /\ walk.list = "export" => walk.done /\ walk.got \in Answers("export", rows)
  /\ ResultsInOrder /\ AuditOnOnePage

\* A walk is started, or the whole table exported.
LEMMA StartSteps ==
  ASSUME WalkInv, StartWalk \/ Export
  PROVE  WalkInv'
<1>1. rows' = rows /\ rows \in Tables /\ IsFiniteSet(rows)
  BY ResultPagesAssumption DEF WalkInv, StartWalk, Export
<1>2. NoWalk \in Walks /\ NoWalk.got = << >> /\ NoWalk.page = 0 /\ ~NoWalk.done
  BY EmptySeq DEF NoWalk, Walks
<1>3. CASE StartWalk
  <2>1. PICK list \in {"results", "audit"}, limit \in PageSizes, decision \in Decisions :
          walk' = [NoWalk EXCEPT !.list = list, !.decision = decision,
                     !.limit = IF limit < PageLimit THEN limit ELSE PageLimit]
    BY <1>3 DEF StartWalk
  <2>2. (IF limit < PageLimit THEN limit ELSE PageLimit) \in Nat \ {0}
    BY ResultPagesAssumption
  <2>3. /\ walk' \in Walks /\ walk'.list = list /\ walk'.got = << >> /\ walk'.page = 0
        /\ ~walk'.done
    BY <1>2, <2>1, <2>2 DEF Walks
  <2> QED
    BY <1>1, <2>3 DEF WalkInv, Walks, ResultsInOrder, AuditOnOnePage
<1>4. CASE Export
  <2>1. PICK answer \in Answers("export", rows) :
          walk' = [NoWalk EXCEPT !.list = "export", !.got = answer, !.done = TRUE]
    BY <1>4 DEF Export
  <2>2. answer \in Seq(rows)
    BY <1>1, Arranged DEF Answers
  <2>3. walk' \in Walks /\ walk'.list = "export" /\ walk'.got = answer /\ walk'.done
    BY <1>2, <2>1, <2>2 DEF Walks
  <2>4. Answers("export", rows)' = Answers("export", rows)
    BY <1>1 DEF Answers, Before
  <2> QED
    BY <1>1, <2>3, <2>4 DEF WalkInv, Walks, ResultsInOrder, AuditOnOnePage
<1> QED
  BY <1>3, <1>4

\* The next page continues the rows that were read up to it.
LEMMA NextPage ==
  ASSUME NEW S, NEW answer \in Seq(S), NEW k \in Nat, NEW limit \in Nat \ {0},
         k * limit <= Len(answer)
  PROVE  /\ FirstOf(answer, k * limit) \o Page(answer, k, limit)
              = FirstOf(answer, (k + 1) * limit)
         /\ IF Len(Page(answer, k, limit)) < limit
              THEN FirstOf(answer, (k + 1) * limit) = answer
              ELSE (k + 1) * limit <= Len(answer)
<1>1. PICK len \in Nat, from \in Nat, to \in Nat :
        len = Len(answer) /\ from = k * limit /\ to = (k + 1) * limit
  BY LenProperties
<1>2. to = from + limit /\ from <= len
  BY <1>1
<1>3. PICK end \in from..len : end = IF to < len THEN to ELSE len
  BY <1>2
<1>4. /\ Page(answer, k, limit) = SubSeq(answer, from + 1, end)
      /\ FirstOf(answer, (k + 1) * limit) = SubSeq(answer, 1, end)
      /\ FirstOf(answer, k * limit) = SubSeq(answer, 1, from)
  <2>1. (IF from < len THEN from ELSE len) = from
    BY <1>2
  <2> QED
    BY <1>1, <1>3, <2>1 DEF Page, FirstOf
<1>5. SubSeq(answer, 1, from) \o SubSeq(answer, from + 1, end) = SubSeq(answer, 1, end)
  <2>1. 1 \in 1..Len(answer) + 1 /\ from \in 1 - 1..Len(answer) /\ end \in from..Len(answer)
    BY <1>1, <1>2
  <2> QED
    BY <2>1, ConcatAdjacentSubSeq
<1>6. Len(SubSeq(answer, from + 1, end)) = end - from
  <2>1. \A i \in from + 1..end : answer[i] \in S
    BY <1>1, ElementOfSeq
  <2>2. Len(SubSeq(answer, from + 1, end))
          = IF from + 1 <= end THEN end - (from + 1) + 1 ELSE 0
    BY <2>1, SubSeqProperties
  <2> QED
    BY <2>2
<1>7. CASE end - from < limit
  <2>1. end = len
    BY <1>2, <1>3, <1>7
  <2>2. SubSeq(answer, 1, end) = answer
    BY <1>1, <2>1, SubSeqFull
  <2> QED
    BY <1>4, <1>5, <1>6, <1>7, <2>2
<1>8. CASE ~(end - from < limit)
  <2>1. to <= len
    BY <1>2, <1>3, <1>8
  <2> QED
    BY <1>1, <1>4, <1>5, <1>6, <1>8, <2>1
<1> QED
  BY <1>7, <1>8

\* A page holds rows of its answer.
LEMMA PageIsSeq ==
  ASSUME NEW S, NEW answer \in Seq(S), NEW k \in Nat, NEW limit \in Nat
  PROVE  Page(answer, k, limit) \in Seq(S)
<1>1. PICK len \in Nat, from \in Nat, to \in Nat :
        len = Len(answer) /\ from = k * limit /\ to = (k + 1) * limit
  BY LenProperties
<1>2. PICK end \in Nat : end = (IF to < len THEN to ELSE len) /\ end <= len
  BY Z3
<1>3. Page(answer, k, limit) = SubSeq(answer, from + 1, end)
  BY <1>1, <1>2 DEF Page
<1>4. \A i \in from + 1..end : answer[i] \in S
  BY <1>1, <1>2, ElementOfSeq
<1> QED
  BY <1>3, <1>4, SubSeqProperties

\* A page is read.
LEMMA ReadSteps ==
  ASSUME WalkInv, ReadPage
  PROVE  WalkInv'
<1> DEFINE selected == Selected(walk.list, walk.decision)
<1>1. /\ rows' = rows /\ rows \in Tables /\ IsFiniteSet(rows) /\ walk \in Walks
      /\ walk.list \in {"results", "audit"} /\ ~walk.done
      /\ walk.page \in Nat /\ walk.limit \in Nat \ {0} /\ walk.got \in Seq(rows)
  BY ResultPagesAssumption DEF WalkInv, ReadPage, Walks
<1>2. PICK answer \in Answers(walk.list, selected) :
        walk' = [walk EXCEPT !.got = @ \o Page(answer, walk.page, walk.limit),
                             !.page = @ + 1,
                             !.done = Len(Page(answer, walk.page, walk.limit)) < walk.limit]
  BY DEF ReadPage
<1> DEFINE read == Page(answer, walk.page, walk.limit)
<1>3. /\ selected \in SUBSET rows /\ IsFiniteSet(selected)
      /\ walk.list = "audit" => selected = rows
  <2>1. selected \in SUBSET rows
    BY DEF Selected
  <2> QED
    BY <1>1, <2>1, FS_Subset DEF Selected
<1>4. answer \in Seq(selected) /\ answer \in Seq(rows) /\ Len(answer) = Cardinality(selected)
  <2>1. answer \in Seq(selected) /\ Len(answer) = Cardinality(selected)
    BY <1>3, Arranged DEF Answers
  <2> HIDE DEF selected
  <2> QED
    BY <1>3, <2>1, SeqMonotonic
<1>5. read \in Seq(rows) /\ walk.got \o read \in Seq(rows)
  <2>1. read \in Seq(rows)
    BY <1>1, <1>4, PageIsSeq
  <2> HIDE DEF read
  <2> QED
    BY <1>1, <2>1, ConcatProperties
<1>6. /\ walk' \in Walks /\ walk'.list = walk.list /\ walk'.decision = walk.decision
      /\ walk'.limit = walk.limit /\ walk'.got = walk.got \o read
      /\ walk'.page = walk.page + 1 /\ walk'.page # 0
      /\ walk'.done = (Len(read) < walk.limit)
  <2>1. walk' = [walk EXCEPT !.got = walk.got \o read, !.page = walk.page + 1,
                             !.done = Len(read) < walk.limit]
    BY <1>1, <1>2
  <2> HIDE DEF read
  <2>2. PICK all \in Seq(rows) : all = walk.got \o read
    BY <1>5
  <2>3. PICK done \in BOOLEAN : done = (Len(read) < walk.limit)
    <3>1. Len(read) \in Nat /\ walk.limit \in Nat
      BY <1>1, <1>5, LenProperties
    <3>2. (Len(read) < walk.limit) \in BOOLEAN
      BY <3>1
    <3> QED
      BY <3>2
  <2>4. walk' = [walk EXCEPT !.got = all, !.page = walk.page + 1, !.done = done]
    BY <2>1, <2>2, <2>3
  <2>5. walk' \in Walks /\ walk'.list = walk.list /\ walk'.decision = walk.decision
        /\ walk'.limit = walk.limit /\ walk'.got = all
        /\ walk'.page = walk.page + 1 /\ walk'.done = done
    <3>1. PICK k \in Nat : k = walk.page + 1
      BY <1>1
    <3>2. walk' = [walk EXCEPT !.got = all, !.page = k, !.done = done] /\ walk \in Walks
      BY <1>1, <2>4, <3>1
    <3> QED
      BY <3>1, <3>2 DEF Walks
  <2> QED
    BY <1>1, <2>2, <2>3, <2>5
<1>7. ResultsInOrder'
  <2> SUFFICES ASSUME walk.list = "results", OneChain
               PROVE  ResultsInOrder'
    BY <1>1, <1>6 DEF ResultsInOrder, OneChain
  <2>1. Selected("results", walk.decision)' = selected
        /\ Answers("results", selected)' = Answers("results", selected)
    BY <1>1, <1>6 DEF Selected, Answers, Before
  <2>2. walk.got = FirstOf(answer, walk.page * walk.limit) /\ walk.page * walk.limit <= Len(answer)
    <3>1. CASE walk.page = 0
      <4>1. walk.got = << >> /\ walk.page * walk.limit = 0
        BY <1>1, <3>1 DEF WalkInv, ResultsInOrder
      <4>2. FirstOf(answer, 0) = << >>
        <5>1. PICK end \in Int : end = (IF 0 < Len(answer) THEN 0 ELSE Len(answer)) /\ end < 1
          BY <1>4, LenProperties
        <5> QED
          BY <5>1, SubSeqEmpty DEF FirstOf
      <4> QED
        BY <1>4, <4>1, <4>2, LenProperties
    <3>2. CASE walk.page # 0
      <4>1. PICK other \in Answers("results", selected) :
              /\ walk.got = FirstOf(other, walk.page * walk.limit)
              /\ walk.page * walk.limit <= Len(other)
        BY <1>1, <3>2 DEF WalkInv, ResultsInOrder
      <4>2. other = answer
        BY <1>1, <1>2, <1>3, <4>1, OneAnswer
      <4> QED
        BY <4>1, <4>2
    <3> QED
      BY <3>1, <3>2
  <2>3. /\ walk.got \o read = FirstOf(answer, (walk.page + 1) * walk.limit)
        /\ IF Len(read) < walk.limit
             THEN FirstOf(answer, (walk.page + 1) * walk.limit) = answer
             ELSE (walk.page + 1) * walk.limit <= Len(answer)
    <3>1. /\ FirstOf(answer, walk.page * walk.limit) \o Page(answer, walk.page, walk.limit)
                = FirstOf(answer, (walk.page + 1) * walk.limit)
          /\ IF Len(Page(answer, walk.page, walk.limit)) < walk.limit
               THEN FirstOf(answer, (walk.page + 1) * walk.limit) = answer
               ELSE (walk.page + 1) * walk.limit <= Len(answer)
      BY <1>1, <1>4, <2>2, NextPage
    <3> QED
      BY <2>2, <3>1
  <2> HIDE DEF selected, read
  <2>4. /\ walk'.got = FirstOf(answer, walk'.page * walk'.limit)
        /\ ~walk'.done => walk'.page * walk'.limit <= Len(answer)
        /\ walk'.done => walk'.got = answer
    BY <1>6, <2>3
  <2>5. answer \in Answers("results", Selected("results", walk.decision))'
    BY <1>2, <2>1
  <2> QED
    BY <1>6, <2>4, <2>5 DEF ResultsInOrder, FirstOf
<1>8. AuditOnOnePage'
  <2> SUFFICES ASSUME walk.list = "audit", Cardinality(rows) <= walk.limit
               PROVE  walk'.got \in Answers("audit", rows)
    <3>1. Answers("audit", rows)' = Answers("audit", rows)
      BY <1>1 DEF Answers, Before
    <3> QED
      BY <1>1, <1>6, <3>1 DEF AuditOnOnePage
  <2>1. selected = rows /\ answer \in Answers("audit", rows) /\ Len(answer) <= walk.limit
    BY <1>2, <1>3, <1>4
  <2> HIDE DEF selected
  <2>2. PICK len \in Nat : len = Len(answer)
    BY <1>4, LenProperties
  <2>3. CASE walk.page = 0
    <3>1. walk.got = << >>
      BY <2>1, <2>3 DEF WalkInv, AuditOnOnePage
    <3>2. 0 * walk.limit + 1 = 1 /\ (0 + 1) * walk.limit = walk.limit
      BY <1>1
    <3>3. (IF walk.limit < len THEN walk.limit ELSE len) = len
      BY <1>1, <2>1, <2>2
    <3>4. read = SubSeq(answer, 1, Len(answer))
      BY <2>2, <2>3, <3>2, <3>3 DEF Page
    <3>5. read = answer
      BY <1>4, <3>4, SubSeqFull
    <3>6. << >> \o answer = answer
      BY <1>4, ConcatEmptySeq
    <3> QED
      BY <1>6, <2>1, <3>1, <3>5, <3>6
  <2>4. CASE walk.page # 0
    <3>1. walk.got \in Answers("audit", rows)
      BY <2>1, <2>4 DEF WalkInv, AuditOnOnePage
    <3>2. walk.page * walk.limit >= walk.limit
      <4>1. PICK p \in Nat, l \in Nat : p + 1 = walk.page /\ l = walk.limit
        <5>1. walk.page - 1 \in Nat /\ (walk.page - 1) + 1 = walk.page
          BY <1>1, <2>4
        <5> QED
          BY <1>1, <5>1
      <4>2. (p + 1) * l = p * l + l /\ p * l \in Nat
        OBVIOUS
      <4> QED
        BY <4>1, <4>2
    <3>3. PICK from \in Nat, to \in Nat :
            from = walk.page * walk.limit /\ to = (walk.page + 1) * walk.limit
      BY <1>1
    <3>4. PICK end \in Nat : end = (IF to < len THEN to ELSE len) /\ end < from + 1
      <4>1. PICK limit \in Nat : limit = walk.limit
        BY <1>1
      <4>2. len <= limit /\ limit <= from
        BY <2>1, <2>2, <3>2, <3>3, <4>1
      <4> QED
        BY <4>2
    <3>5. read = SubSeq(answer, from + 1, end)
      BY <2>2, <3>3, <3>4 DEF Page
    <3>6. read = << >>
      BY <3>4, <3>5, SubSeqEmpty
    <3>7. walk.got \o << >> = walk.got
      BY <1>1, ConcatEmptySeq
    <3> QED
      BY <1>6, <3>1, <3>6, <3>7
  <2> QED
    BY <2>3, <2>4
<1> QED
  BY <1>1, <1>6, <1>7, <1>8 DEF WalkInv, Walks

\* A client that reads page by page, in queries that know nothing of each
\* other, reads the first rows of one and the same answer (routes/analyses.ts).
THEOREM WalkInvariance == ResultPagesSpec => []WalkInv
<1>1. ResultPagesInit => WalkInv
  <2>1. NoWalk \in Walks
    BY EmptySeq DEF NoWalk, Walks
  <2>2. NoWalk.list = "none" /\ ~NoWalk.done
    BY DEF NoWalk
  <2> QED
    BY <2>1, <2>2 DEF ResultPagesInit, WalkInv, ResultsInOrder, AuditOnOnePage
<1>2. WalkInv /\ [ResultPagesNext]_resultVars => WalkInv'
  <2> SUFFICES ASSUME WalkInv, [ResultPagesNext]_resultVars PROVE WalkInv'
    OBVIOUS
  <2>1. CASE UNCHANGED resultVars
    BY <2>1 DEF resultVars, WalkInv, Walks, ResultsInOrder, AuditOnOnePage, OneChain,
       Answers, Before, Selected, FirstOf
  <2> QED
    BY <2>1, StartSteps, ReadSteps DEF ResultPagesNext
<1> QED
  BY <1>1, <1>2, PTL DEF ResultPagesSpec

\* When it is done it has every row that the filter selects once and no other,
\* for an analysis of one chain, whose order leaves no ties; and the audit log
\* when it fits on one page.
THEOREM PagesMakeTheList == ResultPagesSpec => []PagesPartition
<1>1. WalkInv => PagesPartition
  <2> SUFFICES ASSUME WalkInv, walk.done, walk.list = "results" => OneChain,
                      walk.list = "audit" => Cardinality(rows) <= walk.limit
               PROVE  /\ Range(walk.got) = Selected(walk.list, walk.decision)
                      /\ Len(walk.got) = Cardinality(Range(walk.got))
    BY DEF PagesPartition
  <2>1. walk \in Walks /\ rows \in Tables /\ IsFiniteSet(rows)
    BY ResultPagesAssumption DEF WalkInv
  <2>2. Selected(walk.list, walk.decision) \in SUBSET rows
    BY DEF Selected
  <2>3. IsFiniteSet(Selected(walk.list, walk.decision))
    BY <2>1, <2>2, FS_Subset
  <2>4. walk.got \in Answers(walk.list, Selected(walk.list, walk.decision))
    <3>1. CASE walk.list = "results"
      BY <3>1 DEF WalkInv, ResultsInOrder
    <3>2. CASE walk.list = "audit"
      BY <3>2 DEF WalkInv, AuditOnOnePage, Selected
    <3>3. CASE walk.list = "export"
      BY <3>3 DEF WalkInv, Selected
    <3> QED
      BY <2>1, <3>1, <3>2, <3>3 DEF WalkInv, Walks
  <2> QED
    BY <2>3, <2>4, Arranged DEF Answers
<1> QED
  BY <1>1, WalkInvariance, PTL
=============================================================================
