---------------------------- MODULE ScoreLookup ----------------------------
(* Who reads the stored scores of an address: the public look-up and the   *)
(* batch (routes/scoring.ts), the two pages that ask for one address       *)
(* (lookup/page.tsx, dashboard/scoring/page.tsx) and the gate of a         *)
(* Snapshot space (snapshot-strategy-sybilshield).  A score is dated by    *)
(* the beginning of the transaction that stores it, transactions commit in *)
(* any order, and no score is ever deleted.                                *)
EXTENDS Naturals, Sequences

CONSTANTS
  Subjects,    \* an address on a chain,
  OnEthereum,  \*   those of the gate
  Contents,    \* [score, decision] of a row, "none" for no decision
  Spaces,      \* parameters of Snapshot spaces
  MaxStores,   \* bound of the model: transactions that store a score
  MaxReads     \* bound of the model: look-ups

ASSUME ScoreLookupAssumption ==
  /\ OnEthereum \subseteq Subjects /\ Subjects \cap {"none", "not an address"} = {}
  /\ Contents \subseteq [score : 0..100, decision : {"none", "DROP", "REVIEW", "KEEP"}]
  /\ MaxStores \in Nat /\ MaxReads \in Nat

VARIABLES
  dated,       \* transactions begun so far; their number is their date
  storing,     \* the dates of transactions in progress
  stored,      \* address_scores
  screen,      \* the page that is open: what it waits for and shows
  votes,       \* the gate: what it waits for and what it said
  batch,       \* the addresses that the batch in progress has still to read
  answers      \* history: what the queries returned, in their order

lookupVars == <<dated, storing, stored, screen, votes, batch, answers>>
scoreTables == <<dated, storing, stored>>

Pages == {"lookup", "dashboard"}
NotAnAddress == "not an address"

\* Rows and replies alike; a reply may also be none, or "not scored".
Row404 == [subject |-> "none", date |-> 0, score |-> 0, decision |-> "not scored"]
RowOf(x, n, c) == [subject |-> x, date |-> n, score |-> c.score, decision |-> c.decision]

OpenedPage(p) == [page |-> p, asks |-> "none", shows |-> "nothing", row |-> Row404]
DefaultSpace == [scoreThreshold |-> 70, blockReview |-> FALSE, unscoredIsValid |-> TRUE]
NoVote == [asks |-> "none", in |-> DefaultSpace, says |-> "nothing", row |-> Row404]

ScoreLookupInit ==
  /\ dated = 0 /\ storing = {} /\ stored = {} /\ answers = << >>
  /\ screen = OpenedPage("lookup")
  /\ votes = NoVote /\ batch = << >>

----------------------------------------------------------------------------
(* The workers.                                                            *)

BeginStore ==
  /\ dated < MaxStores
  /\ dated' = dated + 1
  /\ storing' = storing \cup {dated'}
  /\ UNCHANGED <<stored, screen, votes, batch, answers>>

\* Rolled back, or committed; of its rows the one of one subject is looked at.
EndStore ==
  /\ \E n \in storing :
       /\ storing' = storing \ {n}
       /\ \/ UNCHANGED stored
          \/ \E x \in Subjects, c \in Contents : stored' = stored \cup {RowOf(x, n, c)}
  /\ UNCHANGED <<dated, screen, votes, batch, answers>>

----------------------------------------------------------------------------
(* The query: ORDER BY created_at DESC LIMIT 1.                            *)

LastCommitted(x) ==
  {row \in stored : row.subject = x /\ \A q \in stored : q.subject = x => q.date >= row.date}

Newest(x) ==
  {row \in stored : row.subject = x /\ \A q \in stored : q.subject = x => q.date <= row.date}

LookUp(x) == IF Newest(x) = {} THEN {Row404} ELSE Newest(x)

Read(x, row) ==
  /\ Len(answers) < MaxReads
  /\ answers' = Append(answers, [subject |-> x, row |-> row])

----------------------------------------------------------------------------
(* The pages.                                                              *)

OpenLookup ==
  /\ \E p \in Pages : screen' = OpenedPage(p)
  /\ UNCHANGED <<scoreTables, votes, batch, answers>>

\* lookup() and score(): the button is disabled while an answer is awaited.
\* The input of the public page has a pattern; the API refuses what the
\* dashboard's lets through.
SubmitLookup ==
  /\ screen.asks = "none"
  /\ \E x \in Subjects \cup {NotAnAddress} :
       /\ screen.page = "lookup" => x # NotAnAddress
       /\ screen' = [OpenedPage(screen.page) EXCEPT !.asks = x]
  /\ UNCHANGED <<scoreTables, votes, batch, answers>>

\* Of 404 the one page makes "genuinely unknown", the other an error.
Shows(row) ==
  CASE row # Row404           -> "row"
    [] screen.page = "lookup" -> "not scored"
    [] OTHER                  -> "error"

ScoreArrives ==
  /\ screen.asks \in Subjects
  /\ \E row \in LookUp(screen.asks) :
       /\ Read(screen.asks, row)
       /\ screen' = [screen EXCEPT !.asks = "none", !.row = row, !.shows = Shows(row)]
  /\ UNCHANGED <<scoreTables, votes, batch>>

LookupFails ==
  /\ screen.asks # "none"
  /\ screen' = [OpenedPage(screen.page) EXCEPT !.shows = "error"]
  /\ UNCHANGED <<scoreTables, votes, batch, answers>>

\* effectiveDecision, of the badge of the public page
EffectiveDecision(row) ==
  IF row.decision # "none" THEN row.decision
  ELSE IF row.score >= 70 THEN "DROP" ELSE "KEEP"

----------------------------------------------------------------------------
(* The gate.                                                               *)

\* validate(): what is no address is turned away unasked.
Validate ==
  /\ votes.asks = "none"
  /\ \E x \in OnEthereum \cup {NotAnAddress} :
       votes' = IF x = NotAnAddress THEN [NoVote EXCEPT !.says = "no"]
                ELSE [NoVote EXCEPT !.asks = x]
  /\ UNCHANGED <<scoreTables, screen, batch, answers>>

PassesWithThreshold(row, space) ==
  \/ row.decision = "KEEP"
  \/ row.decision = "not scored" /\ space.unscoredIsValid
  \/ row.decision = "REVIEW" /\ ~space.blockReview
  \/ row.decision = "none" /\ row.score <= space.scoreThreshold

\* doValidate()
Passes(row, space) ==
  \/ row.decision = "KEEP"
  \/ row.decision = "not scored" /\ space.unscoredIsValid
  \/ row.decision = "REVIEW" /\ ~space.blockReview
  \/ row.decision = "none" /\ row.score < space.scoreThreshold

\* An error is thrown, never taken for an answer.
DoValidate ==
  /\ votes.asks # "none"
  /\ \/ /\ votes' = [NoVote EXCEPT !.says = "throws"]
        /\ UNCHANGED answers
     \/ \E row \in LookUp(votes.asks), space \in Spaces :
          /\ Read(votes.asks, row)
          /\ votes' = [asks |-> "none", row |-> row, in |-> space,
                        says |-> IF Passes(row, space) THEN "yes" ELSE "no"]
  /\ UNCHANGED <<scoreTables, screen, batch>>

----------------------------------------------------------------------------
(* POST /v1/score/batch: a query for each address, one after the other.    *)

BatchBegins ==
  /\ batch = << >>
  /\ \E x, y \in Subjects : batch' = <<x, y>>
  /\ UNCHANGED <<scoreTables, screen, votes, answers>>

BatchReads ==
  /\ batch # << >> /\ batch' = Tail(batch)
  /\ \E row \in LookUp(Head(batch)) : Read(Head(batch), row)
  /\ UNCHANGED <<scoreTables, screen, votes>>

BatchFails ==
  /\ batch # << >> /\ batch' = << >>
  /\ UNCHANGED <<scoreTables, screen, votes, answers>>

ScoreLookupNext ==
  \/ BeginStore \/ EndStore \/ Validate \/ DoValidate
  \/ OpenLookup \/ SubmitLookup \/ ScoreArrives \/ LookupFails
  \/ BatchBegins \/ BatchReads \/ BatchFails

ScoreLookupSpec == ScoreLookupInit /\ [][ScoreLookupNext]_lookupVars

----------------------------------------------------------------------------
(* Properties.                                                             *)

\* Whoever asks, in whatever order transactions commit, no look-up goes back
\* to an older score of an address than one before it returned
\* (scoring.ts:31); and on the same score the badge of the public page and the
\* gate of a space with the default parameters agree, with a decision on
\* record or without: the gate turns away whom the page calls DROP, and
\* nobody else (lookup/page.tsx:99, strategy/index.ts:82-88).
LookupsAgree ==
  /\ \A i, j \in DOMAIN answers :
       i < j /\ answers[i].subject = answers[j].subject
         => answers[i].row.date <= answers[j].row.date
  /\ LET badge == EffectiveDecision(screen.row) IN
       /\ screen.page = "lookup" /\ screen.shows = "row" /\ votes.in = DefaultSpace
       /\ votes.row.subject = screen.row.subject
       /\ votes.row.date = screen.row.date
       => (votes.says = "no" <=> badge = "DROP")
=============================================================================
