-------------------------------- MODULE MCApi --------------------------------
(* The API's tables and the pages of the web application for TLC: one      *)
(* process, whose requests every handler shares.  Handlers on different    *)
(* tables, and pages, do not disturb each other, so a behaviour stays with *)
(* one family of them.                                                     *)
EXTENDS Accounts, Team, Deliveries, Reviews, AnalysisPage, NewAnalysisPage,
        ResultPages, ScoreLookup, DashboardLists, KeyPages, TLC

CONSTANTS a1, a2

VARIABLES family

\* The operations a behaviour uses: what changes keys and secrets, what changes
\* plans, or what calls, orders and the reset job (which runs only there) do
\* to the quota.
FamilyOps == [keys |-> {"register", "rotate", "setWebhook", "dropWebhook", "account"},
              plans |-> {"stripe", "atlos", "call"}, quota |-> {"stripe", "call"}]

Init ==
  /\ family \in {"keys", "plans", "quota", "team", "deliveries", "reviews", "page", "form",
                "lists", "lookup", "dashboard", "browser"}
  /\ AccountsInit /\ TeamInit /\ DeliveriesInit /\ ReviewsInit
  /\ AnalysisPageInit /\ FormInit /\ ResultPagesInit
  /\ ScoreLookupInit /\ DashboardListsInit /\ KeyPagesInit
  /\ family # "lists" => rows = CHOOSE r \in Tables : TRUE
  /\ family # "browser" => current = 0
  /\ family \notin DOMAIN FamilyOps => \A c \in Customers : ~Registered(c)

deliveriesOnly == <<log, hasSecret, sends, outcomes, retried>>
reviewsOnly == <<scores, reviewTables, tickets, forms>>

tablesOnly == <<accountVars, teamTables, deliveriesOnly, reviewsOnly>>
analysisPages == <<pageVars, formVars, resultVars>>
otherPages == <<lookupVars, listVars, keyPageVars>>

Api ==
  /\ \/ /\ family \in DOMAIN FamilyOps
        /\ AccountsNext
        /\ \A s \in Slots : requests'[s].op \in {"none"} \cup FamilyOps[family]
        /\ family # "quota" => resets' = resets
        /\ UNCHANGED <<teamTables, deliveriesOnly, reviewsOnly>>
     \/ /\ family = "team" /\ TeamNext
        /\ UNCHANGED <<tableVars, deliveriesOnly, reviewsOnly>>
     \/ /\ family = "deliveries" /\ DeliveriesNext
        /\ UNCHANGED <<tableVars, teamTables, reviewsOnly>>
     \/ /\ family = "reviews" /\ ReviewsNext
        /\ UNCHANGED <<tableVars, teamTables, deliveriesOnly>>

Next ==
  /\ UNCHANGED family
  /\ \/ Api /\ UNCHANGED <<analysisPages, otherPages>>
     \/ /\ family = "page" /\ AnalysisPageNext
        /\ UNCHANGED <<tablesOnly, formVars, resultVars, otherPages>>
     \/ /\ family = "form" /\ FormNext
        /\ UNCHANGED <<tablesOnly, pageVars, resultVars, otherPages>>
     \/ /\ family = "lists" /\ ResultPagesNext
        /\ UNCHANGED <<tablesOnly, pageVars, formVars, otherPages>>
     \/ /\ family = "lookup" /\ ScoreLookupNext
        /\ UNCHANGED <<tablesOnly, analysisPages, listVars, keyPageVars>>
     \/ /\ family = "dashboard" /\ DashboardListsNext
        /\ UNCHANGED <<tablesOnly, analysisPages, lookupVars, keyPageVars>>
     \/ /\ family = "browser" /\ KeyPagesNext
        /\ UNCHANGED <<tablesOnly, analysisPages, lookupVars, listVars>>

allVars == <<family, tablesOnly, analysisPages, otherPages>>
Spec == Init /\ [][Next]_allVars

\* The slots are alike, and so are the customers.
Alike == Permutations(Slots) \cup Permutations(Customers)

MCOwnerOf == [a \in Analyses |-> IF a = a1 THEN "one" ELSE "another"]

MCRowsOf == [f \in {"", "DROP", "KEEP"} |->
               CASE f = "DROP" -> {"r1"} [] f = "KEEP" -> {"r2", "r3"}
                 [] OTHER -> {"r1", "r2", "r3"}]

\* Two names of one owner, who is listed besides; a cell that is neither.
MCTexts == {<<"x1", "n1", "x1", "y">>, <<"n1", "n2", "n3">>, <<"x1", "x2", "x3", "x4">>, <<"y">>}
MCAddressOf == [n \in {"n1", "n2", "n3"} |-> CASE n = "n1" -> "x1" [] OTHER -> "x5"]

Row(a, c, score, d) == [address |-> a, chain |-> c, score |-> score, decision |-> d]
\* Ties in the score, on one chain and on two.
MCTables == {{Row(1, "e", 90, "DROP"), Row(2, "e", 50, "KEEP"), Row(3, "e", 50, "KEEP"),
              Row(4, "e", 50, "DROP")},
             {Row(1, "e", 50, "KEEP"), Row(1, "b", 50, "KEEP"), Row(2, "e", 50, "DROP")}}

\* One address on two chains; a row of before the decisions, a decided one, and
\* one that the gate may let through.
MCOnEthereum == {"x on ethereum"}
MCSubjects == MCOnEthereum \cup {"x on base"}
MCContents == {[score |-> 70, decision |-> "none"], [score |-> 90, decision |-> "DROP"],
               [score |-> 90, decision |-> "REVIEW"]}
MCSpaces == {DefaultSpace,
             [scoreThreshold |-> 40, blockReview |-> TRUE, unscoredIsValid |-> FALSE]}

MCLowerCase == [s \in {"Aa", "aa"} |-> "aa"]
=============================================================================
