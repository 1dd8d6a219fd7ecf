--------------------------- MODULE DashboardLists ---------------------------
(* The pages of the dashboard that show a list of the customer's rows and  *)
(* change it: watchlist, team, webhooks, notifications, analyses and the   *)
(* overview (dashboard/*/page.tsx), with the watch list that two of them,  *)
(* and programs, add to (routes/watchlist.ts).  A page asks for its list   *)
(* again after every change; nothing orders the answers, and each handler  *)
(* goes on with the filter of the moment at which it was clicked.          *)
EXTENDS Naturals, FiniteSets

CONSTANTS
  Spellings,     \* how addresses are written, on their chains
  LowerCase,     \* the address of each spelling
  MaxLoads,      \* bound of the model: loads of one page
  MaxChanges     \* bound of the model: changes to the lists

ASSUME DashboardListsAssumption ==
  /\ LowerCase \in [Spellings -> Spellings]
  /\ \A s \in Spellings : LowerCase[LowerCase[s]] = LowerCase[s]
  /\ MaxLoads \in Nat /\ MaxChanges \in Nat

VARIABLES
  watched,     \* rows of the watchlist table
  changes,     \* how often the rows of the lists have changed
  open,        \* the page that is open, and its filter
  testing,     \* the flag of the webhooks page
  acts,        \* the changes that the page has asked for
  loads,       \* its loads in progress, numbered as they were sent
  sentLoads,   \* how many it has sent
  showing,     \* the load whose answer is shown
  own,         \* history: the last change that the page knows is made
  switched     \* history: the filter was changed while a change was awaited

listVars == <<watched, changes, open, testing, acts, loads, sentLoads, showing,
              own, switched>>
listTables == <<watched, changes>>
loadVars == <<loads, sentLoads>>

\* The buttons and forms of each page, and what their handler makes of an
\* error: it "stops" on it, or never looks at the status and "goes on".
WatchlistActs     == [add |-> "stops", remove |-> "goes on"]
TeamActs          == [invite |-> "stops", remove |-> "goes on"]
WebhooksActs      == [test |-> "goes on", retry |-> "goes on"]
NotificationsActs == [markRead |-> "goes on", markAll |-> "goes on"]
ScoringActs       == [watch |-> "stops"]

Acts == [watchlist |-> WatchlistActs, team |-> TeamActs, webhooks |-> WebhooksActs,
         notifications |-> NotificationsActs, scoring |-> ScoringActs,
         analyses |-> << >>, overview |-> << >>]

NoPage == [page |-> "none", filter |-> "all"]
Load(n, filter, for) == [n |-> n, filter |-> filter, for |-> for, at |-> "sent", seen |-> 0]
NoLoad == Load(0, "all", "page")

DashboardListsInit ==
  /\ watched = {} /\ changes = 0 /\ testing = FALSE /\ acts = {}
  /\ loads = {} /\ sentLoads = 0 /\ showing = NoLoad
  /\ own = 0 /\ switched = FALSE /\ open = NoPage

----------------------------------------------------------------------------
(* The server.  Of a change to another list than the watch list it only    *)
(* matters that it was made.                                               *)

StoredAsSpelt(spelling) == spelling
Stored(spelling) == LowerCase[spelling]

\* POST /v1/watchlist: 409 from the index over customer, address and chain.
AddToWatchlist(spelling) ==
  /\ \A row \in watched : row.address # Stored(spelling)
  /\ watched' = watched \cup {[id |-> changes', address |-> Stored(spelling)]}

\* DELETE /v1/watchlist/:id: 404 when it is gone.
RemoveFromWatchlist == \E row \in watched : watched' = watched \ {row}

Changed(kind) ==
  /\ changes < MaxChanges /\ changes' = changes + 1
  /\ CASE kind \in {"add", "watch"} -> \E spelling \in Spellings : AddToWatchlist(spelling)
       [] kind = "remove" /\ open.page = "watchlist" -> RemoveFromWatchlist
       [] OTHER -> UNCHANGED watched

\* A worker, another member or a program; to the list that is open.
OthersChange ==
  /\ Changed(IF open.page \in {"watchlist", "scoring"} THEN "add" ELSE "other")
  /\ UNCHANGED <<open, testing, acts, loadVars, showing, own, switched>>

----------------------------------------------------------------------------
(* The page.                                                               *)

Sends(filter, for) ==
  /\ loads' = loads \cup {Load(sentLoads + 1, filter, for)}
  /\ sentLoads' = sentLoads + 1

OpenList ==
  /\ open = NoPage
  /\ \E p \in DOMAIN Acts :
       /\ open' = [open EXCEPT !.page = p]
       /\ IF p = "scoring" THEN UNCHANGED loadVars ELSE Sends("all", "page")
  /\ UNCHANGED <<listTables, testing, acts, showing, own, switched>>

\* What the page offers; the buttons of the rows, when it shows any.
RowsShown == showing.at = "listed"
WatchlistOffers     == {"add"} \cup {k \in {"remove"} : RowsShown}
TeamOffers          == {"invite"} \cup {k \in {"remove"} : RowsShown}
WebhooksOffers      == {k \in {"test"} : ~testing} \cup {k \in {"retry"} : RowsShown}
NotificationsOffers == {"markAll"} \cup {k \in {"markRead"} : RowsShown}
ScoringOffers       == {"watch"}

Offers == CASE open.page = "watchlist" -> WatchlistOffers
            [] open.page = "team" -> TeamOffers
            [] open.page = "webhooks" -> WebhooksOffers
            [] open.page = "notifications" -> NotificationsOffers
            [] open.page = "scoring" -> ScoringOffers
            [] OTHER -> {}

\* Only the button of the test delivery waits for the reply, and the one that
\* removes a member, each row for its own.
Click ==
  /\ Cardinality(acts) + sentLoads < MaxLoads
  /\ \E kind \in Offers :
       /\ testing' = (testing \/ kind = "test")
       /\ acts' = acts \cup {[n |-> CHOOSE n \in 1..MaxLoads : \A act \in acts : act.n # n,
                               kind |-> kind, filter |-> open.filter, made |-> 0]}
  /\ UNCHANGED <<listTables, open, loadVars, showing, own, switched>>

ServerActs ==
  /\ \E act \in acts :
       /\ act.made = 0 /\ Changed(act.kind)
       /\ acts' = (acts \ {act}) \cup {[act EXCEPT !.made = changes']}
  /\ UNCHANGED <<open, testing, loadVars, showing, own, switched>>

\* The request or the reply is lost: fetch() throws, and nothing catches it;
\* finally takes the flag of the test back.
ActLost ==
  /\ \E act \in acts :
       acts' = acts \ {act} /\ testing' = (testing /\ act.kind # "test")
  /\ UNCHANGED <<listTables, open, loadVars, showing, own, switched>>

\* 400, 401, 404, 409 or 429
ActRefused ==
  /\ \E act \in acts :
       /\ act.made = 0 /\ acts' = acts \ {act}
       /\ IF Acts[open.page][act.kind] = "stops" THEN UNCHANGED loadVars ELSE Sends(act.filter, act.kind)
  /\ UNCHANGED <<listTables, open, testing, showing, own, switched>>

\* load(), with the filter that was chosen at the click.
ActDone ==
  /\ \E act \in acts :
       /\ act.made # 0 /\ acts' = acts \ {act}
       /\ own' = IF act.made > own THEN act.made ELSE own
       /\ IF act.kind = "watch" THEN UNCHANGED loadVars ELSE Sends(act.filter, act.kind)
  /\ UNCHANGED <<listTables, open, testing, showing, switched>>

Chooses(filter) ==
  /\ open.page = "notifications" /\ filter # open.filter /\ sentLoads < MaxLoads
  /\ open' = [open EXCEPT !.filter = filter]
  /\ switched' = (switched \/ acts # {})
  /\ UNCHANGED <<listTables, testing, acts, showing, own>>

SwitchWithoutLoad ==
  \E filter \in {"all", "unread"} : Chooses(filter) /\ UNCHANGED loadVars

\* setFilter(): the effect loads anew.
SwitchFilter ==
  \E filter \in {"all", "unread"} : Chooses(filter) /\ Sends(filter, "page")

ServerLists ==
  /\ \E load \in loads :
       /\ load.at = "sent"
       /\ loads' = (loads \ {load}) \cup {[load EXCEPT !.at = "listed", !.seen = changes]}
  /\ UNCHANGED <<listTables, open, testing, acts, sentLoads, showing, own, switched>>

\* sendTest() awaits its load.
Loaded(load) ==
  /\ loads' = loads \ {load}
  /\ testing' = (testing /\ load.for # "test")

\* setItems(j.data)
ShowList ==
  /\ \E load \in loads : load.at = "listed" /\ Loaded(load) /\ showing' = load
  /\ UNCHANGED <<listTables, open, acts, sentLoads, own, switched>>

\* A refusal has no data and shows an empty list, or none on the overview,
\* whose other request it fails.
LoadRefused ==
  /\ \E load \in loads :
       /\ load.at = "sent" /\ Loaded(load)
       /\ showing' = IF open.page = "overview" THEN showing ELSE load
  /\ UNCHANGED <<listTables, open, acts, sentLoads, own, switched>>

LoadLost ==
  /\ \E load \in loads : Loaded(load)
  /\ UNCHANGED <<listTables, open, acts, sentLoads, showing, own, switched>>

DashboardListsNext ==
  \/ OthersChange \/ OpenList \/ Click \/ SwitchFilter
  \/ ServerActs \/ ActLost \/ ActRefused \/ ActDone
  \/ ServerLists \/ ShowList \/ LoadRefused \/ LoadLost

DashboardListsSpec == DashboardListsInit /\ [][DashboardListsNext]_listVars
----------------------------------------------------------------------------
(* Properties.                                                             *)

Settled == showing.at = "listed" /\ showing.n = sentLoads

\* When what a page shows is the answer to the load it sent last, the list has
\* every change that the page was told is made, also while others are under
\* way, and is the list of the filter that is chosen, unless that was changed
\* while a change was awaited (notifications/page.tsx:43-55 loads with the
\* filter of the click); and no address is watched twice, however it is spelt
\* and whoever adds it at the same time (watchlist.ts:41).
ListsOwnChanges ==
  /\ Settled => /\ showing.seen >= own
                /\ ~switched => showing.filter = open.filter
  /\ \A r, q \in watched : LowerCase[r.address] = LowerCase[q.address] => r = q
=============================================================================
