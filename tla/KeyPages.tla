------------------------------ MODULE KeyPages ------------------------------
(* The customer's API key in a browser: the sign-up on the overview page   *)
(* (dashboard/page.tsx), the page of keys (dashboard/api-keys/page.tsx)    *)
(* with its confirmed rotation (components/InlineConfirm.tsx), and the     *)
(* copy in localStorage that every page sends.  A request goes on when its *)
(* page is left; a reply that is lost takes the key with it.               *)
EXTENDS Naturals, FiniteSets

CONSTANTS
  MaxKeys,     \* bound of the model: keys generated
  MaxAsked     \* bound of the model: requests of one browser at a time

ASSUME KeyPagesAssumption == MaxKeys \in Nat /\ MaxAsked \in Nat

VARIABLES
  current,     \* the key of the customer on the server, 0 before the sign-up
  keysMade,    \* keys generated so far; they are numbered
  saved,       \* localStorage "sybilshield_api_key", 0 for none
  tab,         \* the page in the tab and its state
  asked,       \* the requests in progress
  lostKeys,    \* history: keys whose reply never arrived
  strayed      \* history: the user put in a key, or left a page that waited

keyPageVars == <<current, keysMade, saved, tab, asked, lostKeys, strayed>>
keyServer == <<current, keysMade>>

NoKey == 0
NotAKey == MaxKeys + 1
KeysSeen == {NotAKey} \cup 1..keysMade      \* what a user may put in

Tab(page, key) ==
  [page |-> page, key |-> key, new |-> NoKey, account |-> FALSE,
   armed |-> FALSE, busy |-> FALSE]

\* The browser of someone new, or of a customer.
KeyPagesInit ==
  /\ current \in {0, 1} /\ keysMade = current /\ saved = current
  /\ tab = Tab("none", NoKey) /\ asked = {} /\ lostKeys = {} /\ strayed = FALSE

\* The effects read localStorage; without a key the overview is the sign-up.
OpenTab ==
  /\ tab.page = "none"
  /\ tab' \in {Tab(IF saved = NoKey THEN "sign-up" ELSE "overview", saved), Tab("keys", saved)}
  /\ UNCHANGED <<keyServer, saved, asked, lostKeys, strayed>>

\* The router goes to another page: the state is gone, the requests are not.
LeaveTab ==
  /\ tab.page # "none" /\ tab' = Tab("none", NoKey)
  /\ asked' = {[r EXCEPT !.here = FALSE] : r \in asked}
  /\ strayed' = (strayed \/ asked # {})
  /\ UNCHANGED <<keyServer, saved, lostKeys>>

Asks(kind, key) ==
  /\ Cardinality(asked) < MaxAsked
  /\ asked' = asked \cup {[n |-> CHOOSE n \in 1..MaxAsked : \A r \in asked : r.n # n,
                           kind |-> kind, key |-> key, at |-> "sent", new |-> NoKey,
                           here |-> TRUE]}

----------------------------------------------------------------------------
(* Onboard.                                                                *)

Register ==
  /\ tab.page = "sign-up" /\ tab.new = NoKey /\ ~tab.busy
  /\ tab' = [tab EXCEPT !.busy = TRUE]
  /\ Asks("register", NoKey)
  /\ UNCHANGED <<keyServer, saved, lostKeys, strayed>>

\* "I saved it - continue"
ContinueWithKey ==
  /\ tab.page = "sign-up" /\ tab.new # NoKey
  /\ tab' = Tab("overview", tab.new)
  /\ UNCHANGED <<keyServer, saved, asked, lostKeys, strayed>>

\* savePastedKey(): anything that begins like a key.
PasteKey ==
  /\ tab.page = "sign-up" /\ tab.new = NoKey
  /\ \E key \in KeysSeen : saved' = key /\ tab' = Tab("overview", key)
  /\ strayed' = TRUE
  /\ UNCHANGED <<keyServer, asked, lostKeys>>

----------------------------------------------------------------------------
(* ApiKeysPage and the InlineConfirm of its rotation.                      *)

\* The input writes every keystroke to localStorage.
TypeKey ==
  /\ tab.page = "keys"
  /\ \E key \in {NoKey} \cup KeysSeen : saved' = key /\ tab' = [tab EXCEPT !.key = key]
  /\ strayed' = TRUE
  /\ UNCHANGED <<keyServer, asked, lostKeys>>

\* What follows is offered when an account has been loaded.
LoadAccount ==
  /\ tab.page = "keys" /\ tab.key # NoKey /\ tab.key = current
  /\ tab' = [tab EXCEPT !.account = TRUE]
  /\ UNCHANGED <<keyServer, saved, asked, lostKeys, strayed>>

Arm ==
  /\ tab.account /\ ~tab.armed
  /\ tab' = [tab EXCEPT !.armed = TRUE]
  /\ UNCHANGED <<keyServer, saved, asked, lostKeys, strayed>>

CancelConfirm ==
  /\ tab.armed /\ tab' = [tab EXCEPT !.armed = FALSE]
  /\ UNCHANGED <<keyServer, saved, asked, lostKeys, strayed>>

ConfirmWhileBusy ==
  /\ tab.armed
  /\ tab' = [tab EXCEPT !.busy = TRUE]
  /\ Asks("rotate", tab.key)
  /\ UNCHANGED <<keyServer, saved, lostKeys, strayed>>

\* The button is disabled while busy, armed anew or not.
Confirm ==
  /\ tab.armed /\ ~tab.busy
  /\ tab' = [tab EXCEPT !.busy = TRUE]
  /\ Asks("rotate", tab.key)
  /\ UNCHANGED <<keyServer, saved, lostKeys, strayed>>

----------------------------------------------------------------------------
(* The server, as routes/auth.ts has it, and the replies.                  *)

Becomes(r, at, new) == asked' = (asked \ {r}) \cup {[r EXCEPT !.at = at, !.new = new]}

\* requireApiKey() or, for the sign-up, the free e-mail address: r.key is 0.
Admit ==
  /\ \E r \in asked :
       /\ r.at = "sent" /\ r.key = current /\ (r.kind = "register" <=> current = 0)
       /\ Becomes(r, "admitted", NoKey)
  /\ UNCHANGED <<keyServer, saved, tab, lostKeys, strayed>>

\* 401, 409 or 429, or an error before anything is written.
RefuseKey ==
  /\ \E r \in asked : r.at \in {"sent", "admitted"} /\ Becomes(r, "refused", NoKey)
  /\ UNCHANGED <<keyServer, saved, tab, lostKeys, strayed>>

\* Of two sign-ups that both found the address free one fails.
StoreKey ==
  /\ keysMade < MaxKeys
  /\ \E r \in asked :
       /\ r.at = "admitted" /\ keysMade' = keysMade + 1
       /\ IF r.kind = "register" /\ current # 0
            THEN Becomes(r, "refused", NoKey) /\ UNCHANGED current
            ELSE Becomes(r, "stored", keysMade') /\ current' = keysMade'
  /\ UNCHANGED <<saved, tab, lostKeys, strayed>>

\* finally, in the component that asked.
Done(r) ==
  IF ~r.here THEN tab
  ELSE [tab EXCEPT !.busy = FALSE, !.armed = @ /\ r.kind # "rotate"]

\* localStorage is written though the page be gone.
KeyArrives ==
  /\ \E r \in asked :
       /\ r.at = "stored" /\ asked' = asked \ {r}
       /\ saved' = r.new
       /\ tab' = IF r.here THEN [Done(r) EXCEPT !.new = r.new, !.key = r.new] ELSE tab
  /\ UNCHANGED <<keyServer, lostKeys, strayed>>

\* An error is shown, or nothing when there is no reply.
NoKeyArrives ==
  /\ \E r \in asked :
       /\ asked' = asked \ {r} /\ tab' = Done(r)
       /\ lostKeys' = lostKeys \cup ({r.new} \ {NoKey})
  /\ UNCHANGED <<keyServer, saved, strayed>>

KeyPagesNext ==
  \/ OpenTab \/ LeaveTab \/ Register \/ ContinueWithKey \/ PasteKey
  \/ TypeKey \/ LoadAccount \/ Arm \/ CancelConfirm \/ Confirm
  \/ Admit \/ RefuseKey \/ StoreKey \/ KeyArrives \/ NoKeyArrives

KeyPagesSpec == KeyPagesInit /\ [][KeyPagesNext]_keyPageVars
----------------------------------------------------------------------------
(* Properties.                                                             *)

\* A user who puts in no key and stays until a request has its answer is not
\* locked out: the key in localStorage is the one the server knows, unless the
\* reply with that key is under way or was lost.  Cancelling a rotation that
\* has begun, and arming it anew, does not let a second one overtake the
\* first (InlineConfirm.tsx:52, 68).
BrowserKeepsKey ==
  ~strayed => \/ saved = current
              \/ current \in lostKeys \cup {r.new : r \in asked}
=============================================================================
