------------------------------ MODULE Accounts ------------------------------
(***************************************************************************)
(* The customers table and the requests that read and change it: the key   *)
(* check with the monthly quota (middleware/auth.ts), registration, key    *)
(* rotation and webhook secrets (routes/auth.ts), plans bought and         *)
(* postbacks (routes/billing.ts, services/atlos.ts), and the job that      *)
(* resets the quota (scripts/reset-monthly-quota.ts).  A request reads its *)
(* customer once, when it begins; the row may change under it.             *)
(***************************************************************************)
EXTENDS Requests, Integers, Sequences

CONSTANTS
  Customers,     \* by e-mail address
  StartCalls,    \* what a customer may have used of the free plan so far
  MaxServed,     \* bound of the model: replies after which no request begins
  MaxIssued,     \* bound of the model: keys and secrets ever generated
  MaxResets,     \* bound of the model: runs of the reset job
  Bought,        \* bound of the model: the plans the customers choose from
  MaxOrders      \* bound of the model: invoices

VARIABLES
  customers,    \* rows of the table; NoRow when not registered
  issued,       \* keys and secrets generated so far
  held,         \* of these, the ones each customer has received,
  lost,         \*   and the ones whose reply never arrived
  orders,       \* invoices, in the order of creation
  paid,         \* the orders that were paid
  refused,      \* the orders of which a postback was answered 401
  served,       \* history: billable replies since the last reset
  uncounted,    \* history: of these, the ones whose increment never happened
  carried,      \* history: calls and waiting counts older than the history
  resets

secretVars == <<issued, held, lost>>
billingVars == <<orders, paid, refused>>
ledgerVars == <<served, uncounted, carried, resets>>
tableVars == <<customers, secretVars, billingVars, ledgerVars>>
accountVars == <<requests, tableVars>>

----------------------------------------------------------------------------
(* Plans.                                                                  *)

Plans == {"free", "developer", "growth", "enterprise"}

\* monthlyCalls of PLAN_LIMITS (middleware/auth.ts): the limit enforced
PLAN_LIMITS == [free |-> 100, developer |-> 50000, growth |-> 250000,
                enterprise |-> 10000000]

PLAN_CALL_LIMITS_OneZeroLess == [PLAN_LIMITS EXCEPT !.growth = 25000]

\* PLAN_CALL_LIMITS (routes/billing.ts): the limit stored and shown
PLAN_CALL_LIMITS == [free |-> 100, developer |-> 50000, growth |-> 250000,
                     enterprise |-> 10000000]

\* PLAN_PRICES (services/atlos.ts): the plans an invoice can be made out for
PLAN_PRICES == Plans \ {"free"}

\* "none" is nobody's address; a customer may be over the limit at first, but
\* not by more than the requests in progress may have made of it.
ASSUME AccountsAssumption ==
  /\ "none" \notin Customers /\ Slots # {}
  /\ StartCalls \subseteq 0..(PLAN_LIMITS.free + Cardinality(Slots) - 1)
  /\ MaxIssued \in Nat /\ MaxOrders \in Nat

NoRow == [key |-> 0, plan |-> "free", apiCallsLimit |-> 0, calls |-> 0,
          webhookSecret |-> 0]
NewRow(key) == [NoRow EXCEPT !.key = key, !.apiCallsLimit = 100]
Registered(c) == customers[c].key # 0

----------------------------------------------------------------------------
(* The key check.                                                          *)

FreeReads == {"account"}                       \* FREE_READ_PATHS
Providers == {"stripe", "atlos"}
Operations == FreeReads \cup Providers
                \cup {"call", "rotate", "setWebhook", "dropWebhook"}

\* seen: the row as the request read it; secret: what the reply hands over.
Locals(c, order) == [seen |-> customers[c].calls, secret |-> 0, order |-> order]

Replies(s, secret) ==
  Continues(s, "reply", [requests[s].locals EXCEPT !.secret = secret])
Refuses(s) == Continues(s, "reply 429", requests[s].locals)

UnderQuotaInclusive(c) == customers[c].calls <= PLAN_LIMITS[customers[c].plan]

UnderQuota(c) == customers[c].calls < PLAN_LIMITS[customers[c].plan]

\* requireApiKey(): 401 to a key that is nobody's, 429 at the limit; these
\* change nothing and are not counted.
Admitted(s, key, op, order) ==
  \E c \in Customers :
    /\ Registered(c) /\ customers[c].key = key
    /\ UnderQuota(c) /\ served[c] < MaxServed
    /\ Begins(s, op, c, Locals(c, order))

RequireApiKey(s, key, op) ==
  /\ op \in Operations
  /\ Admitted(s, key, op, 0)
  /\ UNCHANGED tableVars

----------------------------------------------------------------------------
(* POST /v1/account/register.                                              *)

RegisterSelect(s, c) ==
  /\ ~Registered(c)
  /\ Begins(s, "register", c, Locals(c, 0))
  /\ UNCHANGED tableVars

\* The address is unique: of two registrations that both found it free one
\* fails, and its key is nobody's.
RegisterInsert(s) ==
  LET c == requests[s].who IN
  /\ Reached(s, "register", "begun") /\ issued < MaxIssued
  /\ issued' = issued + 1
  /\ IF Registered(c)
       THEN Ends(s) /\ UNCHANGED customers
       ELSE /\ customers' = [customers EXCEPT ![c] = NewRow(issued')]
            /\ Replies(s, issued')
  /\ UNCHANGED <<held, lost, billingVars, ledgerVars>>

----------------------------------------------------------------------------
(* The handlers behind the key check.  Each may also fail before it wrote. *)

\* A read, a call on other columns and tables, or an error; 429 is also what the rate
\* limiter and the cap on concurrent analyses answer.
HandleCall(s) ==
  /\ requests[s].at = "begun" /\ requests[s].op \in Operations
  /\ \/ requests[s].op \notin Providers /\ Refuses(s)
     \/ Replies(s, 0)
  /\ UNCHANGED tableVars

\* A new key or secret is stored, then sent.
StoreAndSend(s, op, Store(_, _)) ==
  /\ Reached(s, op, "begun") /\ issued < MaxIssued
  /\ issued' = issued + 1
  /\ customers' = [customers EXCEPT ![requests[s].who] = Store(@, issued')]
  /\ Replies(s, issued')
  /\ UNCHANGED <<held, lost, billingVars, ledgerVars>>

RotateStoringAnother(s) ==
  StoreAndSend(s, "rotate", LAMBDA row, new : [row EXCEPT !.key = new + 1])

Rotate(s) ==
  StoreAndSend(s, "rotate", LAMBDA row, new : [row EXCEPT !.key = new])

SetWebhook(s) ==
  StoreAndSend(s, "setWebhook", LAMBDA row, new : [row EXCEPT !.webhookSecret = new])

DropWebhook(s) ==
  /\ Reached(s, "dropWebhook", "begun")
  /\ customers' = [customers EXCEPT ![requests[s].who].webhookSecret = 0]
  /\ Replies(s, 0)
  /\ UNCHANGED <<secretVars, billingVars, ledgerVars>>

----------------------------------------------------------------------------
(* Plans bought.                                                           *)

Invoice(s, provider) ==
  /\ Reached(s, provider, "begun") /\ requests[s].locals.order = 0
  /\ Len(orders) < MaxOrders
  /\ \E plan \in PLAN_PRICES \cap Bought :
       orders' = Append(orders, [customer |-> requests[s].who, plan |-> plan,
                                 by |-> provider])
  /\ Replies(s, 0)
  /\ UNCHANGED <<customers, secretVars, paid, refused, ledgerVars>>

\* POST /v1/billing/checkout-session: Stripe's session carries the plan.
CheckoutSession(s) == Invoice(s, "stripe")

\* POST /v1/billing/checkout: the order id of Atlos carries it.
Checkout(s) == Invoice(s, "atlos")

Pay(n) ==
  /\ n \in DOMAIN orders \ paid
  /\ paid' = paid \cup {n}
  /\ UNCHANGED <<customers, requests, secretVars, orders, refused, ledgerVars>>

\* Both postback routes are registered behind requireApiKey, so a provider,
\* which has no key of ours, is answered 401.  The handler is reached when
\* an operator sends the signed postback on with a customer's key.
Postback(s, n, key) ==
  /\ n \in paid
  /\ \/ /\ key = 0 /\ refused' = refused \cup {n}
        /\ UNCHANGED <<requests, customers, secretVars, orders, paid, ledgerVars>>
     \/ Admitted(s, key, orders[n].by, n) /\ UNCHANGED tableVars

\* The plan of the order, whenever the postback comes and however often.
Upgrade(s, provider) ==
  LET order == orders[requests[s].locals.order] IN
  /\ Reached(s, provider, "begun") /\ requests[s].locals.order # 0
  /\ customers' = [customers EXCEPT ![order.customer].plan = order.plan,
       ![order.customer].apiCallsLimit = PLAN_CALL_LIMITS[order.plan]]
  /\ Replies(s, 0)
  /\ UNCHANGED <<secretVars, billingVars, ledgerVars>>

StripeWebhook(s) == Upgrade(s, "stripe")
AtlosIpn(s) == Upgrade(s, "atlos")

----------------------------------------------------------------------------
(* The reply and the count: onResponse runs when the reply is out.         *)

Counted(r) == r.op \notin FreeReads \cup {"register"}

\* The reply arrives, or is lost on the way.
Reply(s) ==
  LET r == requests[s] IN
  /\ r.at = "reply"
  /\ IF r.locals.secret = 0 THEN UNCHANGED <<held, lost>>
     ELSE \/ /\ held' = [held EXCEPT ![r.who] = @ \cup {r.locals.secret}]
             /\ UNCHANGED lost
          \/ /\ lost' = [lost EXCEPT ![r.who] = @ \cup {r.locals.secret}]
             /\ UNCHANGED held
  /\ IF Counted(r)
       THEN /\ Continues(s, "count", r.locals)
            /\ served' = [served EXCEPT ![r.who] = @ + 1]
       ELSE Ends(s) /\ UNCHANGED served
  /\ UNCHANGED <<customers, issued, billingVars, uncounted, carried, resets>>

ReplyRefusal(s) ==
  requests[s].at = "reply 429" /\ Ends(s) /\ UNCHANGED tableVars

IncrementSnapshot(row, r) == [row EXCEPT !.calls = r.locals.seen + 1]

Increment(row, r) == [row EXCEPT !.calls = @ + 1]

\* countAuthedCall(): the increment is one SQL statement; its error is logged.
CountAuthedCall(s) ==
  LET r == requests[s] IN
  /\ r.at = "count" /\ Ends(s)
  /\ \/ /\ customers' = [customers EXCEPT ![r.who] = Increment(@, r)]
        /\ UNCHANGED uncounted
     \/ /\ uncounted' = [uncounted EXCEPT ![r.who] = @ + 1]
        /\ UNCHANGED customers
  /\ UNCHANGED <<secretVars, billingVars, served, carried, resets>>

----------------------------------------------------------------------------
(* The process dies; the cron job runs.                                    *)

Waiting(c) ==
  Cardinality({s \in Slots : requests[s].at = "count" /\ requests[s].who = c})
UnderWay(c) == {requests[s].locals.secret :
                  s \in {t \in Slots : requests[t].at = "reply" /\ requests[t].who = c}}

RestartApi ==
  /\ AllLost
  /\ uncounted' = [c \in Customers |-> uncounted[c] + Waiting(c)]
  /\ lost' = [c \in Customers |-> lost[c] \cup (UnderWay(c) \ {0})]
  /\ UNCHANGED <<customers, issued, held, billingVars, served, carried, resets>>

\* Nothing says in which month the job runs, or how often.
ResetMonthlyQuota ==
  /\ resets < MaxResets
  /\ resets' = resets + 1
  /\ customers' = [c \in Customers |-> [customers[c] EXCEPT !.calls = 0]]
  /\ served' = [c \in Customers |-> 0]
  /\ uncounted' = [c \in Customers |-> 0]
  /\ carried' = [c \in Customers |-> Waiting(c)]
  /\ UNCHANGED <<requests, secretVars, billingVars>>

----------------------------------------------------------------------------
\* At most one customer is registered, with the key 1.
AccountsInit ==
  /\ \E existing \in {{}} \cup {{c} : c \in Customers}, calls \in StartCalls :
       /\ customers = [c \in Customers |-> IF c \in existing
                         THEN [NewRow(1) EXCEPT !.calls = calls] ELSE NoRow]
       /\ held = [c \in Customers |-> IF c \in existing THEN {1} ELSE {}]
       /\ carried = [c \in Customers |-> IF c \in existing THEN calls ELSE 0]
  /\ requests = [s \in Slots |-> NoRequest]
  /\ issued = 1 /\ lost = [c \in Customers |-> {}]
  /\ orders = << >> /\ paid = {} /\ refused = {}
  /\ served = [c \in Customers |-> 0]
  /\ uncounted = [c \in Customers |-> 0]
  /\ resets = 0

AccountsNext ==
  \/ \E s \in Slots :
       \/ \E key \in 1..MaxIssued, op \in Operations : RequireApiKey(s, key, op)
       \/ \E c \in Customers : RegisterSelect(s, c)
       \/ RegisterInsert(s)
       \/ HandleCall(s)
       \/ Rotate(s)
       \/ SetWebhook(s)
       \/ DropWebhook(s)
       \/ CheckoutSession(s)
       \/ Checkout(s)
       \/ \E n \in 1..MaxOrders, key \in 0..MaxIssued : Postback(s, n, key)
       \/ StripeWebhook(s)
       \/ AtlosIpn(s)
       \/ Reply(s)
       \/ ReplyRefusal(s)
       \/ CountAuthedCall(s)
  \/ \E n \in 1..MaxOrders : Pay(n)
  \/ RestartApi
  \/ ResetMonthlyQuota

AccountsSpec == AccountsInit /\ [][AccountsNext]_accountVars

----------------------------------------------------------------------------
(* Properties.                                                             *)

\* The requests of c that may still count against its quota.
Open(c) == {s \in Slots : requests[s].who = c /\ requests[s].op # "register"}

PaidPlans(c) == {orders[n].plan : n \in {k \in paid : orders[k].customer = c}}

\* The monthly quota is read when a request begins and written when its
\* reply is out (auth.ts:90, 167): a customer gets past the limit of the
\* best plan ever paid for, but never by as much as the requests that the
\* API has in progress at once.
QuotaOvershoot ==
  \A c \in Customers : \E plan \in {"free"} \cup PaidPlans(c) :
    customers[c].calls + Cardinality(Open(c)) <= PLAN_LIMITS[plan] + Cardinality(Slots) - 1

\* Every billable reply is counted exactly once, whatever runs at the same
\* time, resets included; only a failed increment or a crash between reply
\* and count leaves one out (auth.ts:164-171, reset-monthly-quota.ts:12).
CountFollowsUse ==
  \A c \in Customers :
    customers[c].calls + uncounted[c] + Waiting(c) = served[c] + carried[c]

\* No customer is locked out by rotations that race (routes/auth.ts:55-65):
\* the stored key and the stored webhook secret are ones that were sent to
\* this customer, unless that very reply is under way or was lost.
KeyHolderKnows ==
  \A c \in Customers :
    {customers[c].key, customers[c].webhookSecret} \ {0}
      \subseteq held[c] \cup lost[c] \cup UnderWay(c)

\* Postbacks that are repeated or come out of order never give a plan that
\* was not paid for, and the limit stored by billing.ts (shown by GET
\* /v1/account) is the one auth.ts enforces.
PlanWasPaid ==
  \A c \in Customers : Registered(c) =>
    /\ customers[c].plan \in {"free"} \cup PaidPlans(c)
    /\ customers[c].apiCallsLimit = PLAN_LIMITS[customers[c].plan]

\* "POST /v1/billing/webhook (no auth) -> Stripe pings; we upgrade the plan"
\* (billing.ts:7): no postback of a paid order is answered 401.
PostbacksAdmitted == refused = {}
=============================================================================
