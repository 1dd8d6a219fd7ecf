---------------------------- MODULE LimitsProofs ----------------------------
(* Proofs about what limits calls: the monthly quota and the credentials   *)
(* of a customer (Accounts), for any number of requests, customers and     *)
(* postbacks, and the sliding window of first-sight scoring                *)
(* (FirstSightThrottle), for every window, budget and call pattern.        *)
EXTENDS Accounts, FirstSightThrottle, FiniteSetTheorems, SequenceTheorems, TLAPS

Rows == [key : Nat, plan : Plans, apiCallsLimit : Nat, calls : Nat, webhookSecret : Nat]
Busy == [op : Operations \cup {"register"}, at : {"begun", "reply", "reply 429", "count"},
         who : Customers, locals : [seen : Nat, secret : Nat, order : Nat]]
Orders == [customer : Customers, plan : PLAN_PRICES, by : Providers]

AccountTypes ==
  /\ requests \in [Slots -> {NoRequest} \cup Busy]
  /\ customers \in [Customers -> Rows]
  /\ issued \in Nat
  /\ held \in [Customers -> SUBSET Nat] /\ lost \in [Customers -> SUBSET Nat]
  /\ orders \in Seq(Orders) /\ paid \subseteq DOMAIN orders
  /\ served \in [Customers -> Nat] /\ uncounted \in [Customers -> Nat]
  /\ carried \in [Customers -> Nat]

\* What a request in progress knows: its customer has a row, whose calls it
\* may still count, and the order of a postback was paid.
RequestsInv ==
  /\ \A s \in Slots : requests[s] # NoRequest =>
       /\ requests[s].op # "register" => Registered(requests[s].who)
       /\ requests[s].at = "count" => requests[s].op # "register"
       /\ requests[s].locals.order # 0 => requests[s].locals.order \in paid
  /\ \A c \in Customers : ~Registered(c) => customers[c].calls = 0

AccountsInv ==
  /\ AccountTypes /\ RequestsInv
  /\ PlanWasPaid /\ KeyHolderKnows /\ CountFollowsUse /\ QuotaOvershoot
----------------------------------------------------------------------------
(* What the operators of the model come to.                                *)

\* The limits and the plans that have them.
LEMMA Limits ==
  /\ "free" \in Plans /\ PLAN_PRICES \subseteq Plans
  /\ \A plan \in Plans : PLAN_LIMITS[plan] \in Nat /\ PLAN_LIMITS[plan] >= 100
  /\ \A plan \in Plans : PLAN_CALL_LIMITS[plan] = PLAN_LIMITS[plan]
  /\ PLAN_LIMITS.free = 100 /\ PLAN_LIMITS["free"] = 100
  BY DEF Plans, PLAN_PRICES, PLAN_LIMITS, PLAN_CALL_LIMITS

\* An idle slot is no request of anybody.
LEMMA Idle ==
  /\ NoRequest.op = "none" /\ NoRequest.at = "idle" /\ NoRequest.who = "none"
  /\ NoRequest \notin Busy /\ NoRequest.who \notin Customers
  BY AccountsAssumption DEF NoRequest, Busy

\* The sets of slots that are counted are finite, and no larger than all.
LEMMA CountedSlots ==
  ASSUME NEW T \in SUBSET Slots
  PROVE  /\ IsFiniteSet(T) /\ Cardinality(T) \in Nat /\ Cardinality(Slots) \in Nat
         /\ Cardinality(T) <= Cardinality(Slots)
         /\ \A S \in SUBSET T : IsFiniteSet(S) /\ Cardinality(S) <= Cardinality(T)
                                 /\ Cardinality(S) \in Nat
         /\ \A s \in T : Cardinality(T \ {s}) = Cardinality(T) - 1
         /\ \A s \in Slots \ T : Cardinality(T \cup {s}) = Cardinality(T) + 1
<1>1. IsFiniteSet(Slots) /\ IsFiniteSet(T) /\ Cardinality(T) <= Cardinality(Slots)
  BY RequestsAssumption, FS_Subset
<1>2. Cardinality(T) \in Nat /\ Cardinality(Slots) \in Nat  BY <1>1, FS_CardinalityType
<1>3. \A S \in SUBSET T : IsFiniteSet(S) /\ Cardinality(S) <= Cardinality(T)
                           /\ Cardinality(S) \in Nat
  BY <1>1, FS_Subset, FS_CardinalityType
<1>4. \A s \in T : Cardinality(T \ {s}) = Cardinality(T) - 1  BY <1>1, FS_RemoveElement
<1>5. \A s \in Slots \ T : Cardinality(T \cup {s}) = Cardinality(T) + 1
  BY <1>1, FS_AddElement
<1> QED  BY <1>1, <1>2, <1>3, <1>4, <1>5

Counting(c) == {s \in Slots : requests[s].at = "count" /\ requests[s].who = c}

\* A step that neither begins nor ends a wait to be counted.
LEMMA MoveWaits ==
  ASSUME AccountTypes, NEW s \in Slots, NEW new \in {NoRequest} \cup Busy,
         requests' = [requests EXCEPT ![s] = new], NEW c,
         requests[s].at # "count", new.at # "count"
  PROVE  Waiting(c)' = Waiting(c)
<1>1. \A t \in Slots : requests'[t] = IF t = s THEN new ELSE requests[t]
  BY DEF AccountTypes
<1> QED  BY <1>1 DEF Waiting

\* One request moves on, begins or ends: what that does to the sets that the
\* properties speak of.
LEMMA Move ==
  ASSUME AccountTypes, NEW s \in Slots, NEW new \in {NoRequest} \cup Busy,
         requests' = [requests EXCEPT ![s] = new], NEW c
  PROVE  /\ requests' \in [Slots -> {NoRequest} \cup Busy]
         /\ requests'[s] = new /\ \A t \in Slots \ {s} : requests'[t] = requests[t]
         /\ requests[s].at # "count" /\ new.at # "count" => Waiting(c)' = Waiting(c)
         /\ requests[s].at # "reply" => UnderWay(c) \subseteq UnderWay(c)'
         /\ new.at = "reply" /\ new.who = c => new.locals.secret \in UnderWay(c)'
         /\ ~(new.who = c /\ new.op # "register") => Open(c)' \subseteq Open(c)
         /\ new.who = requests[s].who /\ new.op = requests[s].op => Open(c)' = Open(c)
<1>1. /\ requests' \in [Slots -> {NoRequest} \cup Busy]
      /\ requests'[s] = new /\ \A t \in Slots \ {s} : requests'[t] = requests[t]
  BY DEF AccountTypes
<1>2. ASSUME requests[s].at # "count", new.at # "count"
      PROVE  Waiting(c)' = Waiting(c)
  BY <1>1, <1>2 DEF Waiting
<1>3. ASSUME requests[s].at # "reply"
      PROVE  UnderWay(c) \subseteq UnderWay(c)'
  <2>1. ASSUME NEW t \in Slots, requests[t].at = "reply", requests[t].who = c
        PROVE  requests[t].locals.secret \in UnderWay(c)'
    <3>1. requests'[t] = requests[t]  BY <1>1, <1>3, <2>1
    <3> QED  BY <2>1, <3>1 DEF UnderWay
  <2> QED  BY <2>1 DEF UnderWay
<1>4. ASSUME new.at = "reply", new.who = c
      PROVE  new.locals.secret \in UnderWay(c)'
  BY <1>1, <1>4 DEF UnderWay
<1>5. ASSUME ~(new.who = c /\ new.op # "register")
      PROVE  Open(c)' \subseteq Open(c)
  BY <1>1, <1>5 DEF Open
<1>6. ASSUME new.who = requests[s].who, new.op = requests[s].op
      PROVE  Open(c)' = Open(c)
  BY <1>1, <1>6 DEF Open
<1> QED  BY <1>1, <1>2, <1>3, <1>4, <1>5, <1>6

\* A request begins with a copy of its customer's count.
LEMMA BeginMoves ==
  ASSUME AccountTypes, NEW s \in Slots, NEW op \in Operations \cup {"register"},
         NEW c \in Customers, NEW order \in Nat, Begins(s, op, c, Locals(c, order))
  PROVE  \E new \in Busy :
           /\ requests' = [requests EXCEPT ![s] = new] /\ requests[s] = NoRequest
           /\ new.op = op /\ new.at = "begun" /\ new.who = c /\ new.locals.order = order
<1> DEFINE new == [op |-> op, at |-> "begun", who |-> c, locals |-> Locals(c, order)]
<1>1. customers[c].calls \in Nat  BY DEF AccountTypes, Rows
<1>2. Locals(c, order) \in [seen : Nat, secret : Nat, order : Nat]
      /\ Locals(c, order).order = order
  BY <1>1 DEF Locals
<1>3. new \in Busy  BY <1>2 DEF Busy
<1> QED  BY <1>2, <1>3 DEF Begins

\* A request goes on, with the same operation and customer.
LEMMA ContinueMoves ==
  ASSUME AccountTypes, NEW s \in Slots, requests[s].at # "idle",
         NEW at \in {"begun", "reply", "reply 429", "count"},
         NEW locals \in [seen : Nat, secret : Nat, order : Nat],
         Continues(s, at, locals)
  PROVE  \E new \in Busy :
           /\ requests' = [requests EXCEPT ![s] = new] /\ requests[s] \in Busy
           /\ new.op = requests[s].op /\ new.who = requests[s].who
           /\ new.at = at /\ new.locals = locals
<1> DEFINE r == requests[s]
           new == [op |-> r.op, at |-> at, who |-> r.who, locals |-> locals]
<1>1. r \in Busy  BY Idle DEF AccountTypes
<1>2. new \in Busy  BY <1>1 DEF Busy
<1>3. requests' = [requests EXCEPT ![s] = new]
  BY DEF Continues, AccountTypes
<1> QED  BY <1>1, <1>2, <1>3

\* An order that was paid has a plan that has a limit.
LEMMA PaidOrders ==
  ASSUME AccountTypes
  PROVE  /\ \A n \in paid : n \in 1..Len(orders) /\ orders[n] \in Orders
         /\ \A c : PaidPlans(c) \subseteq Plans
<1>1. ASSUME NEW n \in paid
      PROVE  n \in 1..Len(orders) /\ orders[n] \in Orders
  BY ElementOfSeq, LenProperties DEF AccountTypes
<1>2. \A n \in paid : orders[n].plan \in Plans  BY <1>1, Limits DEF Orders
<1> QED  BY <1>1, <1>2 DEF PaidPlans

\* A customer is no further over a limit when calls and open requests are no
\* more than they were.
LEMMA NoFurther ==
  ASSUME AccountTypes, AccountTypes', QuotaOvershoot, NEW c \in Customers,
         PaidPlans(c) \subseteq PaidPlans(c)',
         customers'[c].calls + Cardinality(Open(c)')
           <= customers[c].calls + Cardinality(Open(c))
  PROVE  \E plan \in {"free"} \cup PaidPlans(c)' :
           customers'[c].calls + Cardinality(Open(c)')
             <= PLAN_LIMITS[plan] + Cardinality(Slots) - 1
<1>1. PICK plan \in {"free"} \cup PaidPlans(c) :
        customers[c].calls + Cardinality(Open(c))
          <= PLAN_LIMITS[plan] + Cardinality(Slots) - 1
  BY DEF QuotaOvershoot
<1>2. plan \in Plans
  BY <1>1, Limits, PaidOrders
<1>3. Open(c) \subseteq Slots /\ Open(c)' \subseteq Slots  BY DEF Open
<1>4. /\ Cardinality(Open(c)) \in Nat /\ Cardinality(Open(c)') \in Nat
      /\ Cardinality(Slots) \in Nat
  BY <1>3, CountedSlots
<1>5. PLAN_LIMITS[plan] \in Nat  BY <1>2, Limits
<1>6. customers[c].calls \in Nat /\ customers'[c].calls \in Nat  BY DEF AccountTypes, Rows
<1>7. customers'[c].calls + Cardinality(Open(c)')
        <= PLAN_LIMITS[plan] + Cardinality(Slots) - 1
  BY <1>1, <1>4, <1>5, <1>6
<1> QED  BY <1>1, <1>7

\* Below a limit there is room for all the requests that fit in.
LEMMA Room ==
  ASSUME AccountTypes, AccountTypes', NEW c \in Customers,
         NEW plan \in Plans, plan \in {"free"} \cup PaidPlans(c)',
         customers'[c].calls < PLAN_LIMITS[plan]
  PROVE  \E p \in {"free"} \cup PaidPlans(c)' :
           customers'[c].calls + Cardinality(Open(c)')
             <= PLAN_LIMITS[p] + Cardinality(Slots) - 1
<1>1. Open(c)' \subseteq Slots  BY DEF Open
<1>2. /\ Cardinality(Open(c)') \in Nat /\ Cardinality(Slots) \in Nat
      /\ Cardinality(Open(c)') <= Cardinality(Slots)
  BY <1>1, CountedSlots
<1>3. PLAN_LIMITS[plan] \in Nat  BY Limits
<1>4. customers'[c].calls \in Nat  BY DEF AccountTypes, Rows
<1>5. customers'[c].calls + Cardinality(Open(c)')
        <= PLAN_LIMITS[plan] + Cardinality(Slots) - 1
  BY <1>2, <1>3, <1>4
<1> QED  BY <1>5

\* A request that begins, is refused or fails changes nothing that counts.
LEMMA QuietMove ==
  ASSUME AccountsInv, NEW s \in Slots, NEW new \in {NoRequest} \cup Busy,
         requests' = [requests EXCEPT ![s] = new], UNCHANGED tableVars,
         requests[s].at \notin {"count", "reply"}, new.at # "count",
         new # NoRequest => /\ new.op # "register" => Registered(new.who)
                            /\ new.locals.order # 0 => new.locals.order \in paid
                            /\ \/ new.op = requests[s].op /\ new.who = requests[s].who
                               \/ new.op # "register" => UnderQuota(new.who)
  PROVE  AccountsInv'
<1> USE DEF tableVars, secretVars, billingVars, ledgerVars
<1>0. /\ AccountTypes /\ RequestsInv /\ PlanWasPaid /\ KeyHolderKnows
      /\ CountFollowsUse /\ QuotaOvershoot
  BY DEF AccountsInv
<1>1. AccountTypes'  BY <1>0, Move DEF AccountTypes
<1>2. RequestsInv'
  <2>1. \A t \in Slots : requests'[t] = IF t = s THEN new ELSE requests[t]
    BY <1>0 DEF AccountTypes
  <2> QED  BY <1>0, <2>1 DEF RequestsInv, Registered
<1>3. \A c \in Customers : PaidPlans(c)' = PaidPlans(c)  BY DEF PaidPlans
<1>4. PlanWasPaid'  BY <1>0, <1>3 DEF PlanWasPaid, Registered
<1>5. KeyHolderKnows'
  <2>1. \A c \in Customers : UnderWay(c) \subseteq UnderWay(c)'  BY <1>0, Move
  <2> QED  BY <1>0, <2>1 DEF KeyHolderKnows
<1>6. CountFollowsUse'
  <2>1. AccountTypes /\ (requests[s].at # "count" /\ new.at # "count")  BY <1>0
  <2>2. ASSUME NEW c \in Customers PROVE Waiting(c)' = Waiting(c)
    BY <2>1, MoveWaits
  <2> QED  BY <1>0, <2>2 DEF CountFollowsUse
<1>7. ASSUME NEW c \in Customers
      PROVE  \E plan \in {"free"} \cup PaidPlans(c)' :
               customers'[c].calls + Cardinality(Open(c)')
                 <= PLAN_LIMITS[plan] + Cardinality(Slots) - 1
  <2>1. CASE Open(c)' \subseteq Open(c)
    <3>1. Open(c) \subseteq Slots  BY DEF Open
    <3>2. Cardinality(Open(c)') <= Cardinality(Open(c))
          /\ Cardinality(Open(c)') \in Nat /\ Cardinality(Open(c)) \in Nat
      BY <2>1, <3>1, CountedSlots
    <3>3. customers[c].calls \in Nat  BY <1>0 DEF AccountTypes, Rows
    <3>4. customers'[c].calls + Cardinality(Open(c)')
            <= customers[c].calls + Cardinality(Open(c))
      BY <3>2, <3>3
    <3> QED  BY <1>0, <1>1, <1>3, <3>4, NoFurther
  <2>2. CASE ~(Open(c)' \subseteq Open(c))
    <3>1. new.who = c /\ new.op # "register"  BY <1>0, <2>2, Move
    <3>2. new # NoRequest  BY <3>1, Idle
    <3>3. ~(new.op = requests[s].op /\ new.who = requests[s].who)  BY <1>0, <2>2, Move
    <3>4. Registered(c) /\ UnderQuota(c)  BY <3>1, <3>2, <3>3
    <3>5. customers[c].plan \in {"free"} \cup PaidPlans(c)'
      BY <1>0, <1>3, <3>4 DEF PlanWasPaid
    <3>6. customers[c].plan \in Plans  BY <1>0 DEF AccountTypes, Rows
    <3>7. customers'[c].calls < PLAN_LIMITS[customers[c].plan]
      BY <3>4 DEF UnderQuota
    <3> QED  BY <1>0, <1>1, <3>5, <3>6, <3>7, Room
  <2> QED  BY <2>1, <2>2
<1> QED  BY <1>1, <1>2, <1>4, <1>5, <1>6, <1>7 DEF AccountsInv, QuotaOvershoot

----------------------------------------------------------------------------
(* The actions.                                                            *)

\* Where neither requests nor rows change, and no payment is taken back.
LEMMA NobodyMoves ==
  ASSUME AccountsInv, paid \subseteq paid', paid' \subseteq DOMAIN orders,
         UNCHANGED <<requests, customers, issued, held, lost, orders,
                     served, uncounted, carried>>
  PROVE  AccountsInv'
<1>1. AccountTypes'  BY DEF AccountsInv, AccountTypes
<1>2. RequestsInv'  BY DEF AccountsInv, RequestsInv, Registered
<1>3. \A c : PaidPlans(c) \subseteq PaidPlans(c)'  BY DEF PaidPlans
<1>4. PlanWasPaid'  BY <1>3 DEF AccountsInv, PlanWasPaid, Registered
<1>5. KeyHolderKnows' /\ CountFollowsUse'
  BY DEF AccountsInv, KeyHolderKnows, UnderWay, CountFollowsUse, Waiting
<1>6. \A c : Open(c)' = Open(c)  BY DEF Open
<1>7. QuotaOvershoot'  BY <1>3, <1>6 DEF AccountsInv, QuotaOvershoot
<1> QED  BY <1>1, <1>2, <1>4, <1>5, <1>7 DEF AccountsInv

\* A reply takes a secret with it, or none.
LEMMA WithSecret ==
  ASSUME NEW l \in [seen : Nat, secret : Nat, order : Nat], NEW n \in Nat
  PROVE  /\ [l EXCEPT !.secret = n] \in [seen : Nat, secret : Nat, order : Nat]
         /\ [l EXCEPT !.secret = n].order = l.order
         /\ [l EXCEPT !.secret = n].secret = n
  OBVIOUS

\* What a handler's request becomes when it is answered.
LEMMA ReplyMoves ==
  ASSUME AccountTypes, NEW s \in Slots, requests[s].at # "idle", NEW n \in Nat,
         Replies(s, n)
  PROVE  \E new \in Busy :
           /\ requests' = [requests EXCEPT ![s] = new] /\ requests[s] \in Busy
           /\ new.op = requests[s].op /\ new.who = requests[s].who
           /\ new.at = "reply" /\ new.locals.secret = n
           /\ new.locals.order = requests[s].locals.order
<1>1. requests[s] \in Busy  BY Idle DEF AccountTypes
<1>2. requests[s].locals \in [seen : Nat, secret : Nat, order : Nat]  BY <1>1 DEF Busy
<1> DEFINE l == [requests[s].locals EXCEPT !.secret = n]
           new == [op |-> requests[s].op, at |-> "reply", who |-> requests[s].who,
                   locals |-> l]
<1>3. l \in [seen : Nat, secret : Nat, order : Nat]
      /\ l.order = requests[s].locals.order /\ l.secret = n
  BY <1>2, WithSecret
<1>4. requests' = [requests EXCEPT ![s] = new]
  BY DEF Replies, Continues, AccountTypes
<1> HIDE DEF l
<1>5. new \in Busy  BY <1>1, <1>3 DEF Busy
<1> QED  BY <1>1, <1>3, <1>4, <1>5

\* The key check: what it lets in is below the limit of its plan.
LEMMA AdmittedKeeps ==
  ASSUME AccountsInv, NEW s \in Slots, NEW key, NEW op \in Operations, NEW order \in Nat,
         order # 0 => order \in paid,
         Admitted(s, key, op, order), UNCHANGED tableVars
  PROVE  AccountsInv'
<1>1. PICK c \in Customers : /\ Registered(c) /\ UnderQuota(c)
                             /\ Begins(s, op, c, Locals(c, order))
  BY DEF Admitted
<1>2. PICK new \in Busy :
           /\ requests' = [requests EXCEPT ![s] = new] /\ requests[s] = NoRequest
           /\ new.op = op /\ new.at = "begun" /\ new.who = c /\ new.locals.order = order
  BY <1>1, BeginMoves DEF AccountsInv
<1> QED  BY <1>1, <1>2, Idle, QuietMove

LEMMA QuietActions ==
  ASSUME AccountsInv, NEW s \in Slots,
         \/ \E key \in 1..MaxIssued, op \in Operations : RequireApiKey(s, key, op)
         \/ \E c \in Customers : RegisterSelect(s, c)
         \/ HandleCall(s)
         \/ \E n \in 1..MaxOrders, key \in 0..MaxIssued : Postback(s, n, key)
         \/ ReplyRefusal(s)
  PROVE  AccountsInv'
<1>0. AccountTypes /\ RequestsInv  BY DEF AccountsInv
<1>1. CASE \E key \in 1..MaxIssued, op \in Operations : RequireApiKey(s, key, op)
  BY <1>1, AdmittedKeeps DEF RequireApiKey
<1>2. CASE \E c \in Customers : RegisterSelect(s, c)
  <2>1. PICK c \in Customers : RegisterSelect(s, c)  BY <1>2
  <2>2. PICK new \in Busy :
           /\ requests' = [requests EXCEPT ![s] = new] /\ requests[s] = NoRequest
           /\ new.op = "register" /\ new.at = "begun" /\ new.who = c /\ new.locals.order = 0
    BY <1>0, <2>1, BeginMoves DEF RegisterSelect
  <2> QED  BY <2>1, <2>2, Idle, QuietMove DEF RegisterSelect
<1>3. CASE HandleCall(s)
  <2>1. requests[s].at = "begun" /\ requests[s].op \in Operations /\ UNCHANGED tableVars
    BY <1>3 DEF HandleCall
  <2>2. requests[s] \in Busy  BY <1>0, <2>1, Idle DEF AccountTypes
  <2>3. CASE Refuses(s)
    <3>1. requests[s].locals \in [seen : Nat, secret : Nat, order : Nat]
      BY <2>2 DEF Busy
    <3>2. PICK new \in Busy :
           /\ requests' = [requests EXCEPT ![s] = new] /\ requests[s] \in Busy
           /\ new.op = requests[s].op /\ new.who = requests[s].who
           /\ new.at = "reply 429" /\ new.locals = requests[s].locals
      BY <1>0, <2>1, <2>3, <3>1, ContinueMoves DEF Refuses
    <3> QED  BY <1>0, <2>1, <2>2, <3>2, Idle, QuietMove DEF RequestsInv
  <2>4. CASE Replies(s, 0)
    <3>1. PICK new \in Busy :
           /\ requests' = [requests EXCEPT ![s] = new]
           /\ new.op = requests[s].op /\ new.who = requests[s].who
           /\ new.at = "reply" /\ new.locals.order = requests[s].locals.order
      BY <1>0, <2>1, <2>4, ReplyMoves
    <3> QED  BY <1>0, <2>1, <2>2, <3>1, Idle, QuietMove DEF RequestsInv
  <2> QED  BY <1>3, <2>3, <2>4 DEF HandleCall
<1>4. CASE \E n \in 1..MaxOrders, key \in 0..MaxIssued : Postback(s, n, key)
  <2>1. PICK n \in 1..MaxOrders, key \in 0..MaxIssued : Postback(s, n, key)  BY <1>4
  <2>2. n \in paid /\ orders[n].by \in Operations /\ n \in Nat
    BY <1>0, <2>1, PaidOrders, AccountsAssumption DEF Postback, Orders, Operations
  <2>3. CASE /\ refused' = refused \cup {n}
             /\ UNCHANGED <<requests, customers, secretVars, orders, paid, ledgerVars>>
    BY <1>0, <2>3, NobodyMoves DEF secretVars, ledgerVars, AccountTypes
  <2>4. CASE Admitted(s, key, orders[n].by, n) /\ UNCHANGED tableVars
    BY <2>2, <2>4, AdmittedKeeps
  <2> QED  BY <2>1, <2>3, <2>4 DEF Postback
<1>5. CASE ReplyRefusal(s)
  BY <1>5, Idle, QuietMove DEF ReplyRefusal, Ends
<1> QED  BY <1>1, <1>2, <1>3, <1>4, <1>5

\* A handler that wrote its rows answers or gives up: no call is counted yet,
\* and nobody loses a row or a plan.
LEMMA HandlerMove ==
  ASSUME AccountsInv, AccountTypes', NEW s \in Slots, NEW new \in {NoRequest} \cup Busy,
         requests' = [requests EXCEPT ![s] = new],
         requests[s] \in Busy, requests[s].at = "begun", new.at # "count",
         new # NoRequest => /\ new.op = requests[s].op /\ new.who = requests[s].who
                            /\ new.locals.order = requests[s].locals.order,
         paid \subseteq paid',
         \A c \in Customers : /\ customers'[c].calls = customers[c].calls
                              /\ Registered(c) => Registered(c)'
                              /\ PaidPlans(c) \subseteq PaidPlans(c)',
         UNCHANGED <<served, uncounted, carried>>
  PROVE  /\ RequestsInv' /\ CountFollowsUse' /\ QuotaOvershoot'
         /\ \A c : UnderWay(c) \subseteq UnderWay(c)'
<1>0. /\ AccountTypes /\ RequestsInv /\ CountFollowsUse /\ QuotaOvershoot
  BY DEF AccountsInv
<1>1. RequestsInv'
  <2>1. \A t \in Slots : requests'[t] = IF t = s THEN new ELSE requests[t]
    BY <1>0 DEF AccountTypes
  <2>2. requests[s] # NoRequest  BY Idle
  <2>3. requests[s].who \in Customers  BY DEF Busy
  <2>4. ASSUME NEW t \in Slots, requests'[t] # NoRequest
        PROVE  /\ requests'[t].op # "register" => customers'[requests'[t].who].key # 0
               /\ requests'[t].at = "count" => requests'[t].op # "register"
               /\ requests'[t].locals.order # 0 => requests'[t].locals.order \in paid'
               /\ requests'[t].who = requests[t].who
    <3>1. CASE t = s
      BY <1>0, <2>1, <2>2, <2>3, <2>4, <3>1 DEF RequestsInv, Registered
    <3>2. CASE t # s
      <4>1. requests[t] = requests'[t]  BY <2>1, <3>2
      <4>2. requests[t].who \in Customers  BY <1>0, <2>4, <4>1 DEF AccountTypes, Busy
      <4> QED  BY <1>0, <2>4, <4>1, <4>2 DEF RequestsInv, Registered
    <3> QED  BY <3>1, <3>2
  <2>5. \A c \in Customers : customers'[c].key = 0 => customers'[c].calls = 0
    BY <1>0 DEF RequestsInv, Registered
  <2> QED  BY <2>4, <2>5 DEF RequestsInv, Registered
<1>2. CountFollowsUse'
  <2>1. requests[s].at # "count"  OBVIOUS
  <2>2. ASSUME NEW c \in Customers PROVE Waiting(c)' = Waiting(c)
    <3>1. requests[s].at # "count" /\ new.at # "count"  BY <1>0, <2>1
    <3> QED  BY <1>0, <3>1, MoveWaits
  <2> QED  BY <1>0, <2>2 DEF CountFollowsUse
<1>3. ASSUME NEW c \in Customers
      PROVE  \E plan \in {"free"} \cup PaidPlans(c)' :
               customers'[c].calls + Cardinality(Open(c)')
                 <= PLAN_LIMITS[plan] + Cardinality(Slots) - 1
  <2>1. Open(c)' \subseteq Open(c)
    <3>1. CASE new = NoRequest  BY <1>0, <3>1, Idle, Move
    <3>2. CASE new # NoRequest  BY <1>0, <3>2, Move
    <3> QED  BY <3>1, <3>2
  <2>2. Open(c) \subseteq Slots  BY DEF Open
  <2>3. /\ Cardinality(Open(c)') <= Cardinality(Open(c))
        /\ Cardinality(Open(c)') \in Nat /\ Cardinality(Open(c)) \in Nat
    BY <2>1, <2>2, CountedSlots
  <2>4. customers[c].calls \in Nat  BY <1>0 DEF AccountTypes, Rows
  <2>5. customers'[c].calls + Cardinality(Open(c)')
          <= customers[c].calls + Cardinality(Open(c))
    BY <2>3, <2>4
  <2> QED  BY <1>0, <2>5, NoFurther
<1>4. \A c : UnderWay(c) \subseteq UnderWay(c)'  BY <1>0, Move
<1> QED  BY <1>1, <1>2, <1>3, <1>4 DEF QuotaOvershoot

\* A handler has a request with it.
LEMMA AtHandler ==
  ASSUME AccountTypes, NEW s \in Slots, NEW op, Reached(s, op, "begun")
  PROVE  /\ requests[s] \in Busy /\ requests[s].at = "begun" /\ requests[s].at # "idle"
         /\ requests[s].op = op /\ requests[s].who \in Customers
         /\ requests[s].locals.order \in Nat
  BY Idle DEF AccountTypes, Reached, Busy

\* POST /v1/account/register
LEMMA RegisterInsertKeeps ==
  ASSUME AccountsInv, NEW s \in Slots, RegisterInsert(s)
  PROVE  AccountsInv'
<1>0. /\ AccountTypes /\ RequestsInv /\ PlanWasPaid /\ KeyHolderKnows
  BY DEF AccountsInv
<1>1. PICK c \in Customers :
        /\ requests[s] \in Busy /\ requests[s].at = "begun" /\ requests[s].at # "idle"
        /\ c = requests[s].who /\ requests[s].locals.order \in Nat
  BY <1>0, AtHandler DEF RegisterInsert
<1>2. /\ issued' = issued + 1 /\ issued' \in Nat /\ issued' # 0
      /\ UNCHANGED <<held, lost, orders, paid, served, uncounted, carried>>
  BY <1>0 DEF RegisterInsert, AccountTypes, billingVars, ledgerVars
<1>3. \A d : PaidPlans(d)' = PaidPlans(d)  BY <1>2 DEF PaidPlans
<1>4. CASE Registered(c)
  <2>1. requests' = [requests EXCEPT ![s] = NoRequest] /\ UNCHANGED customers
    BY <1>1, <1>4 DEF RegisterInsert, Ends
  <2>2. AccountTypes'  BY <1>0, <1>2, <2>1 DEF AccountTypes
  <2>3. /\ RequestsInv' /\ CountFollowsUse' /\ QuotaOvershoot'
        /\ \A d : UnderWay(d) \subseteq UnderWay(d)'
    <3>1. \A d \in Customers : /\ customers'[d].calls = customers[d].calls
                               /\ Registered(d) => Registered(d)'
                               /\ PaidPlans(d) \subseteq PaidPlans(d)'
      BY <1>3, <2>1 DEF Registered
    <3> QED  BY <1>1, <1>2, <2>1, <2>2, <3>1, Idle, HandlerMove
  <2>4. PlanWasPaid' /\ KeyHolderKnows'
    BY <1>0, <1>2, <1>3, <2>1, <2>3 DEF PlanWasPaid, KeyHolderKnows, Registered
  <2> QED  BY <2>2, <2>3, <2>4 DEF AccountsInv
<1>5. CASE ~Registered(c)
  <2>1. customers' = [customers EXCEPT ![c] = NewRow(issued')] /\ Replies(s, issued')
    BY <1>1, <1>5 DEF RegisterInsert
  <2>2. PICK new \in Busy :
           /\ requests' = [requests EXCEPT ![s] = new]
           /\ new.op = requests[s].op /\ new.who = requests[s].who
           /\ new.at = "reply" /\ new.locals.secret = issued'
           /\ new.locals.order = requests[s].locals.order
    BY <1>0, <1>1, <1>2, <2>1, ReplyMoves
  <2>3. /\ NewRow(issued') \in Rows /\ NewRow(issued').key = issued'
        /\ NewRow(issued').plan = "free" /\ NewRow(issued').calls = 0
        /\ NewRow(issued').apiCallsLimit = 100 /\ NewRow(issued').webhookSecret = 0
    BY <1>2 DEF NewRow, NoRow, Rows, Plans
  <2>4. AccountTypes'  BY <1>0, <1>1, <1>2, <2>1, <2>2, <2>3 DEF AccountTypes
  <2>5. /\ customers'[c] = NewRow(issued')
        /\ \A d \in Customers \ {c} : customers'[d] = customers[d]
    BY <1>0, <1>1, <2>1 DEF AccountTypes
  <2>6. customers[c].calls = 0  BY <1>0, <1>1, <1>5 DEF RequestsInv
  <2>7. /\ RequestsInv' /\ CountFollowsUse' /\ QuotaOvershoot'
        /\ \A d : UnderWay(d) \subseteq UnderWay(d)'
    <3>1. \A d \in Customers : /\ customers'[d].calls = customers[d].calls
                               /\ Registered(d) => Registered(d)'
                               /\ PaidPlans(d) \subseteq PaidPlans(d)'
      BY <1>2, <1>3, <2>3, <2>5, <2>6 DEF Registered
    <3> QED  BY <1>1, <1>2, <2>2, <2>4, <3>1, HandlerMove
  <2>8. PlanWasPaid'
    BY <1>0, <1>1, <1>3, <2>3, <2>5, Limits DEF PlanWasPaid, Registered
  <2>9. KeyHolderKnows'
    <3>1. issued' \in UnderWay(c)'  BY <1>0, <1>1, <2>2, Move
    <3>2. \A d \in Customers \ {c} :
            {customers'[d].key, customers'[d].webhookSecret} \ {0}
              \subseteq held'[d] \cup lost'[d] \cup UnderWay(d)'
      BY <1>0, <1>2, <2>5, <2>7 DEF KeyHolderKnows
    <3>3. {customers'[c].key, customers'[c].webhookSecret} \ {0} \subseteq UnderWay(c)'
      BY <2>3, <2>5, <3>1
    <3> QED  BY <3>2, <3>3 DEF KeyHolderKnows
  <2> QED  BY <2>4, <2>7, <2>8, <2>9 DEF AccountsInv
<1> QED  BY <1>4, <1>5

\* What a handler leaves of a row when it changes the key or the webhook
\* secret, and sends the new one if there is one.
LEMMA SecretStored ==
  ASSUME AccountsInv, NEW s \in Slots, NEW c \in Customers,
         requests[s] \in Busy, requests[s].at = "begun", requests[s].who = c,
         requests[s].op # "register",
         NEW row \in Rows, customers' = [customers EXCEPT ![c] = row],
         row.plan = customers[c].plan, row.apiCallsLimit = customers[c].apiCallsLimit,
         row.calls = customers[c].calls,
         issued' \in Nat, NEW secret \in Nat, Replies(s, secret),
         row.key = customers[c].key \/ (row.key = secret /\ secret # 0),
         row.webhookSecret \in {customers[c].webhookSecret, secret},
         UNCHANGED <<held, lost, billingVars, ledgerVars>>
  PROVE  AccountsInv'
<1> USE DEF billingVars, ledgerVars
<1>0. /\ AccountTypes /\ RequestsInv /\ PlanWasPaid /\ KeyHolderKnows
  BY DEF AccountsInv
<1>1. PICK new \in Busy :
           /\ requests' = [requests EXCEPT ![s] = new]
           /\ new.op = requests[s].op /\ new.who = requests[s].who
           /\ new.at = "reply" /\ new.locals.secret = secret
           /\ new.locals.order = requests[s].locals.order
  BY <1>0, ReplyMoves
<1>2. AccountTypes'  BY <1>0, <1>1 DEF AccountTypes
<1>3. \A d : PaidPlans(d)' = PaidPlans(d)  BY DEF PaidPlans
<1>4. /\ customers'[c] = row
      /\ \A d \in Customers \ {c} : customers'[d] = customers[d]
  BY <1>0 DEF AccountTypes
<1>5. customers[c].key # 0
  <2>1. requests[s] # NoRequest  BY Idle
  <2> QED  BY <1>0, <2>1 DEF RequestsInv, Registered
<1>6. /\ RequestsInv' /\ CountFollowsUse' /\ QuotaOvershoot'
      /\ \A d : UnderWay(d) \subseteq UnderWay(d)'
  <2>1. \A d \in Customers : /\ customers'[d].calls = customers[d].calls
                             /\ Registered(d) => Registered(d)'
                             /\ PaidPlans(d) \subseteq PaidPlans(d)'
    BY <1>3, <1>4, <1>5 DEF Registered
  <2> QED  BY <1>1, <1>2, <2>1, HandlerMove
<1>7. PlanWasPaid'
  BY <1>0, <1>3, <1>4, <1>5 DEF PlanWasPaid, Registered
<1>8. KeyHolderKnows'
  <2>1. secret \in UnderWay(c)'  BY <1>0, <1>1, Move
  <2>2. \A d \in Customers \ {c} :
          {customers'[d].key, customers'[d].webhookSecret} \ {0}
            \subseteq held'[d] \cup lost'[d] \cup UnderWay(d)'
    BY <1>0, <1>4, <1>6 DEF KeyHolderKnows
  <2>3. {customers'[c].key, customers'[c].webhookSecret} \ {0}
          \subseteq held'[c] \cup lost'[c] \cup UnderWay(c)'
    BY <1>0, <1>4, <1>6, <2>1 DEF KeyHolderKnows
  <2> QED  BY <2>2, <2>3 DEF KeyHolderKnows
<1> QED  BY <1>2, <1>6, <1>7, <1>8 DEF AccountsInv

\* POST /v1/account/rotate-key, and the webhook secret set and dropped
LEMMA SecretsKeep ==
  ASSUME AccountsInv, NEW s \in Slots, Rotate(s) \/ SetWebhook(s) \/ DropWebhook(s)
  PROVE  AccountsInv'
<1>0. AccountTypes  BY DEF AccountsInv
<1>1. PICK op \in {"rotate", "setWebhook", "dropWebhook"} : Reached(s, op, "begun")
  BY DEF Rotate, SetWebhook, DropWebhook, StoreAndSend
<1>2. PICK c \in Customers :
        /\ requests[s] \in Busy /\ requests[s].at = "begun"
        /\ requests[s].op # "register" /\ c = requests[s].who
  BY <1>0, <1>1, AtHandler
<1>3. PICK r \in Rows : r = customers[c]  BY <1>0 DEF AccountTypes
<1>4. CASE Rotate(s)
  <2>1. /\ issued' = issued + 1 /\ Replies(s, issued')
        /\ customers' = [customers EXCEPT ![c] = [r EXCEPT !.key = issued']]
        /\ UNCHANGED <<held, lost, billingVars, ledgerVars>>
    BY <1>0, <1>2, <1>3, <1>4 DEF Rotate, StoreAndSend, AccountTypes
  <2>2. PICK n \in Nat : n = issued' /\ n # 0  BY <1>0, <2>1 DEF AccountTypes
  <2> DEFINE row == [r EXCEPT !.key = n]
  <2>3. /\ row \in Rows /\ row.key = n
        /\ row.plan = r.plan /\ row.apiCallsLimit = r.apiCallsLimit
        /\ row.calls = r.calls /\ row.webhookSecret = r.webhookSecret
    BY DEF Rows
  <2>4. customers' = [customers EXCEPT ![c] = row]  BY <2>1, <2>2
  <2> HIDE DEF row
  <2>5. /\ row.plan = customers[c].plan /\ row.apiCallsLimit = customers[c].apiCallsLimit
        /\ row.calls = customers[c].calls
        /\ Replies(s, n) /\ issued' \in Nat
        /\ row.key = customers[c].key \/ (row.key = n /\ n # 0)
        /\ row.webhookSecret \in {customers[c].webhookSecret, n}
    BY <1>3, <2>1, <2>2, <2>3
  <2> QED  BY <1>2, <2>1, <2>3, <2>4, <2>5, SecretStored
<1>5. CASE SetWebhook(s)
  <2>1. /\ issued' = issued + 1 /\ Replies(s, issued')
        /\ customers' = [customers EXCEPT ![c] = [r EXCEPT !.webhookSecret = issued']]
        /\ UNCHANGED <<held, lost, billingVars, ledgerVars>>
    BY <1>0, <1>2, <1>3, <1>5 DEF SetWebhook, StoreAndSend, AccountTypes
  <2>2. PICK n \in Nat : n = issued' /\ n # 0  BY <1>0, <2>1 DEF AccountTypes
  <2> DEFINE row == [r EXCEPT !.webhookSecret = n]
  <2>3. /\ row \in Rows /\ row.webhookSecret = n
        /\ row.plan = r.plan /\ row.apiCallsLimit = r.apiCallsLimit
        /\ row.calls = r.calls /\ row.key = r.key
    BY DEF Rows
  <2>4. customers' = [customers EXCEPT ![c] = row]  BY <2>1, <2>2
  <2> HIDE DEF row
  <2>5. /\ row.plan = customers[c].plan /\ row.apiCallsLimit = customers[c].apiCallsLimit
        /\ row.calls = customers[c].calls
        /\ Replies(s, n) /\ issued' \in Nat
        /\ row.key = customers[c].key \/ (row.key = n /\ n # 0)
        /\ row.webhookSecret \in {customers[c].webhookSecret, n}
    BY <1>3, <2>1, <2>2, <2>3
  <2> QED  BY <1>2, <2>1, <2>3, <2>4, <2>5, SecretStored
<1>6. CASE DropWebhook(s)
  <2>1. /\ issued' = issued /\ Replies(s, 0)
        /\ customers' = [customers EXCEPT ![c].webhookSecret = 0]
        /\ UNCHANGED <<held, lost, billingVars, ledgerVars>>
    BY <1>0, <1>2, <1>6 DEF DropWebhook, secretVars
  <2>2. issued' \in Nat  BY <1>0, <2>1 DEF AccountTypes
  <2>6. PICK n \in Nat : n = 0  OBVIOUS
  <2> DEFINE row == [r EXCEPT !.webhookSecret = 0]
  <2>3. /\ row \in Rows /\ row.webhookSecret = 0
        /\ row.plan = r.plan /\ row.apiCallsLimit = r.apiCallsLimit
        /\ row.calls = r.calls /\ row.key = r.key
    BY DEF Rows
  <2>4. customers' = [customers EXCEPT ![c] = row]
    BY <1>0, <1>3, <2>1, <2>3 DEF AccountTypes
  <2> HIDE DEF row
  <2>5. /\ row.plan = customers[c].plan /\ row.apiCallsLimit = customers[c].apiCallsLimit
        /\ row.calls = customers[c].calls
        /\ Replies(s, n) /\ issued' \in Nat
        /\ row.key = customers[c].key \/ (row.key = n /\ n # 0)
        /\ row.webhookSecret \in {customers[c].webhookSecret, n}
    BY <1>3, <2>1, <2>2, <2>3, <2>6
  <2> QED  BY <1>2, <2>1, <2>3, <2>4, <2>5, SecretStored
<1> QED  BY <1>4, <1>5, <1>6

\* POST /v1/billing/checkout-session and /checkout: one more order, unpaid
LEMMA InvoiceKeeps ==
  ASSUME AccountsInv, NEW s \in Slots, NEW provider \in Providers, Invoice(s, provider)
  PROVE  AccountsInv'
<1> USE DEF secretVars, ledgerVars
<1>0. /\ AccountTypes /\ RequestsInv /\ PlanWasPaid /\ KeyHolderKnows
  BY DEF AccountsInv
<1>1. /\ requests[s] \in Busy /\ requests[s].at = "begun" /\ requests[s].at # "idle"
      /\ requests[s].who \in Customers
  BY <1>0, AtHandler DEF Invoice
<1>2. /\ UNCHANGED <<customers, issued, held, lost, paid, served, uncounted, carried>>
      /\ Replies(s, 0)
  BY DEF Invoice
<1>3. PICK new \in Busy :
           /\ requests' = [requests EXCEPT ![s] = new]
           /\ new.op = requests[s].op /\ new.who = requests[s].who
           /\ new.at = "reply" /\ new.locals.order = requests[s].locals.order
  BY <1>0, <1>1, <1>2, ReplyMoves
<1>4. PICK order \in Orders : orders' = Append(orders, order)
  <2>1. PICK plan \in PLAN_PRICES :
          orders' = Append(orders, [customer |-> requests[s].who, plan |-> plan,
                                    by |-> provider])
    BY DEF Invoice
  <2> QED  BY <1>1, <2>1 DEF Orders
<1>5. /\ orders' \in Seq(Orders) /\ DOMAIN orders \subseteq DOMAIN orders'
      /\ \A n \in DOMAIN orders : orders'[n] = orders[n]
  BY <1>0, <1>4, AppendProperties, LenProperties DEF AccountTypes
<1>6. AccountTypes'  BY <1>0, <1>2, <1>3, <1>5 DEF AccountTypes
<1>7. \A d : PaidPlans(d)' = PaidPlans(d)
  BY <1>0, <1>2, <1>5 DEF PaidPlans, AccountTypes
<1>8. /\ RequestsInv' /\ CountFollowsUse' /\ QuotaOvershoot'
      /\ \A d : UnderWay(d) \subseteq UnderWay(d)'
  <2>1. \A d \in Customers : /\ customers'[d].calls = customers[d].calls
                             /\ Registered(d) => Registered(d)'
                             /\ PaidPlans(d) \subseteq PaidPlans(d)'
    BY <1>2, <1>7 DEF Registered
  <2> QED  BY <1>1, <1>2, <1>3, <1>6, <2>1, HandlerMove
<1>9. PlanWasPaid' /\ KeyHolderKnows'
  BY <1>0, <1>2, <1>7, <1>8 DEF PlanWasPaid, KeyHolderKnows, Registered
<1> QED  BY <1>6, <1>8, <1>9 DEF AccountsInv

\* The postbacks: the plan of the order, which was paid
LEMMA UpgradeKeeps ==
  ASSUME AccountsInv, NEW s \in Slots, NEW provider \in Providers, Upgrade(s, provider)
  PROVE  AccountsInv'
<1> USE DEF secretVars, billingVars, ledgerVars
<1>0. /\ AccountTypes /\ RequestsInv /\ PlanWasPaid /\ KeyHolderKnows
  BY DEF AccountsInv
<1>1. /\ requests[s] \in Busy /\ requests[s].at = "begun" /\ requests[s].at # "idle"
      /\ requests[s].locals.order # 0
  BY <1>0, AtHandler DEF Upgrade
<1>2. requests[s].locals.order \in paid
  <2>1. requests[s] # NoRequest  BY <1>1, Idle
  <2> QED  BY <1>0, <1>1, <2>1 DEF RequestsInv
<1>3. PICK order \in Orders : order = orders[requests[s].locals.order]
  BY <1>0, <1>2, PaidOrders
<1>4. PICK c \in Customers, plan \in Plans : c = order.customer /\ plan = order.plan
  BY Limits DEF Orders
<1>5. plan \in PaidPlans(c)  BY <1>2, <1>3, <1>4 DEF PaidPlans
<1>6. /\ UNCHANGED <<issued, held, lost, orders, paid, served, uncounted, carried>>
      /\ Replies(s, 0)
      /\ customers' = [customers EXCEPT ![c].plan = plan,
                                        ![c].apiCallsLimit = PLAN_CALL_LIMITS[plan]]
  BY <1>3, <1>4 DEF Upgrade
<1>7. PICK new \in Busy :
           /\ requests' = [requests EXCEPT ![s] = new]
           /\ new.op = requests[s].op /\ new.who = requests[s].who
           /\ new.at = "reply" /\ new.locals.order = requests[s].locals.order
  BY <1>0, <1>1, <1>6, ReplyMoves
<1>8. PLAN_CALL_LIMITS[plan] \in Nat /\ PLAN_CALL_LIMITS[plan] = PLAN_LIMITS[plan]
  BY Limits
<1>9. /\ customers' \in [Customers -> Rows]
      /\ customers'[c].plan = plan /\ customers'[c].apiCallsLimit = PLAN_LIMITS[plan]
      /\ \A d \in Customers : /\ customers'[d].key = customers[d].key
                              /\ customers'[d].calls = customers[d].calls
                              /\ customers'[d].webhookSecret = customers[d].webhookSecret
      /\ \A d \in Customers \ {c} : customers'[d] = customers[d]
  <2>1. customers \in [Customers -> Rows]  BY <1>0 DEF AccountTypes
  <2> QED  BY <1>6, <1>8, <2>1 DEF Rows
<1>10. AccountTypes'  BY <1>0, <1>6, <1>7, <1>9 DEF AccountTypes
<1>11. \A d : PaidPlans(d)' = PaidPlans(d)  BY <1>6 DEF PaidPlans
<1>12. /\ RequestsInv' /\ CountFollowsUse' /\ QuotaOvershoot'
       /\ \A d : UnderWay(d) \subseteq UnderWay(d)'
  <2>1. \A d \in Customers : /\ customers'[d].calls = customers[d].calls
                             /\ Registered(d) => Registered(d)'
                             /\ PaidPlans(d) \subseteq PaidPlans(d)'
    BY <1>9, <1>11 DEF Registered
  <2> QED  BY <1>1, <1>6, <1>7, <1>10, <2>1, HandlerMove
<1>13. PlanWasPaid'
  <2>1. \A d \in Customers \ {c} : Registered(d)' =>
          /\ customers'[d].plan \in {"free"} \cup PaidPlans(d)'
          /\ customers'[d].apiCallsLimit = PLAN_LIMITS[customers'[d].plan]
    BY <1>0, <1>9, <1>11 DEF PlanWasPaid, Registered
  <2>2. /\ customers'[c].plan \in {"free"} \cup PaidPlans(c)'
        /\ customers'[c].apiCallsLimit = PLAN_LIMITS[customers'[c].plan]
    BY <1>5, <1>9, <1>11
  <2> QED  BY <2>1, <2>2 DEF PlanWasPaid
<1>14. KeyHolderKnows'
  BY <1>0, <1>6, <1>9, <1>12 DEF KeyHolderKnows
<1> QED  BY <1>10, <1>12, <1>13, <1>14 DEF AccountsInv

\* What is waiting to be counted, when one request comes to it or leaves it.
LEMMA WaitingMoves ==
  ASSUME AccountTypes, NEW s \in Slots, NEW new \in {NoRequest} \cup Busy,
         requests' = [requests EXCEPT ![s] = new], NEW c \in Customers
  PROVE  /\ Waiting(c) \in Nat /\ Waiting(c)' \in Nat
         /\ requests[s].at # "count" /\ new.at = "count" /\ new.who = c
              => Waiting(c)' = Waiting(c) + 1
         /\ requests[s].at = "count" /\ requests[s].who = c /\ new.at # "count"
              => Waiting(c)' = Waiting(c) - 1
         /\ requests[s].who # c /\ new.who # c => Waiting(c)' = Waiting(c)
<1>1. /\ requests'[s] = new /\ \A t \in Slots \ {s} : requests'[t] = requests[t]
  BY DEF AccountTypes
<1>2. /\ Counting(c) \subseteq Slots /\ Counting(c)' \subseteq Slots
      /\ Waiting(c) = Cardinality(Counting(c))
      /\ Waiting(c)' = Cardinality(Counting(c)')
  BY DEF Counting, Waiting
<1>3. Waiting(c) \in Nat /\ Waiting(c)' \in Nat  BY <1>2, CountedSlots
<1>4. ASSUME requests[s].at # "count", new.at = "count", new.who = c
      PROVE  Waiting(c)' = Waiting(c) + 1
  <2>1. Counting(c)' = Counting(c) \cup {s} /\ s \in Slots \ Counting(c)
    BY <1>1, <1>4 DEF Counting
  <2> QED  BY <1>2, <2>1, CountedSlots
<1>5. ASSUME requests[s].at = "count", requests[s].who = c, new.at # "count"
      PROVE  Waiting(c)' = Waiting(c) - 1
  <2>1. Counting(c)' = Counting(c) \ {s} /\ s \in Counting(c)
    BY <1>1, <1>5 DEF Counting
  <2> QED  BY <1>2, <2>1, CountedSlots
<1>6. ASSUME requests[s].who # c, new.who # c
      PROVE  Waiting(c)' = Waiting(c)
  <2>1. Counting(c)' = Counting(c)  BY <1>1, <1>6 DEF Counting
  <2> QED  BY <1>2, <2>1
<1> QED  BY <1>3, <1>4, <1>5, <1>6

\* The reply goes out: a secret it carries is received or lost, and a billable
\* one is now waiting to be counted.
LEMMA ReplyKeeps ==
  ASSUME AccountsInv, NEW s \in Slots, Reply(s)
  PROVE  AccountsInv'
<1> USE DEF billingVars
<1>0. /\ AccountTypes /\ RequestsInv /\ PlanWasPaid /\ KeyHolderKnows
      /\ CountFollowsUse /\ QuotaOvershoot
  BY DEF AccountsInv
<1>1. requests[s] \in Busy /\ requests[s].at = "reply" /\ requests[s].at # "idle"
  BY <1>0, Idle DEF Reply, AccountTypes
<1>2. PICK c \in Customers, l \in [seen : Nat, secret : Nat, order : Nat] :
        c = requests[s].who /\ l = requests[s].locals
  BY <1>1 DEF Busy
<1>3. PICK secret \in Nat : secret = l.secret  OBVIOUS
<1>4. UNCHANGED <<customers, issued, orders, paid, uncounted, carried>>
  BY DEF Reply
<1>5. /\ held' \in [Customers -> SUBSET Nat] /\ lost' \in [Customers -> SUBSET Nat]
      /\ secret # 0 => secret \in held'[c] \cup lost'[c]
      /\ \A d \in Customers : held[d] \subseteq held'[d] /\ lost[d] \subseteq lost'[d]
  <2>1. CASE secret = 0
    BY <1>0, <1>2, <1>3, <2>1 DEF Reply, AccountTypes
  <2>2. CASE secret # 0 /\ held' = [held EXCEPT ![c] = @ \cup {secret}] /\ lost' = lost
    BY <1>0, <2>2 DEF AccountTypes
  <2>3. CASE secret # 0 /\ lost' = [lost EXCEPT ![c] = @ \cup {secret}] /\ held' = held
    BY <1>0, <2>3 DEF AccountTypes
  <2> QED  BY <1>2, <1>3, <2>1, <2>2, <2>3 DEF Reply
<1>6. PICK new \in {NoRequest} \cup Busy :
        /\ requests' = [requests EXCEPT ![s] = new]
        /\ \/ /\ Counted(requests[s]) /\ new.at = "count" /\ new \in Busy
              /\ new.op = requests[s].op /\ new.who = c
              /\ new.locals.order = requests[s].locals.order
              /\ served' = [served EXCEPT ![c] = @ + 1]
           \/ new = NoRequest /\ served' = served
  <2>1. CASE Counted(requests[s])
    <3>1. Continues(s, "count", requests[s].locals)
          /\ served' = [served EXCEPT ![c] = @ + 1]
      BY <1>2, <2>1 DEF Reply
    <3> DEFINE r == [op |-> requests[s].op, at |-> "count", who |-> requests[s].who,
                     locals |-> requests[s].locals]
    <3>2. r \in Busy  BY <1>1 DEF Busy
    <3>3. requests' = [requests EXCEPT ![s] = r]
      BY <1>0, <3>1 DEF Continues, AccountTypes
    <3>4. /\ r.op = requests[s].op /\ r.who = c /\ r.at = "count"
          /\ r.locals.order = requests[s].locals.order
      BY <1>2
    <3> HIDE DEF r
    <3> QED  BY <2>1, <3>1, <3>2, <3>3, <3>4
  <2>2. CASE ~Counted(requests[s])
    BY <2>2 DEF Reply, Ends
  <2> QED  BY <2>1, <2>2
<1>7. AccountTypes'
  <2>1. served' \in [Customers -> Nat]  BY <1>0, <1>6 DEF AccountTypes
  <2> QED  BY <1>0, <1>4, <1>5, <1>6, <2>1 DEF AccountTypes
<1>8. \A d : PaidPlans(d)' = PaidPlans(d)  BY <1>4 DEF PaidPlans
<1>9. PlanWasPaid'  BY <1>0, <1>4, <1>8 DEF PlanWasPaid, Registered
<1>10. \A t \in Slots : requests'[t] = IF t = s THEN new ELSE requests[t]
  BY <1>0, <1>6 DEF AccountTypes
<1>11. RequestsInv'
  <2>1. requests[s] # NoRequest  BY <1>1, Idle
  <2>2. \A t \in Slots \ {s} : requests'[t] # NoRequest =>
         /\ requests'[t].op # "register" => Registered(requests'[t].who)
         /\ requests'[t].at = "count" => requests'[t].op # "register"
         /\ requests'[t].locals.order # 0 => requests'[t].locals.order \in paid
    BY <1>0, <1>10 DEF RequestsInv
  <2>3. new # NoRequest =>
         /\ new.op # "register" => Registered(new.who)
         /\ new.at = "count" => new.op # "register"
         /\ new.locals.order # 0 => new.locals.order \in paid
    BY <1>0, <1>2, <1>6, <2>1 DEF RequestsInv, Counted
  <2>4. \A t \in Slots : requests'[t] # NoRequest =>
         /\ requests'[t].op # "register" => Registered(requests'[t].who)
         /\ requests'[t].at = "count" => requests'[t].op # "register"
         /\ requests'[t].locals.order # 0 => requests'[t].locals.order \in paid
    BY <1>10, <2>2, <2>3
  <2> QED  BY <1>0, <1>4, <2>4 DEF RequestsInv, Registered
<1>12. KeyHolderKnows'
  <2>1. ASSUME NEW d \in Customers, NEW x \in UnderWay(d), x # 0
        PROVE  x \in held'[d] \cup lost'[d] \cup UnderWay(d)'
    <3>1. PICK t \in Slots : /\ requests[t].at = "reply" /\ requests[t].who = d
                             /\ x = requests[t].locals.secret
      BY <2>1 DEF UnderWay
    <3>2. CASE t = s  BY <1>2, <1>3, <1>5, <2>1, <3>1, <3>2
    <3>3. CASE t # s
      <4>1. requests'[t] = requests[t]  BY <1>10, <3>3
      <4> QED  BY <3>1, <4>1 DEF UnderWay
    <3> QED  BY <3>2, <3>3
  <2>2. ASSUME NEW d \in Customers, NEW x, x \in held[d] \cup lost[d] \cup UnderWay(d), x # 0
        PROVE  x \in held'[d] \cup lost'[d] \cup UnderWay(d)'
    BY <1>5, <2>1, <2>2
  <2>3. ASSUME NEW d \in Customers,
               NEW x \in {customers[d].key, customers[d].webhookSecret} \ {0}
        PROVE  x \in held'[d] \cup lost'[d] \cup UnderWay(d)'
    BY <1>0, <2>2, <2>3 DEF KeyHolderKnows
  <2> QED  BY <1>4, <2>3 DEF KeyHolderKnows
<1>13. CountFollowsUse'
  <2>1. ASSUME NEW d \in Customers
        PROVE  customers'[d].calls + uncounted'[d] + Waiting(d)' = served'[d] + carried'[d]
    <3>1. customers[d].calls + uncounted[d] + Waiting(d) = served[d] + carried[d]
      BY <1>0 DEF CountFollowsUse
    <3>2. /\ customers[d].calls \in Nat /\ uncounted[d] \in Nat /\ served[d] \in Nat
          /\ carried[d] \in Nat
      BY <1>0 DEF AccountTypes, Rows
    <3>3. Waiting(d) \in Nat /\ Waiting(d)' \in Nat  BY <1>0, <1>6, WaitingMoves
    <3>4. CASE new = NoRequest
      <4>1. Waiting(d)' = Waiting(d)  BY <1>0, <1>1, <1>6, <3>4, Idle, Move
      <4>2. served' = served  BY <1>6, <3>4, Idle
      <4> QED  BY <1>4, <3>1, <4>1, <4>2
    <3>5. CASE new # NoRequest /\ d = c
      <4>1. Waiting(d)' = Waiting(d) + 1  BY <1>0, <1>1, <1>6, <3>5, WaitingMoves
      <4>2. served'[d] = served[d] + 1  BY <1>0, <1>6, <3>5 DEF AccountTypes
      <4> QED  BY <1>4, <3>1, <3>2, <3>3, <4>1, <4>2
    <3>6. CASE new # NoRequest /\ d # c
      <4>1. new.who # d /\ requests[s].who # d  BY <1>2, <1>6, <3>6
      <4>2. Waiting(d)' = Waiting(d)  BY <1>0, <1>6, <4>1, WaitingMoves
      <4>3. served'[d] = served[d]  BY <1>0, <1>6, <3>6 DEF AccountTypes
      <4> QED  BY <1>4, <3>1, <4>2, <4>3
    <3> QED  BY <3>4, <3>5, <3>6
  <2> QED  BY <2>1 DEF CountFollowsUse
<1>14. QuotaOvershoot'
  <2>1. ASSUME NEW d \in Customers
        PROVE  \E plan \in {"free"} \cup PaidPlans(d)' :
                 customers'[d].calls + Cardinality(Open(d)')
                   <= PLAN_LIMITS[plan] + Cardinality(Slots) - 1
    <3>1. Open(d)' \subseteq Open(d)
      <4>1. CASE new = NoRequest  BY <1>0, <1>6, <4>1, Idle, Move
      <4>2. CASE new # NoRequest  BY <1>0, <1>2, <1>6, <4>2, Move
      <4> QED  BY <4>1, <4>2
    <3>2. Open(d) \subseteq Slots  BY DEF Open
    <3>3. /\ Cardinality(Open(d)') <= Cardinality(Open(d))
          /\ Cardinality(Open(d)') \in Nat /\ Cardinality(Open(d)) \in Nat
      BY <3>1, <3>2, CountedSlots
    <3>4. customers[d].calls \in Nat  BY <1>0 DEF AccountTypes, Rows
    <3>5. customers'[d].calls + Cardinality(Open(d)')
            <= customers[d].calls + Cardinality(Open(d))
      BY <1>4, <3>3, <3>4
    <3> QED  BY <1>0, <1>7, <1>8, <3>5, NoFurther
  <2> QED  BY <2>1 DEF QuotaOvershoot
<1> QED  BY <1>7, <1>9, <1>11, <1>12, <1>13, <1>14 DEF AccountsInv

\* The count: one more call, or one more that was never counted.
LEMMA CountKeeps ==
  ASSUME AccountsInv, NEW s \in Slots, CountAuthedCall(s)
  PROVE  AccountsInv'
<1> USE DEF billingVars, secretVars
<1>0. /\ AccountTypes /\ RequestsInv /\ PlanWasPaid /\ KeyHolderKnows
      /\ CountFollowsUse /\ QuotaOvershoot
  BY DEF AccountsInv
<1>1. /\ requests[s] \in Busy /\ requests[s].at = "count" /\ requests[s].op # "register"
      /\ requests' = [requests EXCEPT ![s] = NoRequest]
      /\ UNCHANGED <<issued, held, lost, orders, paid, served, carried>>
  <2>1. requests[s] # NoRequest  BY Idle DEF CountAuthedCall
  <2> QED  BY <1>0, <2>1 DEF CountAuthedCall, Ends, AccountTypes, RequestsInv
<1>2. PICK c \in Customers : c = requests[s].who  BY <1>1 DEF Busy
<1>3. PICK r \in Rows : r = customers[c]  BY <1>0 DEF AccountTypes
<1>4. Registered(c)
  <2>1. requests[s] # NoRequest  BY <1>1, Idle
  <2> QED  BY <1>0, <1>1, <1>2, <2>1 DEF RequestsInv
<1>5. /\ customers' \in [Customers -> Rows] /\ uncounted' \in [Customers -> Nat]
      /\ \A d \in Customers : /\ customers'[d].key = customers[d].key
                              /\ customers'[d].plan = customers[d].plan
                              /\ customers'[d].apiCallsLimit = customers[d].apiCallsLimit
                              /\ customers'[d].webhookSecret = customers[d].webhookSecret
      /\ \A d \in Customers \ {c} : /\ customers'[d] = customers[d]
                                    /\ uncounted'[d] = uncounted[d]
      /\ customers'[c].calls <= customers[c].calls + 1
      /\ customers'[c].calls + uncounted'[c] = customers[c].calls + uncounted[c] + 1
  <2> DEFINE row == [r EXCEPT !.calls = @ + 1]
  <2>1. /\ row \in Rows /\ row.key = r.key /\ row.plan = r.plan
        /\ row.apiCallsLimit = r.apiCallsLimit /\ row.webhookSecret = r.webhookSecret
        /\ row.calls = r.calls + 1
    BY DEF Rows
  <2>2. r.calls \in Nat /\ uncounted[c] \in Nat  BY <1>0 DEF AccountTypes, Rows
  <2>3. CASE customers' = [customers EXCEPT ![c] = row] /\ UNCHANGED uncounted
    <3> HIDE DEF row
    <3>1. customers'[c] = row /\ \A d \in Customers \ {c} : customers'[d] = customers[d]
      BY <1>0, <2>3 DEF AccountTypes
    <3>2. customers' \in [Customers -> Rows]  BY <1>0, <2>1, <2>3 DEF AccountTypes
    <3>3. uncounted' \in [Customers -> Nat]  BY <1>0, <2>3 DEF AccountTypes
    <3>4. /\ customers'[c].calls <= customers[c].calls + 1
          /\ customers'[c].calls + uncounted'[c] = customers[c].calls + uncounted[c] + 1
      BY <1>3, <2>1, <2>2, <2>3, <3>1
    <3>5. \A d \in Customers : /\ customers'[d].key = customers[d].key
                               /\ customers'[d].plan = customers[d].plan
                               /\ customers'[d].apiCallsLimit = customers[d].apiCallsLimit
                               /\ customers'[d].webhookSecret = customers[d].webhookSecret
      BY <1>3, <2>1, <3>1
    <3> QED  BY <2>3, <3>1, <3>2, <3>3, <3>4, <3>5
  <2>4. CASE uncounted' = [uncounted EXCEPT ![c] = @ + 1] /\ UNCHANGED customers
    <3>1. customers' \in [Customers -> Rows] /\ uncounted' \in [Customers -> Nat]
      BY <1>0, <2>4 DEF AccountTypes
    <3>2. /\ uncounted'[c] = uncounted[c] + 1
          /\ \A d \in Customers \ {c} : uncounted'[d] = uncounted[d]
      BY <1>0, <2>4 DEF AccountTypes
    <3>3. /\ customers'[c].calls <= customers[c].calls + 1
          /\ customers'[c].calls + uncounted'[c] = customers[c].calls + uncounted[c] + 1
      BY <1>3, <2>2, <2>4, <3>2
    <3> QED  BY <2>4, <3>1, <3>2, <3>3
  <2> QED  BY <1>2, <1>3, <2>3, <2>4 DEF CountAuthedCall, Increment
<1>6. AccountTypes'  BY <1>0, <1>1, <1>5 DEF AccountTypes
<1>7. \A d : PaidPlans(d)' = PaidPlans(d)  BY <1>1 DEF PaidPlans
<1>8. PlanWasPaid'  BY <1>0, <1>5, <1>7 DEF PlanWasPaid, Registered
<1>9. \A t \in Slots : requests'[t] = IF t = s THEN NoRequest ELSE requests[t]
  BY <1>0, <1>1 DEF AccountTypes
<1>10. RequestsInv'
  <2>1. \A t \in Slots : requests'[t] # NoRequest =>
         /\ requests'[t].op # "register" => customers[requests'[t].who].key # 0
         /\ requests'[t].at = "count" => requests'[t].op # "register"
         /\ requests'[t].locals.order # 0 => requests'[t].locals.order \in paid
         /\ requests'[t].who \in Customers
    BY <1>0, <1>9 DEF RequestsInv, Registered, AccountTypes, Busy
  <2>2. \A d \in Customers : customers'[d].key = 0 => customers'[d].calls = 0
    BY <1>0, <1>4, <1>5 DEF RequestsInv, Registered
  <2> QED  BY <1>1, <1>5, <2>1, <2>2 DEF RequestsInv, Registered
<1>11. KeyHolderKnows'
  <2>1. \A d : UnderWay(d) \subseteq UnderWay(d)'  BY <1>0, <1>1, Move
  <2> QED  BY <1>0, <1>1, <1>5, <2>1 DEF KeyHolderKnows
<1>12. CountFollowsUse'
  <2>1. ASSUME NEW d \in Customers
        PROVE  customers'[d].calls + uncounted'[d] + Waiting(d)' = served'[d] + carried'[d]
    <3>1. customers[d].calls + uncounted[d] + Waiting(d) = served[d] + carried[d]
      BY <1>0 DEF CountFollowsUse
    <3>2. Waiting(d) \in Nat /\ Waiting(d)' \in Nat  BY <1>0, <1>1, WaitingMoves
    <3>3. /\ customers[d].calls \in Nat /\ uncounted[d] \in Nat
          /\ customers'[d].calls \in Nat /\ uncounted'[d] \in Nat
      BY <1>0, <1>6 DEF AccountTypes, Rows
    <3>4. CASE d = c
      <4>1. Waiting(d)' = Waiting(d) - 1  BY <1>0, <1>1, <1>2, <3>4, Idle, WaitingMoves
      <4> QED  BY <1>1, <1>5, <3>1, <3>2, <3>3, <3>4, <4>1
    <3>5. CASE d # c
      <4>1. NoRequest.who # d  BY Idle
      <4>2. Waiting(d)' = Waiting(d)  BY <1>0, <1>1, <1>2, <3>5, <4>1, WaitingMoves
      <4> QED  BY <1>1, <1>5, <3>1, <3>5, <4>2
    <3> QED  BY <3>4, <3>5
  <2> QED  BY <2>1 DEF CountFollowsUse
<1>13. QuotaOvershoot'
  <2>1. ASSUME NEW d \in Customers
        PROVE  \E plan \in {"free"} \cup PaidPlans(d)' :
                 customers'[d].calls + Cardinality(Open(d)')
                   <= PLAN_LIMITS[plan] + Cardinality(Slots) - 1
    <3>1. Open(d) \subseteq Slots  BY DEF Open
    <3>2. customers[d].calls \in Nat /\ customers'[d].calls \in Nat
      BY <1>0, <1>6 DEF AccountTypes, Rows
    <3>3. Open(d)' = Open(d) \ {s}  BY <1>9, Idle DEF Open
    <3>4. /\ Cardinality(Open(d)) \in Nat /\ Cardinality(Open(d)') \in Nat
          /\ Cardinality(Open(d)') <= Cardinality(Open(d))
      BY <3>1, <3>3, CountedSlots
    <3>5. CASE d = c
      <4>1. s \in Open(d)  BY <1>1, <1>2, <3>5 DEF Open
      <4>2. Cardinality(Open(d)') = Cardinality(Open(d)) - 1
        BY <3>1, <3>3, <4>1, CountedSlots
      <4>3. customers'[d].calls + Cardinality(Open(d)')
              <= customers[d].calls + Cardinality(Open(d))
        BY <1>5, <3>2, <3>4, <3>5, <4>2
      <4> QED  BY <1>0, <1>6, <1>7, <4>3, NoFurther
    <3>6. CASE d # c
      <4>1. customers'[d].calls + Cardinality(Open(d)')
              <= customers[d].calls + Cardinality(Open(d))
        BY <1>5, <3>2, <3>4, <3>6
      <4> QED  BY <1>0, <1>6, <1>7, <4>1, NoFurther
    <3> QED  BY <3>5, <3>6
  <2> QED  BY <2>1 DEF QuotaOvershoot
<1> QED  BY <1>6, <1>8, <1>10, <1>11, <1>12, <1>13 DEF AccountsInv

\* No slot is busy, nothing waits and no reply is under way.
LEMMA NothingInProgress ==
  ASSUME requests' = [t \in Slots |-> NoRequest], NEW c \in Customers
  PROVE  /\ requests' \in [Slots -> {NoRequest} \cup Busy]
         /\ \A t \in Slots : requests'[t] = NoRequest
         /\ Waiting(c)' = 0 /\ Cardinality(Open(c)') = 0 /\ UnderWay(c)' = {}
<1>1. /\ requests' \in [Slots -> {NoRequest} \cup Busy]
      /\ \A t \in Slots : requests'[t] = NoRequest
  OBVIOUS
<1>2. Counting(c)' = {} /\ Open(c)' = {} /\ UnderWay(c)' = {}
  BY <1>1, Idle DEF Counting, Open, UnderWay
<1>3. Waiting(c)' = Cardinality(Counting(c)')  BY DEF Waiting, Counting
<1> QED  BY <1>1, <1>2, <1>3, FS_EmptySet

\* The process dies: the replies under way are lost, and what waited to be
\* counted never will be.
LEMMA RestartKeeps ==
  ASSUME AccountsInv, RestartApi
  PROVE  AccountsInv'
<1> USE DEF billingVars
<1>0. /\ AccountTypes /\ RequestsInv /\ PlanWasPaid /\ KeyHolderKnows
      /\ CountFollowsUse /\ QuotaOvershoot
  BY DEF AccountsInv
<1>1. /\ requests' = [t \in Slots |-> NoRequest]
      /\ uncounted' = [c \in Customers |-> uncounted[c] + Waiting(c)]
      /\ lost' = [c \in Customers |-> lost[c] \cup (UnderWay(c) \ {0})]
      /\ UNCHANGED <<customers, issued, held, orders, paid, served, carried>>
  BY DEF RestartApi, AllLost
<1>2. \A c \in Customers : Waiting(c) \in Nat
  <2>1. \A c \in Customers : Counting(c) \subseteq Slots
                              /\ Waiting(c) = Cardinality(Counting(c))
    BY DEF Counting, Waiting
  <2> QED  BY <2>1, CountedSlots
<1>3. \A c \in Customers : UnderWay(c) \subseteq Nat
  <2>1. \A t \in Slots : requests[t].at = "reply" => requests[t].locals.secret \in Nat
    BY <1>0, Idle DEF AccountTypes, Busy
  <2> QED  BY <2>1 DEF UnderWay
<1>4. requests' \in [Slots -> {NoRequest} \cup Busy]
      /\ \A t \in Slots : requests'[t] = NoRequest
  BY <1>1
<1>5. AccountTypes'
  <2>1. uncounted' \in [Customers -> Nat]  BY <1>0, <1>1, <1>2 DEF AccountTypes
  <2>2. lost' \in [Customers -> SUBSET Nat]  BY <1>0, <1>1, <1>3 DEF AccountTypes
  <2> QED  BY <1>0, <1>1, <1>4, <2>1, <2>2 DEF AccountTypes
<1>6. RequestsInv'  BY <1>0, <1>1, <1>4 DEF RequestsInv, Registered
<1>7. \A c : PaidPlans(c)' = PaidPlans(c)  BY <1>1 DEF PaidPlans
<1>8. PlanWasPaid'  BY <1>0, <1>1, <1>7 DEF PlanWasPaid, Registered
<1>9. KeyHolderKnows'  BY <1>0, <1>1 DEF KeyHolderKnows
<1>10. CountFollowsUse'
  <2>1. ASSUME NEW c \in Customers
        PROVE  customers'[c].calls + uncounted'[c] + Waiting(c)' = served'[c] + carried'[c]
    <3>1. customers[c].calls + uncounted[c] + Waiting(c) = served[c] + carried[c]
      BY <1>0 DEF CountFollowsUse
    <3>2. Waiting(c)' = 0 /\ uncounted'[c] = uncounted[c] + Waiting(c)
      BY <1>1, NothingInProgress
    <3>3. customers[c].calls \in Nat /\ uncounted[c] \in Nat
      BY <1>0 DEF AccountTypes, Rows
    <3> QED  BY <1>1, <1>2, <3>1, <3>2, <3>3
  <2> QED  BY <2>1 DEF CountFollowsUse
<1>11. QuotaOvershoot'
  <2>1. ASSUME NEW c \in Customers
        PROVE  \E plan \in {"free"} \cup PaidPlans(c)' :
                 customers'[c].calls + Cardinality(Open(c)')
                   <= PLAN_LIMITS[plan] + Cardinality(Slots) - 1
    <3>1. Cardinality(Open(c)') = 0  BY <1>1, NothingInProgress
    <3>2. Open(c) \subseteq Slots  BY DEF Open
    <3>3. Cardinality(Open(c)) \in Nat  BY <3>2, CountedSlots
    <3>4. customers[c].calls \in Nat  BY <1>0 DEF AccountTypes, Rows
    <3>5. customers'[c].calls + Cardinality(Open(c)')
            <= customers[c].calls + Cardinality(Open(c))
      BY <1>1, <3>1, <3>3, <3>4
    <3> QED  BY <1>0, <1>5, <1>7, <3>5, NoFurther
  <2> QED  BY <2>1 DEF QuotaOvershoot
<1> QED  BY <1>5, <1>6, <1>8, <1>9, <1>10, <1>11 DEF AccountsInv

\* The job that resets the quota: nobody has used any of it.
LEMMA ResetKeeps ==
  ASSUME AccountsInv, ResetMonthlyQuota
  PROVE  AccountsInv'
<1> USE DEF billingVars, secretVars
<1>0. /\ AccountTypes /\ RequestsInv /\ PlanWasPaid /\ KeyHolderKnows
      /\ CountFollowsUse /\ QuotaOvershoot
  BY DEF AccountsInv
<1>1. /\ customers' = [c \in Customers |-> [customers[c] EXCEPT !.calls = 0]]
      /\ served' = [c \in Customers |-> 0] /\ uncounted' = [c \in Customers |-> 0]
      /\ carried' = [c \in Customers |-> Waiting(c)]
      /\ UNCHANGED <<requests, issued, held, lost, orders, paid>>
  BY DEF ResetMonthlyQuota
<1>2. ASSUME NEW c \in Customers
      PROVE  /\ customers'[c] \in Rows /\ customers'[c].calls = 0
             /\ customers'[c].key = customers[c].key
             /\ customers'[c].plan = customers[c].plan
             /\ customers'[c].apiCallsLimit = customers[c].apiCallsLimit
             /\ customers'[c].webhookSecret = customers[c].webhookSecret
             /\ Waiting(c) \in Nat
  <2>1. customers[c] \in Rows /\ customers'[c] = [customers[c] EXCEPT !.calls = 0]
    BY <1>0, <1>1 DEF AccountTypes
  <2>2. Counting(c) \subseteq Slots /\ Waiting(c) = Cardinality(Counting(c))
    BY DEF Counting, Waiting
  <2>3. Waiting(c) \in Nat  BY <2>2, CountedSlots
  <2> QED  BY <2>1, <2>3 DEF Rows
<1>3. AccountTypes'
  <2>1. customers' \in [Customers -> Rows]  BY <1>1, <1>2
  <2>2. /\ served' \in [Customers -> Nat] /\ uncounted' \in [Customers -> Nat]
        /\ carried' \in [Customers -> Nat]
    BY <1>1, <1>2
  <2> QED  BY <1>0, <1>1, <2>1, <2>2 DEF AccountTypes
<1>4. RequestsInv'
  <2>1. \A t \in Slots : requests[t] # NoRequest => requests[t].who \in Customers
    BY <1>0 DEF AccountTypes, Busy
  <2> QED  BY <1>0, <1>1, <1>2, <2>1 DEF RequestsInv, Registered
<1>5. \A c : /\ PaidPlans(c)' = PaidPlans(c) /\ UnderWay(c)' = UnderWay(c)
             /\ Waiting(c)' = Waiting(c)
  BY <1>1 DEF PaidPlans, UnderWay, Waiting
<1>6. PlanWasPaid' /\ KeyHolderKnows'
  BY <1>0, <1>1, <1>2, <1>5 DEF PlanWasPaid, KeyHolderKnows, Registered
<1>7. CountFollowsUse'  BY <1>1, <1>2, <1>5 DEF CountFollowsUse
<1>8. QuotaOvershoot'
  <2>1. ASSUME NEW c \in Customers
        PROVE  \E plan \in {"free"} \cup PaidPlans(c)' :
                 customers'[c].calls + Cardinality(Open(c)')
                   <= PLAN_LIMITS[plan] + Cardinality(Slots) - 1
    <3>1. customers'[c].calls < PLAN_LIMITS["free"]  BY <1>2, Limits
    <3> QED  BY <1>0, <1>3, <3>1, Limits, Room
  <2> QED  BY <2>1 DEF QuotaOvershoot
<1> QED  BY <1>3, <1>4, <1>6, <1>7, <1>8 DEF AccountsInv

----------------------------------------------------------------------------
(* The invariant.                                                          *)

\* At first there is at most one customer, that knows its key.
LEMMA AccountsStart == AccountsInit => AccountsInv
<1> SUFFICES ASSUME AccountsInit PROVE AccountsInv  OBVIOUS
<1>1. PICK existing \in {{}} \cup {{c} : c \in Customers}, calls \in StartCalls :
        /\ customers = [c \in Customers |-> IF c \in existing
                          THEN [NewRow(1) EXCEPT !.calls = calls] ELSE NoRow]
        /\ held = [c \in Customers |-> IF c \in existing THEN {1} ELSE {}]
        /\ carried = [c \in Customers |-> IF c \in existing THEN calls ELSE 0]
  BY DEF AccountsInit
<1>2. /\ requests = [s \in Slots |-> NoRequest] /\ issued = 1
      /\ lost = [c \in Customers |-> {}] /\ orders = << >> /\ paid = {}
      /\ served = [c \in Customers |-> 0] /\ uncounted = [c \in Customers |-> 0]
  BY DEF AccountsInit
<1>3. Cardinality(Slots) \in Nat /\ Cardinality(Slots) # 0
  BY RequestsAssumption, AccountsAssumption, FS_CardinalityType, FS_EmptySet
<1>4. calls \in Nat /\ calls <= 100 + Cardinality(Slots) - 1
  BY <1>1, <1>3, AccountsAssumption, Limits
<1>5. ASSUME NEW c \in Customers
      PROVE  /\ customers[c] \in Rows /\ customers[c].plan = "free"
             /\ customers[c].webhookSecret = 0
             /\ c \in existing => /\ customers[c].key = 1 /\ customers[c].calls = calls
                                  /\ customers[c].apiCallsLimit = 100
             /\ c \notin existing => customers[c].key = 0 /\ customers[c].calls = 0
  BY <1>1, <1>4 DEF NewRow, NoRow, Rows, Plans
<1>6. AccountTypes
  <2>1. customers \in [Customers -> Rows]  BY <1>1, <1>5
  <2>2. held \in [Customers -> SUBSET Nat] /\ carried \in [Customers -> Nat]
    BY <1>1, <1>4
  <2>3. orders \in Seq(Orders)  BY <1>2, EmptySeq
  <2> QED  BY <1>2, <2>1, <2>2, <2>3 DEF AccountTypes
<1>7. RequestsInv  BY <1>2, <1>5 DEF RequestsInv, Registered
<1>8. PlanWasPaid  BY <1>5, Limits DEF PlanWasPaid, Registered
<1>9. KeyHolderKnows  BY <1>1, <1>2, <1>5 DEF KeyHolderKnows
<1>10. \A s \in Slots : requests[s] = NoRequest  BY <1>2
<1>11. ASSUME NEW c \in Customers
       PROVE  Waiting(c) = 0 /\ Cardinality(Open(c)) = 0
  <2>1. Counting(c) = {} /\ Open(c) = {}  BY <1>10, Idle DEF Counting, Open
  <2>2. Waiting(c) = Cardinality(Counting(c))  BY DEF Waiting, Counting
  <2> QED  BY <2>1, <2>2, FS_EmptySet
<1>12. CountFollowsUse
  BY <1>1, <1>2, <1>4, <1>5, <1>11 DEF CountFollowsUse
<1>13. ASSUME NEW c \in Customers
       PROVE  customers[c].calls + Cardinality(Open(c))
                <= PLAN_LIMITS["free"] + Cardinality(Slots) - 1
  BY <1>3, <1>4, <1>5, <1>11, Limits
<1> QED
  BY <1>6, <1>7, <1>8, <1>9, <1>12, <1>13 DEF AccountsInv, QuotaOvershoot

\* The invariant is inductive: one case for each action.
LEMMA AccountsStep ==
  ASSUME AccountsInv, [AccountsNext]_accountVars
  PROVE  AccountsInv'
<1>1. ASSUME NEW s \in Slots, Rotate(s) \/ SetWebhook(s) \/ DropWebhook(s)
      PROVE  AccountsInv'
  BY <1>1, SecretsKeep
<1>2. ASSUME NEW s \in Slots,
             CheckoutSession(s) \/ Checkout(s) \/ StripeWebhook(s) \/ AtlosIpn(s)
      PROVE  AccountsInv'
  <2>1. "stripe" \in Providers /\ "atlos" \in Providers  BY DEF Providers
  <2> QED
    BY <1>2, <2>1, InvoiceKeeps, UpgradeKeeps
       DEF CheckoutSession, Checkout, StripeWebhook, AtlosIpn
<1>3. ASSUME NEW n \in 1..MaxOrders, Pay(n)
      PROVE  AccountsInv'
  <2>1. paid \subseteq paid' /\ paid' \subseteq DOMAIN orders
    BY <1>3 DEF Pay, AccountsInv, AccountTypes
  <2> QED  BY <1>3, <2>1, NobodyMoves DEF Pay, secretVars, ledgerVars
<1>4. CASE UNCHANGED accountVars
  <2>1. paid \subseteq paid' /\ paid' \subseteq DOMAIN orders
    BY <1>4 DEF accountVars, tableVars, billingVars, AccountsInv, AccountTypes
  <2> QED
    BY <1>4, <2>1, NobodyMoves
       DEF accountVars, tableVars, secretVars, billingVars, ledgerVars
<1> QED
  BY <1>1, <1>2, <1>3, <1>4, QuietActions, RegisterInsertKeeps, ReplyKeeps, CountKeeps,
     RestartKeeps, ResetKeeps
     DEF AccountsNext

\* Whatever requests, payments, postbacks, crashes and resets come in what
\* order: the invariant holds (auth.ts, billing.ts, reset-monthly-quota.ts).
THEOREM AccountsInvariance == AccountsSpec => []AccountsInv
<1>1. AccountsInit => AccountsInv  BY AccountsStart
<1>2. AccountsInv /\ [AccountsNext]_accountVars => AccountsInv'  BY AccountsStep
<1> QED  BY <1>1, <1>2, PTL DEF AccountsSpec

\* A customer gets past the limit of the best plan it ever paid for, but never
\* by as many calls as the API takes at once (auth.ts:90, 167).
THEOREM NeverFarPastTheQuota == AccountsSpec => []QuotaOvershoot
<1>1. AccountsInv => QuotaOvershoot  BY DEF AccountsInv
<1> QED  BY <1>1, AccountsInvariance, PTL

\* A billable reply is counted once, resets included, unless the increment
\* failed or the process died in between (auth.ts:164-171).
THEOREM RepliesAreCountedOnce == AccountsSpec => []CountFollowsUse
<1>1. AccountsInv => CountFollowsUse  BY DEF AccountsInv
<1> QED  BY <1>1, AccountsInvariance, PTL

\* The stored key and webhook secret were sent to their customer, are on the
\* way to it, or were lost on the way (routes/auth.ts:55-65).
THEOREM StoredKeysWereSent == AccountsSpec => []KeyHolderKnows
<1>1. AccountsInv => KeyHolderKnows  BY DEF AccountsInv
<1> QED  BY <1>1, AccountsInvariance, PTL

\* A plan above "free" was paid for, and its limit is the one enforced
\* (billing.ts, services/atlos.ts).
THEOREM PlansWerePaid == AccountsSpec => []PlanWasPaid
<1>1. AccountsInv => PlanWasPaid  BY DEF AccountsInv
<1> QED  BY <1>1, AccountsInvariance, PTL

----------------------------------------------------------------------------
(* The sliding window.                                                     *)

\* What shifting k stamps leaves: the end of the history, and everything
\* before it is out of the window.
LEMMA LiveFacts ==
  ASSUME ThrottleInv, NEW k \in 0 .. Len(timestamps), Shifts(k)
  PROVE  LET dropped == Len(grants) - Len(Live(k)) IN
         /\ Live(k) \in Seq(Nat)
         /\ Len(Live(k)) = Len(timestamps) - k
         /\ Len(Live(k)) \in 0 .. MAX_PER_WINDOW
         /\ dropped \in 0 .. Len(grants)
         /\ \A i \in 1 .. Len(Live(k)) : Live(k)[i] = grants[dropped + i]
         /\ \A i \in 1 .. dropped : millis - grants[i] > WINDOW_MS
<1> DEFINE n == Len(timestamps)
           old == Len(grants) - n
<1>0. MAX_PER_WINDOW \in Nat /\ WINDOW_MS \in Nat  BY ThrottleAssumption
<1>1. /\ timestamps \in Seq(Nat) /\ grants \in Seq(Nat)
      /\ n \in 0 .. MAX_PER_WINDOW /\ Len(grants) \in Nat /\ k \in 0 .. n
      /\ old \in 0 .. Len(grants)
      /\ \A i \in 1 .. n : timestamps[i] = grants[old + i]
      /\ \A i \in 1 .. old : millis - grants[i] > WINDOW_MS
  BY <1>0 DEF ThrottleInv, ThrottleTypeOK, WindowInv
<1>2. /\ Live(k) \in Seq(Nat)
      /\ Len(Live(k)) = n - k
      /\ \A i \in 1 .. (n - k) : Live(k)[i] = timestamps[k + i]
  <2>1. \A i \in (k + 1) .. n : timestamps[i] \in Nat
    BY <1>1, ElementOfSeq
  <2>2. k + 1 \in Int /\ n \in Int  BY <1>1
  <2> HIDE DEF n
  <2>3. /\ SubSeq(timestamps, k + 1, n) \in Seq(Nat)
        /\ Len(SubSeq(timestamps, k + 1, n)) =
             IF k + 1 <= n THEN n - (k + 1) + 1 ELSE 0
        /\ \A i \in 1 .. (n - (k + 1) + 1) :
             SubSeq(timestamps, k + 1, n)[i] = timestamps[k + 1 + i - 1]
    BY <2>1, <2>2, SubSeqProperties
  <2> QED  BY <1>1, <2>3 DEF Live, n
<1>3. \A i \in 1 .. (n - k) : Live(k)[i] = grants[old + k + i]
  BY <1>1, <1>2
<1>4. ASSUME NEW i \in 1 .. (old + k)
      PROVE  millis - grants[i] > WINDOW_MS
  <2>1. CASE i <= old  BY <1>1, <2>1
  <2>2. CASE i > old
    <3>1. i - old \in 1 .. k /\ i - old \in 1 .. n  BY <1>1, <2>2
    <3>2. timestamps[i - old] = grants[i]  BY <1>1, <3>1
    <3>3. millis - timestamps[i - old] > WINDOW_MS  BY <3>1 DEF Shifts
    <3> QED  BY <3>2, <3>3
  <2> QED  BY <1>1, <2>1, <2>2
<1>5. Len(grants) - Len(Live(k)) = old + k  BY <1>1, <1>2
<1> QED  BY <1>0, <1>1, <1>2, <1>3, <1>4, <1>5

\* A call that is let through leaves no window over its budget.
LEMMA AllowKeepsInv ==
  ASSUME ThrottleInv, NEW k \in 0 .. Len(timestamps), Allow(k)
  PROVE  ThrottleInv'
<1> DEFINE live == Live(k)
           dropped == Len(grants) - Len(live)
           m == Len(grants)
<1>0. /\ WINDOW_MS \in Nat /\ MAX_PER_WINDOW \in Nat /\ MAX_PER_WINDOW >= 1
      /\ millis \in Nat /\ millis \in 0 .. LastMs
      /\ grants \in Seq(Nat) /\ m \in Nat
      /\ \A i \in 1 .. m : grants[i] \in Nat /\ grants[i] <= millis
  BY ThrottleAssumption DEF ThrottleInv, ThrottleTypeOK, WindowInv
<1>1. /\ timestamps' = Append(live, millis) /\ grants' = Append(grants, millis)
      /\ verdict' = "allowed" /\ millis' = millis /\ Len(live) < MAX_PER_WINDOW
      /\ Shifts(k)
  BY DEF Allow
<1>2. /\ live \in Seq(Nat) /\ Len(live) \in Nat
      /\ dropped \in 0 .. m /\ m = dropped + Len(live)
      /\ \A i \in 1 .. Len(live) : live[i] = grants[dropped + i]
      /\ \A i \in 1 .. dropped : millis - grants[i] > WINDOW_MS
  BY <1>0, <1>1, LiveFacts
<1>3. /\ timestamps' \in Seq(Nat) /\ Len(timestamps') = Len(live) + 1
      /\ \A i \in 1 .. Len(live) : timestamps'[i] = live[i]
      /\ timestamps'[Len(live) + 1] = millis
  BY <1>0, <1>1, <1>2, AppendProperties
<1>4. /\ grants' \in Seq(Nat) /\ Len(grants') = m + 1
      /\ \A i \in 1 .. m : grants'[i] = grants[i]
      /\ grants'[m + 1] = millis
  BY <1>0, <1>1, AppendProperties
<1>5. \A i \in 1 .. m :
        i + MAX_PER_WINDOW <= m => grants[i + MAX_PER_WINDOW] - grants[i] > WINDOW_MS
  BY DEF ThrottleInv, WindowRespected
<1> HIDE DEF live, dropped, m
<1>6. ThrottleTypeOK'
  BY <1>0, <1>1, <1>2, <1>3, <1>4 DEF ThrottleTypeOK
<1>7. WindowInv'
  <2>1. Len(grants') - Len(timestamps') = dropped  BY <1>2, <1>3, <1>4
  <2>2. \A i \in 1 .. Len(timestamps') : timestamps'[i] = grants'[dropped + i]
    <3> SUFFICES ASSUME NEW i \in 1 .. (Len(live) + 1)
                 PROVE  timestamps'[i] = grants'[dropped + i]
      BY <1>3
    <3>1. CASE i <= Len(live)
      <4>1. i \in 1 .. Len(live) /\ dropped + i \in 1 .. m  BY <1>2, <3>1
      <4> QED  BY <1>2, <1>3, <1>4, <4>1
    <3>2. CASE i = Len(live) + 1  BY <1>2, <1>3, <1>4, <3>2
    <3> QED  BY <1>2, <3>1, <3>2
  <2>3. \A i \in 1 .. dropped : millis' - grants'[i] > WINDOW_MS
    BY <1>1, <1>2, <1>4
  <2>4. \A i \in 1 .. Len(grants') : grants'[i] <= millis'
    BY <1>0, <1>1, <1>4
  <2>5. dropped >= 0  BY <1>2
  <2> QED  BY ONLY <2>1, <2>2, <2>3, <2>4, <2>5 DEF WindowInv
<1>8. WindowRespected'
  <2> SUFFICES ASSUME NEW i \in 1 .. (m + 1), i + MAX_PER_WINDOW <= m + 1
               PROVE  grants'[i + MAX_PER_WINDOW] - grants'[i] > WINDOW_MS
    BY <1>4 DEF WindowRespected
  <2>1. CASE i + MAX_PER_WINDOW <= m
    <3>1. i \in 1 .. m /\ i + MAX_PER_WINDOW \in 1 .. m  BY <1>0, <2>1
    <3> QED  BY <1>4, <1>5, <2>1, <3>1
  <2>2. CASE i + MAX_PER_WINDOW = m + 1
    <3>1. i \in 1 .. dropped /\ i \in 1 .. m  BY <1>0, <1>1, <1>2, <2>2
    <3> QED  BY <1>2, <1>4, <2>2, <3>1
  <2> QED  BY <1>0, <2>1, <2>2
<1> QED  BY <1>6, <1>7, <1>8 DEF ThrottleInv

\* A refused call drops expired stamps only.
LEMMA RefuseKeepsInv ==
  ASSUME ThrottleInv, NEW k \in 0 .. Len(timestamps), Refuse(k)
  PROVE  ThrottleInv'
<1>1. /\ timestamps' = Live(k) /\ grants' = grants /\ verdict' = "refused"
      /\ millis' = millis /\ Shifts(k)
  BY DEF Refuse
<1>2. MAX_PER_WINDOW \in Nat  BY ThrottleAssumption
<1>3. ThrottleTypeOK'  BY <1>1, <1>2, LiveFacts DEF ThrottleInv, ThrottleTypeOK
<1>4. WindowInv'  BY <1>1, LiveFacts DEF ThrottleInv, WindowInv
<1>5. WindowRespected'  BY <1>1 DEF ThrottleInv, WindowRespected
<1> QED  BY <1>3, <1>4, <1>5 DEF ThrottleInv

\* Stamps expire with time, and none comes back.
LEMMA TickKeepsInv ==
  ASSUME ThrottleInv, ClockMoves
  PROVE  ThrottleInv'
<1>1. /\ millis \in Nat /\ millis' \in 0 .. LastMs /\ millis' >= millis
      /\ UNCHANGED <<timestamps, verdict, grants>>
  BY ThrottleAssumption DEF ClockMoves, ThrottleInv, ThrottleTypeOK
<1>2. ThrottleTypeOK'  BY <1>1 DEF ThrottleInv, ThrottleTypeOK
<1>3. WindowInv'
  <2> DEFINE dropped == Len(grants) - Len(timestamps)
  <2>1. /\ \A i \in 1 .. Len(grants) : grants[i] \in Nat
        /\ dropped \in 0 .. Len(grants)
    BY DEF ThrottleInv, ThrottleTypeOK, WindowInv
  <2>2. WINDOW_MS \in Nat  BY ThrottleAssumption
  <2>3. \A i \in 1 .. dropped : millis' - grants[i] > WINDOW_MS
    BY <1>1, <2>1, <2>2 DEF ThrottleInv, WindowInv
  <2> QED  BY <1>1, <2>1, <2>3 DEF ThrottleInv, WindowInv
<1>4. WindowRespected'  BY <1>1 DEF ThrottleInv, WindowRespected
<1> QED  BY <1>2, <1>3, <1>4 DEF ThrottleInv

\* checkGlobalFirstSightBudget() keeps the inductive invariant, for every
\* window length, budget and pattern of calls.
THEOREM ThrottleInvariance == ThrottleSpec => []ThrottleInv
<1>1. ThrottleInit => ThrottleInv
  BY ThrottleAssumption DEF ThrottleInit, ThrottleInv, ThrottleTypeOK, WindowInv, WindowRespected
<1>2. ThrottleInv /\ [ThrottleNext]_throttleVars => ThrottleInv'
  <2>1. ASSUME ThrottleInv, UNCHANGED throttleVars PROVE ThrottleInv'
    BY <2>1 DEF throttleVars, ThrottleInv, ThrottleTypeOK, WindowInv, WindowRespected
  <2> QED
    BY <2>1, AllowKeepsInv, RefuseKeepsInv, TickKeepsInv DEF ThrottleNext, CheckBudget
<1> QED  BY <1>1, <1>2, PTL DEF ThrottleSpec

\* No window holds more ingests than the budget (first-sight-throttle.ts:12),
\* for every window length, budget and pattern of calls.
THEOREM Reservation == ThrottleSpec => []WindowRespected
<1>1. ThrottleInv => WindowRespected  BY DEF ThrottleInv
<1> QED  BY <1>1, ThrottleInvariance, PTL

\* Nobody is refused while the window that ends now has budget left
\* (first-sight-throttle.ts:32-35).
THEOREM Refusals == ThrottleSpec => RefusalJustified
<1> DEFINE Justified ==
      verdict' = "refused" /\ millis' = millis =>
        /\ Len(grants) >= MAX_PER_WINDOW
        /\ millis - grants[Len(grants) - MAX_PER_WINDOW + 1] <= WINDOW_MS
<1>0. MAX_PER_WINDOW \in Nat /\ MAX_PER_WINDOW >= 1  BY ThrottleAssumption
<1>1. ASSUME ThrottleInv, NEW k \in 0 .. Len(timestamps), Refuse(k) PROVE Justified
  <2>1. /\ timestamps \in Seq(Nat) /\ Len(timestamps) <= MAX_PER_WINDOW
        /\ Len(timestamps) \in Nat
    BY <1>1 DEF ThrottleInv, ThrottleTypeOK
  <2>2. Len(Live(k)) = Len(timestamps) - k /\ Shifts(k)
    BY <1>1, LiveFacts DEF Refuse
  <2>3. k = 0 /\ Len(timestamps) = MAX_PER_WINDOW
    BY <1>0, <1>1, <2>1, <2>2 DEF Refuse
  <2>4. millis - timestamps[1] <= WINDOW_MS  BY <1>0, <2>2, <2>3 DEF Shifts
  <2>5. /\ Len(grants) >= MAX_PER_WINDOW
        /\ timestamps[1] = grants[Len(grants) - MAX_PER_WINDOW + 1]
    BY <1>0, <1>1, <2>3 DEF ThrottleInv, ThrottleTypeOK, WindowInv
  <2> QED  BY <2>4, <2>5
<1>2. ASSUME NEW k \in 0 .. Len(timestamps), Allow(k) PROVE Justified
  BY <1>2 DEF Allow
<1>3. ASSUME ThrottleInv, ClockMoves PROVE Justified \/ UNCHANGED throttleVars
  BY <1>3 DEF ClockMoves, throttleVars
<1>4. ThrottleInv /\ [ThrottleNext]_throttleVars => [Justified]_throttleVars
  BY <1>1, <1>2, <1>3 DEF ThrottleNext, CheckBudget
<1> QED  BY <1>4, ThrottleInvariance, PTL DEF ThrottleSpec, RefusalJustified
=============================================================================
