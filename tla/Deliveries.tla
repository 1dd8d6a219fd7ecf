----------------------------- MODULE Deliveries -----------------------------
(* The log of webhook deliveries of one customer, the retry and the test   *)
(* delivery (routes/webhook-deliveries.ts, services/webhooks.ts).  A retry *)
(* reads the row, sends, and writes back what it computed from its copy.   *)
EXTENDS Requests

CONSTANTS
  MaxDeliveries,  \* bound of the model: rows of the log
  MaxSends        \* bound of the model: sends per row

VARIABLES
  log,            \* rows of webhook_deliveries
  hasSecret,      \* customers.webhook_secret is set
  sends,          \* history: how often each row was sent,
  outcomes,       \*   with which outcomes,
  retried         \*   and whether a retry has been written back

deliveryVars == <<requests, log, hasSecret, sends, outcomes, retried>>

\* What deliverWebhook() returns: the endpoint's status, or an error.
Results == {[status |-> "2xx", error |-> "none"], [status |-> "5xx", error |-> "none"],
            [status |-> "none", error |-> "timeout"]}
NoDelivery == [status |-> "none", error |-> "none", attempts |-> 0]
Deliverable == 1..MaxDeliveries
Logged(n) == log[n] # NoDelivery

\* An undefined value leaves its column as it is (drizzle's set()).
Written(old, new) == IF new = "none" THEN old ELSE new

\* A new row, by the worker or by POST /v1/webhooks/test: attempts is 1.
RecordDelivery(n, result) ==
  /\ n \in Deliverable /\ ~Logged(n)
  /\ \A k \in 1..(n - 1) : Logged(k)
  /\ log' = [log EXCEPT ![n] = [status |-> result.status, error |-> result.error,
                                attempts |-> 1]]
  /\ sends' = [sends EXCEPT ![n] = 1]
  /\ outcomes' = [outcomes EXCEPT ![n] = {result}]
  /\ UNCHANGED <<hasSecret, retried>>

WorkerRecords(n) ==
  /\ hasSecret
  /\ \E result \in Results : RecordDelivery(n, result)
  /\ UNCHANGED requests

----------------------------------------------------------------------------
(* POST /v1/webhooks/deliveries/:id/retry.                                 *)

RetrySelect(s, n) ==
  /\ n \in Deliverable /\ Logged(n)
  /\ Begins(s, "retry", n, [attempts |-> log[n].attempts])
  /\ UNCHANGED <<log, hasSecret, sends, outcomes, retried>>

\* 400 without a secret; the secret is the one of this moment.
RetrySecret(s) ==
  /\ Reached(s, "retry", "begun")
  /\ IF hasSecret THEN Continues(s, "deliver", requests[s].locals) ELSE Ends(s)
  /\ UNCHANGED <<log, hasSecret, sends, outcomes, retried>>

RetryDeliver(s) ==
  LET n == requests[s].who IN
  /\ Reached(s, "retry", "deliver") /\ sends[n] < MaxSends
  /\ sends' = [sends EXCEPT ![n] = @ + 1]
  /\ \E result \in Results :
       /\ outcomes' = [outcomes EXCEPT ![n] = @ \cup {result}]
       /\ Continues(s, "update", [attempts |-> requests[s].locals.attempts,
                                  result |-> result])
  /\ UNCHANGED <<log, hasSecret, retried>>

RetryUpdateOnSuccess(s) ==
  LET n == requests[s].who
      mine == requests[s].locals
  IN
  /\ Reached(s, "retry", "update") /\ Ends(s)
  /\ log' = [log EXCEPT ![n].attempts =
               mine.attempts + IF mine.result.status = "2xx" THEN 1 ELSE 0]
  /\ retried' = [retried EXCEPT ![n] = TRUE]
  /\ UNCHANGED <<hasSecret, sends, outcomes>>

RetryUpdate(s) ==
  LET n == requests[s].who
      mine == requests[s].locals
  IN
  /\ Reached(s, "retry", "update") /\ Ends(s)
  /\ log' = [log EXCEPT ![n] = [status |-> Written(@.status, mine.result.status),
                                error |-> Written(@.error, mine.result.error),
                                attempts |-> mine.attempts + 1]]
  /\ retried' = [retried EXCEPT ![n] = TRUE]
  /\ UNCHANGED <<hasSecret, sends, outcomes>>

----------------------------------------------------------------------------
(* POST /v1/webhooks/test.                                                 *)

TestSelect(s) ==
  /\ hasSecret
  /\ Begins(s, "test", 0, << >>)
  /\ UNCHANGED <<log, hasSecret, sends, outcomes, retried>>

\* Sent, then logged; a crash in between leaves no trace of the send.
TestRecord(s, n) ==
  /\ Reached(s, "test", "begun") /\ Ends(s)
  /\ \E result \in Results : RecordDelivery(n, result)

----------------------------------------------------------------------------
\* POST and DELETE /v1/account/webhooks.
ChangeSecret ==
  /\ hasSecret' \in BOOLEAN
  /\ UNCHANGED <<requests, log, sends, outcomes, retried>>

DeliveriesFault ==
  /\ \/ AllLost
     \/ \E s \in Slots : requests[s] # NoRequest /\ Ends(s)
  /\ UNCHANGED <<log, hasSecret, sends, outcomes, retried>>

DeliveriesInit ==
  /\ requests = [s \in Slots |-> NoRequest]
  /\ log = [n \in Deliverable |-> NoDelivery]
  /\ hasSecret = TRUE
  /\ sends = [n \in Deliverable |-> 0]
  /\ outcomes = [n \in Deliverable |-> {}]
  /\ retried = [n \in Deliverable |-> FALSE]

DeliveriesNext ==
  \/ \E n \in Deliverable : WorkerRecords(n)
  \/ \E s \in Slots :
       \/ \E n \in Deliverable : RetrySelect(s, n)
       \/ RetrySecret(s)
       \/ RetryDeliver(s)
       \/ RetryUpdate(s)
       \/ TestSelect(s)
       \/ \E n \in Deliverable : TestRecord(s, n)
  \/ ChangeSecret
  \/ DeliveriesFault

DeliveriesSpec == DeliveriesInit /\ [][DeliveriesNext]_deliveryVars

----------------------------------------------------------------------------
\* Retries that race lose each other's increments (webhook-deliveries.ts:83)
\* but the log never claims a send that was not made: a row counts at most
\* the sends of it, at least the first one and one retry once any retry was
\* written back, and it shows only outcomes that a send of it had.
LogNeverBoasts ==
  \A n \in Deliverable : Logged(n) =>
    /\ log[n].attempts <= sends[n]
    /\ log[n].attempts >= IF retried[n] THEN 2 ELSE 1
    /\ log[n].status \in {"none"} \cup {r.status : r \in outcomes[n]}
    /\ log[n].error \in {"none"} \cup {r.error : r \in outcomes[n]}
=============================================================================
