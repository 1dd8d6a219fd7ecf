------------------------- MODULE AnalysisLifecycle -------------------------
(***************************************************************************)
(* The life of a batch analysis: POST /v1/analyses (routes/analyses.ts)    *)
(* inserts a row and enqueues a BullMQ job (services/pipeline-client.ts);  *)
(* a worker slot (workers/analyze.worker.ts) runs runAnalysis() on it.     *)
(*                                                                         *)
(* Every await of the handler and of the worker is a boundary between two  *)
(* actions.  A write that is awaited may commit and still throw (the       *)
(* acknowledgement is lost), throw without committing, or succeed.         *)
(* BullMQ is modelled from how the code uses it: a job is "wait",          *)
(* "active" under the lock of one slot, "delayed" by the backoff, and at   *)
(* last "completed" or "failed".                                           *)
(***************************************************************************)
EXTENDS Integers, FiniteSets

CONSTANTS
  Analyses,         \* one per POST request: the id the row would get
  Customers,
  CustomerOf,       \* the customer whose API key the request carries
  MaxConcurrent,    \* planLimits(customer.plan).maxConcurrent
  RequestBodies,    \* the bodies the clients send
  Slots,            \* WORKER_CONCURRENCY slots of the worker process
  Attempts,         \* attempts of q.add
  MaxStalledCount,  \* BullMQ's maxStalledCount
  MockMode,         \* USE_MOCK_PROVIDERS === "true" on the API
  NoSlot, NoAnalysis

\* What an address list holds, seen from the plan's maxAddressesPerAnalysis.
ListSizes == {"absent", "empty", "fits", "over"}

ASSUME LifecycleAssumption ==
  /\ CustomerOf \in [Analyses -> Customers]
  /\ MaxConcurrent \in [Customers -> Nat \ {0}]
  /\ RequestBodies \subseteq [inline : ListSizes, file : ListSizes]
  /\ Attempts \in Nat \ {0}
  /\ MaxStalledCount \in Nat
  /\ MockMode \in BOOLEAN
  /\ NoSlot \notin Slots
  /\ NoAnalysis \notin Analyses

VARIABLES
  api,          \* where the POST handler of the request is
  req,          \* the body of the request
  status,       \* analyses.status ("absent": no row)
  aged,         \* analyses.createdAt is more than an hour ago
  completedAt,  \* analyses.completedAt is set
  persisted,    \* the runs whose scores, audit rows and clusters are stored
  notified,     \* the runs whose notification row is stored
  sent,         \* the runs whose webhook the customer's endpoint received
  recorded,     \* the runs whose webhook_deliveries row is stored
  jobState,     \* the BullMQ job of the analysis ("none": never enqueued),
  attemptsMade, \*   the attempts it has used up,
  stalls,       \*   how often it was found stalled,
  owner,        \*   and the slot that holds its lock
  pc,           \* the await a worker slot is at,
  working,      \*   the analysis it works on,
  run,          \*   the run of that analysis this is,
  over,         \*   and whether the ML service reported more CU than allowed
  faults        \* history: which faults the analysis has met

handlerVars == <<api, req, aged>>
eventVars   == <<notified, sent, recorded>>
rowVars     == <<status, completedAt, persisted>>
jobVars     == <<jobState, attemptsMade, stalls, owner>>
workVars    == <<working, run, over>>
slotVars    == <<pc, workVars>>
vars == <<handlerVars, rowVars, eventVars, jobVars, slotVars, faults>>

Complete == {"complete", "complete_over_budget"}
Terminal == Complete \union {"failed"}
Statuses == {"absent", "pending", "ingesting"} \union Terminal
Finished == {"completed", "failed"}          \* a job BullMQ is done with

\* Each time BullMQ hands the job to a slot is a run; they are numbered.
Runs == 1 .. (Attempts + MaxStalledCount)

\* The awaits of runAnalysis(), in order; each of them may throw.
Awaits == {"start", "gather", "score", "persist", "flip", "notify",
           "deliver", "record"}
----------------------------------------------------------------------------
(* The request handler: POST /v1/analyses.                                 *)

\* The zod schema accepts any inline list, empty ones too; a body without a
\* list and without a URL is refused, and so is a list over the plan's caps
\* on addresses and on estimated CU.
Refused400(body) ==
  \/ body.inline = "absent" /\ body.file = "absent"
  \/ body.inline = "over"

InFlightForever(c) ==
  {a \in Analyses : CustomerOf[a] = c /\ status[a] \in {"pending", "ingesting"}}

\* The rows the in-flight check selects.
InFlight(c) ==
  {a \in Analyses : /\ CustomerOf[a] = c
                    /\ status[a] \in {"pending", "ingesting"}
                    /\ ~ aged[a]}

AtCapacity(c) == Cardinality(InFlight(c)) >= MaxConcurrent[c]

CheckRequest(a) ==
  /\ api[a] = "idle"
  /\ api' = [api EXCEPT ![a] =
               IF Refused400(req[a]) \/ AtCapacity(CustomerOf[a])
                 THEN "rejected" ELSE "checked"]
  /\ UNCHANGED <<req, aged, faults, rowVars, eventVars, jobVars, slotVars>>

InsertRow(a) ==
  /\ api[a] = "checked"
  /\ api' = [api EXCEPT ![a] = "inserted"]
  /\ status' = [status EXCEPT ![a] = "pending"]
  /\ UNCHANGED <<req, aged, completedAt, persisted, faults, eventVars, jobVars,
                 slotVars>>

\* In mock mode enqueueAnalysis() returns before it touches the queue.  The
\* job may be added and the handler still not see it: the client gets a 500.
EnqueueAnalysis(a) ==
  /\ api[a] = "inserted"
  /\ \E reply \in {"accepted", "errored"} : api' = [api EXCEPT ![a] = reply]
  /\ jobState' = IF MockMode THEN jobState ELSE [jobState EXCEPT ![a] = "wait"]
  /\ UNCHANGED <<req, aged, attemptsMade, stalls, owner, faults, rowVars,
                 eventVars, slotVars>>

\* The insert throws, or the add to the queue does (or the API process dies
\* before it): a 500, and in the second case a row that no job will move.
HandlerFails(a) ==
  /\ api[a] \in {"checked", "inserted"}
  /\ api' = [api EXCEPT ![a] = "errored"]
  /\ UNCHANGED <<req, aged, faults, rowVars, eventVars, jobVars, slotVars>>

\* An hour passes since the row was created.
Age(a) ==
  /\ status[a] # "absent"
  /\ ~ aged[a]
  /\ aged' = [aged EXCEPT ![a] = TRUE]
  /\ UNCHANGED <<api, req, faults, rowVars, eventVars, jobVars, slotVars>>

----------------------------------------------------------------------------
(* The queue: BullMQ as the worker and the API configure it.               *)

PickUp(s, a) ==
  /\ pc[s] = "idle"
  /\ jobState[a] = "wait"
  /\ jobState' = [jobState EXCEPT ![a] = "active"]
  /\ owner' = [owner EXCEPT ![a] = s]
  /\ pc' = [pc EXCEPT ![s] = "start"]
  /\ working' = [working EXCEPT ![s] = a]
  /\ run' = [run EXCEPT ![s] = attemptsMade[a] + stalls[a] + 1]
  /\ UNCHANGED <<over, attemptsMade, stalls, faults, handlerVars, rowVars,
                 eventVars>>

BackoffElapses(a) ==
  /\ jobState[a] = "delayed"
  /\ jobState' = [jobState EXCEPT ![a] = "wait"]
  /\ UNCHANGED <<attemptsMade, stalls, owner, slotVars, faults, handlerVars,
                 rowVars, eventVars>>

\* The slot goes on, but its lock has expired (the process was paused, or cut
\* off from Redis, for longer than the lock lasts).
LockExpires(s) ==
  /\ pc[s] # "idle"
  /\ owner[working[s]] = s
  /\ owner' = [owner EXCEPT ![working[s]] = NoSlot]
  /\ faults' = [faults EXCEPT ![working[s]] = @ \union {"lockLost"}]
  /\ UNCHANGED <<jobState, attemptsMade, stalls, slotVars, handlerVars, rowVars,
                 eventVars>>

\* The worker process dies: every slot forgets its run, every lock is orphaned.
WorkerCrashes ==
  /\ \E s \in Slots : pc[s] # "idle"
  /\ pc' = [s \in Slots |-> "idle"]
  /\ working' = [s \in Slots |-> NoAnalysis]
  /\ run' = [s \in Slots |-> 0]
  /\ over' = [s \in Slots |-> FALSE]
  /\ owner' = [a \in Analyses |-> NoSlot]
  /\ UNCHANGED <<jobState, attemptsMade, stalls, faults, handlerVars, rowVars,
                 eventVars>>

StalledCheckIgnoresLocks(a) ==
  /\ jobState[a] = "active"
  /\ stalls' = [stalls EXCEPT ![a] = @ + 1]
  /\ owner' = [owner EXCEPT ![a] = NoSlot]
  /\ jobState' = [jobState EXCEPT ![a] =
       IF stalls[a] < MaxStalledCount THEN "wait" ELSE "failed"]
  /\ UNCHANGED <<attemptsMade, slotVars, faults, handlerVars, rowVars, eventVars>>

\* An active job without a lock goes back to the queue, or fails for good
\* without the processor (and so without its catch block) being called.
StalledCheck(a) ==
  /\ jobState[a] = "active"
  /\ owner[a] = NoSlot
  /\ stalls' = [stalls EXCEPT ![a] = @ + 1]
  /\ jobState' = [jobState EXCEPT ![a] =
       IF stalls[a] < MaxStalledCount THEN "wait" ELSE "failed"]
  /\ UNCHANGED <<attemptsMade, owner, slotVars, faults, handlerVars, rowVars,
                 eventVars>>

----------------------------------------------------------------------------
(* The worker: runAnalysis(), one action per await.                        *)

At(s, await) == pc[s] = await
Goto(s, await) == pc' = [pc EXCEPT ![s] = await]

\* The awaited write has committed; its acknowledgement arrives or is lost.
Committed(s, next) == \E await \in {next, "catch"} : Goto(s, await)

\* The await throws before anything is written.
Throws(s) ==
  /\ pc[s] \in Awaits
  /\ Goto(s, "catch")
  /\ UNCHANGED <<workVars, jobVars, faults, handlerVars, rowVars, eventVars>>

MarkIngesting(s) ==
  /\ At(s, "start")
  /\ status' = [status EXCEPT ![working[s]] = "ingesting"]
  /\ Committed(s, "gather")
  /\ UNCHANGED <<completedAt, persisted, workVars, jobVars, faults, handlerVars, eventVars>>

\* The addresses of the job, or those of the file when the job has none.
AddressesOf(a) ==
  LET body == req[a] IN
  IF body.inline \in {"fits", "over"} THEN body.inline
  ELSE IF body.file # "absent" THEN body.file ELSE "empty"

GatherUnchecked(s) ==
  /\ At(s, "gather")
  /\ Goto(s, IF AddressesOf(working[s]) # "empty" THEN "score" ELSE "catch")
  /\ UNCHANGED <<workVars, jobVars, faults, handlerVars, rowVars, eventVars>>

\* Plan lookup, download of the file, "no addresses", and the second pass of
\* the address cap.
Gather(s) ==
  /\ At(s, "gather")
  /\ Goto(s, IF AddressesOf(working[s]) = "fits" THEN "score" ELSE "catch")
  /\ UNCHANGED <<workVars, jobVars, faults, handlerVars, rowVars, eventVars>>

\* The ML call, the decisions, and the lookup of the row's customer.
Score(s) ==
  /\ At(s, "score")
  /\ Goto(s, "persist")
  /\ \E exceeded \in BOOLEAN : over' = [over EXCEPT ![s] = exceeded]
  /\ UNCHANGED <<working, run, jobVars, faults, handlerVars, rowVars, eventVars>>

Stored(where, s) ==
  [where EXCEPT ![working[s]] = @ \union {run[s]}]

PersistNotAwaited(s) ==
  /\ At(s, "persist")
  /\ persisted' \in {persisted, Stored(persisted, s)}
  /\ Goto(s, "flip")
  /\ UNCHANGED <<status, completedAt, workVars, jobVars, faults, handlerVars, eventVars>>

\* Phase 1: one transaction inserts scores, audit rows and clusters.
Persist(s) ==
  /\ At(s, "persist")
  /\ persisted' = Stored(persisted, s)
  /\ Committed(s, "flip")
  /\ UNCHANGED <<status, completedAt, workVars, jobVars, faults, handlerVars, eventVars>>

FlipWithinBudget(s) ==
  /\ At(s, "flip")
  /\ status' = IF over[s] THEN status
               ELSE [status EXCEPT ![working[s]] = "complete"]
  /\ completedAt' = [completedAt EXCEPT ![working[s]] = TRUE]
  /\ Committed(s, "notify")
  /\ UNCHANGED <<persisted, workVars, jobVars, faults, handlerVars, eventVars>>

\* Phase 2: the status, completedAt and the tallies, in an update of their own.
Flip(s) ==
  /\ At(s, "flip")
  /\ status' = [status EXCEPT ![working[s]] =
       IF over[s] THEN "complete_over_budget" ELSE "complete"]
  /\ completedAt' = [completedAt EXCEPT ![working[s]] = TRUE]
  /\ Committed(s, "notify")
  /\ UNCHANGED <<persisted, workVars, jobVars, faults, handlerVars, eventVars>>

CreateNotification(s) ==
  /\ At(s, "notify")
  /\ notified' = Stored(notified, s)
  /\ Committed(s, "deliver")
  /\ UNCHANGED <<sent, recorded, workVars, jobVars, faults, handlerVars, rowVars>>

\* deliverWebhook() never throws: the POST arrives, or it fails and says so.
\* Without a URL and a secret there is nothing to deliver.
DeliverWebhook(s) ==
  /\ At(s, "deliver")
  /\ \/ Goto(s, "done") /\ UNCHANGED sent
     \/ Goto(s, "record") /\ sent' \in {sent, Stored(sent, s)}
  /\ UNCHANGED <<notified, recorded, workVars, jobVars, faults, handlerVars, rowVars>>

RecordDelivery(s) ==
  /\ At(s, "record")
  /\ recorded' = Stored(recorded, s)
  /\ Committed(s, "done")
  /\ UNCHANGED <<notified, sent, workVars, jobVars, faults, handlerVars, rowVars>>

----------------------------------------------------------------------------
(* The processor around it: the catch block of startWorker() and what      *)
(* BullMQ does when the processor returns or throws.                       *)

CatchSwallows(s) ==
  /\ At(s, "catch")
  /\ status' = [status EXCEPT ![working[s]] = "failed"]
  /\ Goto(s, "done")
  /\ UNCHANGED <<completedAt, persisted, workVars, jobVars, faults, handlerVars, eventVars>>

\* Every failed attempt marks the row failed, whether BullMQ will retry or
\* not.  The update may itself throw: the job fails all the same.
CatchMarksFailed(s) ==
  /\ At(s, "catch")
  /\ \/ status' = [status EXCEPT ![working[s]] = "failed"] /\ UNCHANGED faults
     \/ faults' = [faults EXCEPT ![working[s]] = @ \union {"catchFailed"}]
        /\ UNCHANGED status
  /\ Goto(s, "rethrow")
  /\ UNCHANGED <<completedAt, persisted, workVars, jobVars, handlerVars, eventVars>>

Release(s) ==
  /\ pc' = [pc EXCEPT ![s] = "idle"]
  /\ working' = [working EXCEPT ![s] = NoAnalysis]
  /\ run' = [run EXCEPT ![s] = 0]
  /\ over' = [over EXCEPT ![s] = FALSE]
  /\ UNCHANGED <<stalls, faults, handlerVars, rowVars, eventVars>>

\* A slot whose lock is gone cannot move the job: BullMQ refuses its token.
JobCompletes(s) ==
  /\ At(s, "done")
  /\ IF owner[working[s]] = s
       THEN /\ jobState' = [jobState EXCEPT ![working[s]] = "completed"]
            /\ owner' = [owner EXCEPT ![working[s]] = NoSlot]
       ELSE UNCHANGED <<jobState, owner>>
  /\ UNCHANGED attemptsMade
  /\ Release(s)

JobFailsOnceMore(s) ==
  /\ At(s, "rethrow")
  /\ IF owner[working[s]] = s
       THEN /\ jobState' = [jobState EXCEPT ![working[s]] =
                 IF attemptsMade[working[s]] < Attempts THEN "delayed" ELSE "failed"]
            /\ attemptsMade' = [attemptsMade EXCEPT ![working[s]] = @ + 1]
            /\ owner' = [owner EXCEPT ![working[s]] = NoSlot]
       ELSE UNCHANGED <<jobState, attemptsMade, owner>>
  /\ Release(s)

JobFails(s) ==
  /\ At(s, "rethrow")
  /\ IF owner[working[s]] = s
       THEN /\ jobState' = [jobState EXCEPT ![working[s]] =
                 IF attemptsMade[working[s]] + 1 < Attempts
                   THEN "delayed" ELSE "failed"]
            /\ attemptsMade' = [attemptsMade EXCEPT ![working[s]] = @ + 1]
            /\ owner' = [owner EXCEPT ![working[s]] = NoSlot]
       ELSE UNCHANGED <<jobState, attemptsMade, owner>>
  /\ Release(s)

----------------------------------------------------------------------------
(* The specification.                                                      *)

Init ==
  /\ api = [a \in Analyses |-> "idle"]
  /\ req \in [Analyses -> RequestBodies]
  /\ status = [a \in Analyses |-> "absent"]
  /\ aged = [a \in Analyses |-> FALSE]
  /\ completedAt = [a \in Analyses |-> FALSE]
  /\ persisted = [a \in Analyses |-> {}]
  /\ notified = [a \in Analyses |-> {}]
  /\ sent = [a \in Analyses |-> {}]
  /\ recorded = [a \in Analyses |-> {}]
  /\ jobState = [a \in Analyses |-> "none"]
  /\ attemptsMade = [a \in Analyses |-> 0]
  /\ stalls = [a \in Analyses |-> 0]
  /\ owner = [a \in Analyses |-> NoSlot]
  /\ pc = [s \in Slots |-> "idle"]
  /\ working = [s \in Slots |-> NoAnalysis]
  /\ run = [s \in Slots |-> 0]
  /\ over = [s \in Slots |-> FALSE]
  /\ faults = [a \in Analyses |-> {}]

HandlerStep(a) ==
  CheckRequest(a) \/ InsertRow(a) \/ EnqueueAnalysis(a) \/ HandlerFails(a)

QueueStep(a) == BackoffElapses(a) \/ StalledCheck(a)

WorkerStep(s) ==
  \/ MarkIngesting(s) \/ Gather(s) \/ Score(s) \/ Persist(s) \/ Flip(s)
  \/ CreateNotification(s) \/ DeliverWebhook(s) \/ RecordDelivery(s)
  \/ Throws(s) \/ CatchMarksFailed(s) \/ JobCompletes(s) \/ JobFails(s)

\* Nothing is left to happen to the requests of this instance.
Quiescent ==
  /\ \A a \in Analyses : /\ api[a] \in {"accepted", "rejected", "errored"}
                         /\ jobState[a] \in Finished \union {"none"}
                         /\ status[a] = "absent" \/ aged[a]
  /\ \A s \in Slots : At(s, "idle")
  /\ UNCHANGED vars

Next ==
  \/ \E a \in Analyses : HandlerStep(a) \/ QueueStep(a) \/ Age(a)
  \/ \E s \in Slots : WorkerStep(s) \/ LockExpires(s)
  \/ \E s \in Slots, a \in Analyses : PickUp(s, a)
  \/ WorkerCrashes
  \/ Quiescent

Spec == Init /\ [][Next]_vars

\* Node runs every pending continuation, BullMQ polls its delayed set and its
\* stalled set, an idle slot fetches the next job, and time passes.  Faults
\* (crashes, lost locks) and clients are not fair.
Fairness ==
  /\ \A a \in Analyses : WF_vars(QueueStep(a)) /\ WF_vars(Age(a))
  /\ \A a \in Analyses : WF_vars(\E s \in Slots : PickUp(s, a))
  /\ \A a \in Analyses : WF_vars(InsertRow(a) \/ EnqueueAnalysis(a)
                                   \/ HandlerFails(a))
  /\ \A s \in Slots : WF_vars(WorkerStep(s))

FairSpec == Spec /\ Fairness

----------------------------------------------------------------------------
(* Invariants.                                                             *)

\* Where a busy slot can be in the processor.
PCs == Awaits \union {"catch", "rethrow", "done"}

\* Type invariant: what every variable of the API, the queue, the worker and
\* the tables can hold; in particular no run is numbered past the attempts
\* and the stall redeliveries that BullMQ allows (pipeline-client.ts:46).
TypeOK ==
  /\ api \in [Analyses -> {"idle", "checked", "inserted", "accepted",
                           "rejected", "errored"}]
  /\ req \in [Analyses -> RequestBodies]
  /\ status \in [Analyses -> Statuses]
  /\ aged \in [Analyses -> BOOLEAN]
  /\ completedAt \in [Analyses -> BOOLEAN]
  /\ persisted \in [Analyses -> SUBSET Runs]
  /\ notified \in [Analyses -> SUBSET Runs]
  /\ sent \in [Analyses -> SUBSET Runs]
  /\ recorded \in [Analyses -> SUBSET Runs]
  /\ jobState \in [Analyses ->
                    {"none", "wait", "active", "delayed"} \union Finished]
  /\ attemptsMade \in [Analyses -> 0 .. Attempts]
  /\ stalls \in [Analyses -> 0 .. (MaxStalledCount + 1)]
  /\ owner \in [Analyses -> Slots \union {NoSlot}]
  /\ pc \in [Slots -> PCs \union {"idle"}]
  /\ working \in [Slots -> Analyses \union {NoAnalysis}]
  /\ run \in [Slots -> Runs \union {0}]
  /\ over \in [Slots -> BOOLEAN]
  /\ \A s \in Slots :
       IF pc[s] = "idle" THEN working[s] = NoAnalysis
                         ELSE working[s] \in Analyses /\ run[s] \in Runs
  /\ faults \in [Analyses -> SUBSET {"lockLost", "catchFailed"}]

\* "Callers that poll and see status='complete' can immediately read
\* /results without hitting an empty page" (analyze.worker.ts:174): once a
\* row shows a complete status, or has a completion time, the scores of some
\* run are stored, whatever failed, was retried or ran twice in between.
ResultsBeforeComplete ==
  \A a \in Analyses :
    status[a] \in Complete \/ completedAt[a] => persisted[a] # {}

\* No customer hears of results that are not there: the run that wrote a
\* notification, sent a webhook or logged a delivery has itself stored its
\* scores, and the row has a completion time (analyze.worker.ts:263-295).
EventsFollowResults ==
  \A a \in Analyses :
    /\ notified[a] \subseteq persisted[a]
    /\ sent[a] \union recorded[a] \subseteq notified[a]
    /\ notified[a] # {} => completedAt[a]

\* What the retries can cost: the copies of an analysis's scores (and with
\* them its notifications and webhooks) never exceed the attempts plus the
\* stall redeliveries BullMQ allows.
CopiesBounded ==
  \A a \in Analyses : Cardinality(persisted[a]) <= Attempts + MaxStalledCount

\* The plan's address cap holds on both routes: a list over the cap (or with
\* no address in it) is never scored, be it inline, where the handler refuses
\* it, or in a file, where only the worker sees it (analyze.worker.ts:100).
OversizedNeverScored ==
  \A a \in Analyses :
    AddressesOf(a) # "fits" => persisted[a] = {} /\ status[a] \notin Complete

\* Two slots work on one analysis only if a live worker has lost its lock: a
\* crash, a retry or a stall redelivery alone never runs a job twice at once.
NoDoubleProcessing ==
  \A a \in Analyses :
    "lockLost" \notin faults[a] =>
      \A s, t \in Slots :
        working[s] = a /\ working[t] = a => s = t

\* The row agrees with the queue once BullMQ has decided: a completed job
\* shows a complete row; a job that threw and is delayed, or is out of
\* attempts, shows a failed one.  (A failed update in the catch block, a lost
\* lock and a job that fails by stalling are the exceptions.)
RowAgreesWithJob ==
  \A a \in Analyses :
    faults[a] = {} =>
      /\ jobState[a] = "completed" => status[a] \in Complete
      /\ jobState[a] = "delayed" \/ ( jobState[a] = "failed"
                                       /\ stalls[a] <= MaxStalledCount )
           => status[a] = "failed"

----------------------------------------------------------------------------
(* The inductive invariant from which the invariants above follow.         *)

\* A job that can still run has attempts and stall redeliveries left, and a
\* lock is held by a slot that is running that job.
QueueInv ==
  \A a \in Analyses :
    /\ jobState[a] \notin Finished =>
         attemptsMade[a] < Attempts /\ stalls[a] <= MaxStalledCount
    /\ owner[a] # NoSlot =>
         jobState[a] = "active" /\ working[owner[a]] = a

\* A row exists from the insert on, and a job only for a row.
RowInv ==
  \A a \in Analyses :
    /\ api[a] \in {"idle", "checked"} => status[a] = "absent"
    /\ api[a] \in {"idle", "checked", "inserted"} => jobState[a] = "none"
    /\ api[a] = "inserted" => status[a] # "absent"
    /\ jobState[a] # "none" => status[a] # "absent"

\* A busy slot runs a job that exists and, unless a lock was lost, holds it.
LockInv ==
  \A s \in Slots : pc[s] # "idle" =>
    LET a == working[s] IN
    /\ jobState[a] # "none"
    /\ "lockLost" \notin faults[a] => owner[a] = s

\* What a run has done by the time its slot is at each await.
ProgressInv ==
  \A s \in Slots : pc[s] # "idle" =>
    LET a == working[s]  r == run[s]  at == pc[s] IN
    /\ at \in {"score", "persist"} => AddressesOf(a) = "fits"
    /\ at \in {"flip", "notify", "deliver", "record", "done"} => r \in persisted[a]
    /\ at \in {"notify", "deliver", "record", "done"} => completedAt[a]
    /\ at \in {"deliver", "record", "done"} => r \in notified[a]

\* With no fault on the analysis, the row shows what its run has reached.
OutcomeInv ==
  \A s \in Slots : pc[s] # "idle" =>
    LET a == working[s]  at == pc[s] IN
    faults[a] = {} =>
      /\ at \in {"notify", "deliver", "record", "done"} => status[a] \in Complete
      /\ at = "rethrow" => status[a] = "failed"

\* Scores exist only for lists that the plan admits, and completions only
\* for rows that have scores.
AdmittedInv ==
  \A a \in Analyses :
    /\ persisted[a] # {} => AddressesOf(a) = "fits" /\ jobState[a] # "none"
    /\ status[a] \in Complete \/ completedAt[a] => persisted[a] # {}

IInv ==
  /\ TypeOK
  /\ QueueInv
  /\ RowInv
  /\ LockInv
  /\ ProgressInv
  /\ OutcomeInv
  /\ AdmittedInv
  /\ EventsFollowResults
  /\ RowAgreesWithJob

----------------------------------------------------------------------------
(* Liveness.                                                               *)

Settled(a) == jobState[a] \in Finished /\ \A s \in Slots : working[s] # a

\* Every analysis whose job was enqueued ends: BullMQ is done with the job, no
\* slot works on it any more, and the row shows a terminal status unless the
\* job was failed for stalling, or the catch block could not write it.
EnqueuedEnds ==
  \A a \in Analyses :
    jobState[a] # "none"
      ~> /\ Settled(a)
         /\ \/ status[a] \in Terminal
            \/ stalls[a] > MaxStalledCount
            \/ faults[a] # {}

\* "It would otherwise block the customer forever" (routes/analyses.ts:72):
\* a customer at the in-flight cap is under it again some time later, even
\* when the rows that fill it are orphans that no job will ever move.
CapacityReturns ==
  \A c \in Customers : AtCapacity(c) ~> ~ AtCapacity(c)

----------------------------------------------------------------------------
(* What a client sees of it, and what it may rely on.                      *)

\* GET /v1/analyses/:id, with the two complete statuses as one.
ViewOf(st) ==
  IF st \in {"pending", "ingesting"} THEN "waiting"
  ELSE IF st \in Complete THEN "ready"
  ELSE IF st = "failed" THEN "failed" ELSE "none"

Contract == INSTANCE AnalysisContract WITH
  view <- [a \in Analyses |-> ViewOf(status[a])],
  readable <- [a \in Analyses |-> persisted[a] # {}],
  announced <- [a \in Analyses |-> notified[a] # {}]

\* The API, the queue and the worker, with all their retries and failures,
\* implement what a client may rely on: an analysis turns ready, and is
\* announced, only in steps that find its results readable
\* (analyze.worker.ts:174-183, 263).
ImplementsContract == Contract!Spec

----------------------------------------------------------------------------
(* What the comments and the documentation say, and the code does not do.  *)

\* A retry "sees an already-populated child set and just re-flips status
\* (which is idempotent)" (analyze.worker.ts:181-183).
RetryIsIdempotent == \A a \in Analyses : Cardinality(persisted[a]) <= 1

\* "maxConcurrent - in-flight analyses cap" (middleware/auth.ts:23), one of
\* the limits "enforced across the API surface".
ConcurrentCap ==
  \A c \in Customers : Cardinality(InFlight(c)) <= MaxConcurrent[c]
=============================================================================
