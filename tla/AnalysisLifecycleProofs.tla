---------------------- MODULE AnalysisLifecycleProofs ----------------------
(* Proofs about AnalysisLifecycle, for every value of its constants.       *)
EXTENDS AnalysisLifecycle, FiniteSetTheorems, TLAPS

\* Every step of the API, the queue and the worker keeps the types.
LEMMA TypeStep ==
  ASSUME TypeOK, QueueInv, Next
  PROVE  TypeOK'
<1> USE DEF TypeOK, handlerVars, eventVars, rowVars, jobVars,
        workVars, slotVars, PCs, Awaits, Statuses, Terminal, Complete, Finished, Runs, At, Goto
<1>0. Attempts \in Nat /\ MaxStalledCount \in Nat /\ NoSlot \notin Slots
  BY LifecycleAssumption
<1>1. ASSUME NEW a \in Analyses, HandlerStep(a)
      PROVE  TypeOK'
  <2>1. CASE CheckRequest(a)  BY <2>1 DEF CheckRequest
  <2>2. CASE InsertRow(a)  BY <2>2 DEF InsertRow
  <2>3. CASE EnqueueAnalysis(a)  BY <2>3 DEF EnqueueAnalysis
  <2>4. CASE HandlerFails(a)  BY <2>4 DEF HandlerFails
  <2> QED  BY <1>1, <2>1, <2>2, <2>3, <2>4 DEF HandlerStep
<1>2. ASSUME NEW a \in Analyses, Age(a)
      PROVE  TypeOK'
  BY <1>2 DEF Age
<1>3. ASSUME NEW a \in Analyses, QueueStep(a)
      PROVE  TypeOK'
  <2>1. CASE BackoffElapses(a)  BY <2>1 DEF BackoffElapses
  <2>2. CASE StalledCheck(a)
    <3>1. stalls[a] \in Nat /\ stalls[a] + 1 \in 0 .. (MaxStalledCount + 1)
      BY <2>2, <1>0, SMTT(30) DEF StalledCheck, QueueInv
    <3>2. stalls' \in [Analyses -> 0 .. (MaxStalledCount + 1)]
      BY <2>2, <3>1 DEF StalledCheck
    <3> QED  BY <2>2, <3>2 DEF StalledCheck
  <2> QED  BY <1>3, <2>1, <2>2 DEF QueueStep
<1>4. ASSUME NEW s \in Slots, NEW a \in Analyses, PickUp(s, a)
      PROVE  TypeOK'
  <2>1. attemptsMade[a] + stalls[a] + 1 \in Runs
    BY <1>4, <1>0 DEF PickUp, QueueInv
  <2>2. /\ run' \in [Slots -> Runs \union {0}]
        /\ \A t \in Slots :
             IF pc'[t] = "idle" THEN working'[t] = NoAnalysis
               ELSE working'[t] \in Analyses /\ run'[t] \in Runs
    BY <1>4, <2>1 DEF PickUp
  <2> QED  BY <1>4, <2>2 DEF PickUp
<1>5. ASSUME NEW s \in Slots, LockExpires(s)
      PROVE  TypeOK'
  BY <1>5 DEF LockExpires
<1>6. CASE WorkerCrashes
  <2>1. UNCHANGED <<jobState, attemptsMade, stalls, faults, handlerVars, rowVars,
                    eventVars>>
    BY <1>6 DEF WorkerCrashes
  <2>2. owner' \in [Analyses -> Slots \union {NoSlot}]  BY <1>6 DEF WorkerCrashes
  <2>3. /\ pc' \in [Slots -> PCs \union {"idle"}]
        /\ working' \in [Slots -> Analyses \union {NoAnalysis}]
        /\ run' \in [Slots -> Runs \union {0}]
        /\ over' \in [Slots -> BOOLEAN]
        /\ \A s \in Slots : pc'[s] = "idle" /\ working'[s] = NoAnalysis
    BY <1>6 DEF WorkerCrashes
  <2> QED  BY <2>1, <2>2, <2>3
<1>7. ASSUME NEW s \in Slots, WorkerStep(s)
      PROVE  TypeOK'
  <2>1. CASE MarkIngesting(s)  BY <2>1 DEF MarkIngesting, Committed
  <2>2. CASE Gather(s)  BY <2>2 DEF Gather
  <2>3. CASE Score(s)  BY <2>3 DEF Score
  <2>4. CASE Persist(s)  BY <2>4 DEF Persist, Committed, Stored
  <2>5. CASE Flip(s)  BY <2>5 DEF Flip, Committed
  <2>6. CASE CreateNotification(s)  BY <2>6 DEF CreateNotification, Committed, Stored
  <2>7. CASE DeliverWebhook(s)
    <3>1. Stored(sent, s) \in [Analyses -> SUBSET Runs]
      BY <2>7 DEF DeliverWebhook, Stored
    <3>2. sent' \in [Analyses -> SUBSET Runs]
      BY <2>7, <3>1 DEF DeliverWebhook
    <3> QED  BY <2>7, <3>2 DEF DeliverWebhook
  <2>8. CASE RecordDelivery(s)  BY <2>8 DEF RecordDelivery, Committed, Stored
  <2>9. CASE Throws(s)  BY <2>9 DEF Throws
  <2>10. CASE CatchMarksFailed(s)
    <3>1. CASE /\ status' = [status EXCEPT ![working[s]] = "failed"]
               /\ UNCHANGED faults
      BY <2>10, <3>1 DEF CatchMarksFailed
    <3>2. CASE /\ faults' = [faults EXCEPT ![working[s]] = @ \union {"catchFailed"}]
               /\ UNCHANGED status
      <4>1. faults' \in [Analyses -> SUBSET {"lockLost", "catchFailed"}]
        BY <3>2
      <4> QED  BY <2>10, <3>2, <4>1 DEF CatchMarksFailed
    <3> QED  BY <2>10, <3>1, <3>2 DEF CatchMarksFailed
  <2>11. CASE JobCompletes(s)  BY <2>11 DEF JobCompletes, Release
  <2>12. CASE JobFails(s)
    <3>0. ASSUME owner[working[s]] = s
          PROVE  /\ attemptsMade[working[s]] \in 0 .. Attempts
                 /\ attemptsMade[working[s]] + 1 \in 0 .. Attempts
      <4>1. working[s] \in Analyses  BY <2>12 DEF JobFails
      <4>2. attemptsMade[working[s]] < Attempts
        BY <1>0, <3>0, <4>1 DEF QueueInv
      <4> QED  BY <1>0, <4>1, <4>2
    <3>1. UNCHANGED <<stalls, faults, handlerVars, rowVars, eventVars>>
      BY <2>12 DEF JobFails, Release
    <3>2. /\ jobState' \in [Analyses ->
                 {"none", "wait", "active", "delayed"} \union Finished]
          /\ attemptsMade' \in [Analyses -> 0 .. Attempts]
          /\ owner' \in [Analyses -> Slots \union {NoSlot}]
      <4>1. CASE owner[working[s]] = s  BY <2>12, <3>0, <4>1 DEF JobFails
      <4>2. CASE owner[working[s]] # s  BY <2>12, <4>2 DEF JobFails
      <4> QED  BY <4>1, <4>2
    <3>3. /\ pc' \in [Slots -> PCs \union {"idle"}]
          /\ working' \in [Slots -> Analyses \union {NoAnalysis}]
          /\ run' \in [Slots -> Runs \union {0}]
          /\ over' \in [Slots -> BOOLEAN]
          /\ \A t \in Slots :
               IF pc'[t] = "idle" THEN working'[t] = NoAnalysis
                 ELSE working'[t] \in Analyses /\ run'[t] \in Runs
      BY <2>12 DEF JobFails, Release
    <3> QED  BY <3>1, <3>2, <3>3
  <2> QED  BY <1>7, <2>1, <2>2, <2>3, <2>4, <2>5, <2>6, <2>7, <2>8, <2>9, <2>10,
              <2>11, <2>12 DEF WorkerStep
<1>8. CASE Quiescent  BY <1>8 DEF Quiescent, vars
<1> QED  BY <1>1, <1>2, <1>3, <1>4, <1>5, <1>6, <1>7, <1>8 DEF Next

\* A job that can still run has attempts and redeliveries left.
LEMMA QueueInvStep ==
  ASSUME TypeOK, QueueInv, RowInv, LockInv, Next
  PROVE  QueueInv'
<1> USE DEF Finished, At, Goto, handlerVars, eventVars, rowVars, jobVars, workVars,
        slotVars
<1>0. Attempts \in Nat /\ MaxStalledCount \in Nat /\ NoSlot \notin Slots
      /\ NoAnalysis \notin Analyses
  BY LifecycleAssumption
<1>1. ASSUME NEW a \in Analyses, EnqueueAnalysis(a) PROVE QueueInv'
  BY <1>1 DEF EnqueueAnalysis, QueueInv, RowInv, TypeOK
<1>2. ASSUME NEW s \in Slots, NEW a \in Analyses, PickUp(s, a) PROVE QueueInv'
  BY <1>2, <1>0 DEF PickUp, QueueInv, TypeOK
<1>3. ASSUME NEW a \in Analyses, BackoffElapses(a) PROVE QueueInv'
  BY <1>3 DEF BackoffElapses, QueueInv, TypeOK
<1>4. ASSUME NEW s \in Slots, LockExpires(s) PROVE QueueInv'
  BY <1>4 DEF LockExpires, QueueInv, TypeOK
<1>5. CASE WorkerCrashes
  BY <1>5 DEF WorkerCrashes, QueueInv, TypeOK
<1>6. ASSUME NEW a \in Analyses, StalledCheck(a) PROVE QueueInv'
  BY <1>6, <1>0 DEF StalledCheck, QueueInv, TypeOK
<1>7. ASSUME NEW s \in Slots, JobCompletes(s) PROVE QueueInv'
  BY <1>7, <1>0 DEF JobCompletes, Release, QueueInv, TypeOK
<1>8. ASSUME NEW s \in Slots, JobFails(s) PROVE QueueInv'
  BY <1>8, <1>0 DEF JobFails, Release, QueueInv, TypeOK
<1>9. CASE UNCHANGED <<jobVars, working>>
  BY <1>9 DEF QueueInv
<1> QED
  BY <1>1, <1>2, <1>3, <1>4, <1>5, <1>6, <1>7, <1>8, <1>9
  DEF Next, HandlerStep, QueueStep, WorkerStep, CheckRequest, InsertRow,
      HandlerFails, Age, MarkIngesting, Gather, Score, Persist, Flip,
      CreateNotification, DeliverWebhook, RecordDelivery, Throws,
      CatchMarksFailed, Quiescent, vars

\* A job is enqueued only for a row that exists.
LEMMA RowInvStep ==
  ASSUME TypeOK, QueueInv, RowInv, LockInv, Next
  PROVE  RowInv'
<1> USE DEF TypeOK, RowInv, At, Goto, handlerVars, eventVars, rowVars, jobVars,
        workVars, slotVars
<1>1. ASSUME NEW a \in Analyses, HandlerStep(a) PROVE RowInv'
  BY <1>1 DEF HandlerStep, CheckRequest, InsertRow, EnqueueAnalysis, HandlerFails
<1>2. ASSUME NEW s \in Slots, NEW a \in Analyses, PickUp(s, a) PROVE RowInv'
  BY <1>2 DEF PickUp
<1>3. ASSUME NEW a \in Analyses, QueueStep(a) PROVE RowInv'
  BY <1>3 DEF QueueStep, BackoffElapses, StalledCheck
<1>4. ASSUME NEW s \in Slots, MarkIngesting(s) \/ Flip(s) \/ CatchMarksFailed(s)
      PROVE  RowInv'
  BY <1>4 DEF MarkIngesting, Flip, CatchMarksFailed, LockInv
<1>5. ASSUME NEW s \in Slots, JobCompletes(s) \/ JobFails(s) PROVE RowInv'
  BY <1>5 DEF JobCompletes, JobFails, Release, LockInv
<1>6. CASE UNCHANGED <<api, status, jobState>>
  BY <1>6
<1> QED
  BY <1>1, <1>2, <1>3, <1>4, <1>5, <1>6
  DEF Next, WorkerStep, Age, LockExpires, WorkerCrashes, Gather, Score, Persist,
      CreateNotification, DeliverWebhook, RecordDelivery, Throws, Quiescent, vars

\* A busy slot holds its job's lock unless a lock was lost.
LEMMA LockInvStep ==
  ASSUME TypeOK, QueueInv, RowInv, LockInv, Next
  PROVE  LockInv'
<1> USE DEF TypeOK, LockInv, At, Goto, handlerVars, eventVars, rowVars, jobVars,
        workVars, slotVars
<1>0. NoSlot \notin Slots /\ NoAnalysis \notin Analyses
  BY LifecycleAssumption
<1>1. ASSUME NEW a \in Analyses, EnqueueAnalysis(a) PROVE LockInv'
  BY <1>1 DEF EnqueueAnalysis
<1>2. ASSUME NEW s \in Slots, NEW a \in Analyses, PickUp(s, a) PROVE LockInv'
  BY <1>2, <1>0 DEF PickUp, QueueInv
<1>3. ASSUME NEW a \in Analyses, QueueStep(a) PROVE LockInv'
  BY <1>3 DEF QueueStep, BackoffElapses, StalledCheck
<1>4. ASSUME NEW s \in Slots, LockExpires(s) PROVE LockInv'
  BY <1>4, <1>0 DEF LockExpires
<1>5. CASE WorkerCrashes
  BY <1>5 DEF WorkerCrashes
<1>6. ASSUME NEW s \in Slots, JobCompletes(s) PROVE LockInv'
  BY <1>6, <1>0 DEF JobCompletes, Release
<1>7. ASSUME NEW s \in Slots, JobFails(s) PROVE LockInv'
  BY <1>7, <1>0 DEF JobFails, Release
<1>8. ASSUME NEW s \in Slots,
             \/ MarkIngesting(s) \/ Gather(s) \/ Score(s) \/ Persist(s) \/ Flip(s)
             \/ CreateNotification(s) \/ DeliverWebhook(s) \/ RecordDelivery(s)
             \/ Throws(s)
      PROVE  LockInv'
  BY <1>8 DEF MarkIngesting, Gather, Score, Persist, Flip, CreateNotification,
              DeliverWebhook, RecordDelivery, Throws, Committed, Awaits
<1>9. ASSUME NEW s \in Slots, CatchMarksFailed(s) PROVE LockInv'
  BY <1>9 DEF CatchMarksFailed
<1>10. CASE UNCHANGED <<jobVars, slotVars, faults>>
  BY <1>10
<1> QED
  BY <1>1, <1>2, <1>3, <1>4, <1>5, <1>6, <1>7, <1>8, <1>9, <1>10
  DEF Next, HandlerStep, WorkerStep, CheckRequest, InsertRow, HandlerFails, Age,
      Quiescent, vars

\* A slot past an await of runAnalysis() has done what precedes it.
LEMMA ProgressInvStep ==
  ASSUME TypeOK, ProgressInv, Next
  PROVE  ProgressInv'
<1> USE DEF TypeOK, ProgressInv, AddressesOf, At, Goto, handlerVars, eventVars,
        rowVars, jobVars, workVars, slotVars
<1>1. ASSUME NEW s \in Slots, NEW a \in Analyses, PickUp(s, a) PROVE ProgressInv'
  BY <1>1 DEF PickUp
<1>2. CASE WorkerCrashes
  BY <1>2 DEF WorkerCrashes
<1>3. ASSUME NEW s \in Slots, MarkIngesting(s) \/ Gather(s) \/ Score(s) \/ Throws(s)
      PROVE  ProgressInv'
  BY <1>3 DEF MarkIngesting, Gather, Score, Throws, Committed
<1>4. ASSUME NEW s \in Slots, Persist(s) PROVE ProgressInv'
  BY <1>4 DEF Persist, Committed, Stored
<1>5. ASSUME NEW s \in Slots, Flip(s) PROVE ProgressInv'
  BY <1>5 DEF Flip, Committed
<1>6. ASSUME NEW s \in Slots, CreateNotification(s) PROVE ProgressInv'
  BY <1>6 DEF CreateNotification, Committed, Stored
<1>7. ASSUME NEW s \in Slots, DeliverWebhook(s) \/ RecordDelivery(s)
      PROVE  ProgressInv'
  BY <1>7 DEF DeliverWebhook, RecordDelivery, Committed
<1>8. ASSUME NEW s \in Slots, CatchMarksFailed(s) PROVE ProgressInv'
  BY <1>8 DEF CatchMarksFailed
<1>9. ASSUME NEW s \in Slots, JobCompletes(s) \/ JobFails(s) PROVE ProgressInv'
  BY <1>9 DEF JobCompletes, JobFails, Release
<1>10. CASE UNCHANGED <<req, slotVars, persisted, completedAt, notified>>
  BY <1>10
<1> QED
  BY <1>1, <1>2, <1>3, <1>4, <1>5, <1>6, <1>7, <1>8, <1>9, <1>10
  DEF Next, HandlerStep, QueueStep, WorkerStep, CheckRequest, InsertRow,
      EnqueueAnalysis, HandlerFails, Age, BackoffElapses, StalledCheck,
      LockExpires, Quiescent, vars

\* A slot whose analysis has met no fault is the only one on that analysis.
LEMMA LoneSlot ==
  ASSUME TypeOK, LockInv, NEW s \in Slots, NEW t \in Slots, pc[s] # "idle",
         working[t] = working[s], "lockLost" \notin faults[working[s]]
  PROVE  s = t
<1>1. NoAnalysis \notin Analyses  BY LifecycleAssumption
<1>2. pc[t] # "idle"  BY <1>1 DEF TypeOK
<1> QED  BY <1>2 DEF LockInv

\* Without faults the row shows what its run has reached.
LEMMA OutcomeInvStep ==
  ASSUME TypeOK, RowInv, LockInv, OutcomeInv, Next
  PROVE  OutcomeInv'
<1> USE DEF TypeOK, OutcomeInv, At, Goto, handlerVars, eventVars, rowVars, jobVars,
        workVars, slotVars
<1>1. ASSUME NEW a \in Analyses, InsertRow(a) PROVE OutcomeInv'
  BY <1>1 DEF InsertRow, RowInv, LockInv
<1>2. ASSUME NEW s \in Slots, NEW a \in Analyses, PickUp(s, a) PROVE OutcomeInv'
  BY <1>2 DEF PickUp
<1>3. ASSUME NEW s \in Slots, LockExpires(s) PROVE OutcomeInv'
  BY <1>3 DEF LockExpires
<1>4. CASE WorkerCrashes
  BY <1>4 DEF WorkerCrashes
<1>5. ASSUME NEW s \in Slots, MarkIngesting(s) PROVE OutcomeInv'
  BY <1>5, LoneSlot DEF MarkIngesting, Committed
<1>6. ASSUME NEW s \in Slots, Flip(s) PROVE OutcomeInv'
  BY <1>6, LoneSlot DEF Flip, Committed, Complete
<1>7. ASSUME NEW s \in Slots,
             \/ Gather(s) \/ Score(s) \/ Persist(s) \/ CreateNotification(s)
             \/ DeliverWebhook(s) \/ RecordDelivery(s) \/ Throws(s)
      PROVE  OutcomeInv'
  BY <1>7 DEF Gather, Score, Persist, CreateNotification, DeliverWebhook,
              RecordDelivery, Throws, Committed
<1>8. ASSUME NEW s \in Slots, CatchMarksFailed(s) PROVE OutcomeInv'
  <2>1. CASE /\ status' = [status EXCEPT ![working[s]] = "failed"]
             /\ UNCHANGED faults
    <3> SUFFICES ASSUME NEW t \in Slots, pc'[t] # "idle", faults[working[t]] = {},
                        t # s
                 PROVE  status'[working[t]] = status[working[t]] /\ pc'[t] = pc[t]
      BY <1>8, <2>1 DEF CatchMarksFailed
    <3>1. pc'[t] = pc[t]  BY <1>8 DEF CatchMarksFailed
    <3>2. working[t] # working[s]
      BY <3>1, <1>8, LoneSlot DEF CatchMarksFailed
    <3> QED  BY <2>1, <3>1, <3>2
  <2>2. CASE /\ faults' = [faults EXCEPT ![working[s]] = @ \union {"catchFailed"}]
             /\ UNCHANGED status
    BY <1>8, <2>2 DEF CatchMarksFailed
  <2> QED  BY <1>8, <2>1, <2>2 DEF CatchMarksFailed
<1>9. ASSUME NEW s \in Slots, JobCompletes(s) \/ JobFails(s) PROVE OutcomeInv'
  BY <1>9 DEF JobCompletes, JobFails, Release
<1>10. CASE UNCHANGED <<status, slotVars, faults>>
  BY <1>10
<1> QED
  BY <1>1, <1>2, <1>3, <1>4, <1>5, <1>6, <1>7, <1>8, <1>9, <1>10
  DEF Next, HandlerStep, QueueStep, WorkerStep, CheckRequest, EnqueueAnalysis,
      HandlerFails, Age, BackoffElapses, StalledCheck, Quiescent, vars

\* Scores are stored only for lists that the plan admits.
LEMMA AdmittedInvStep ==
  ASSUME TypeOK, RowInv, LockInv, ProgressInv, AdmittedInv, Next
  PROVE  AdmittedInv'
<1> USE DEF TypeOK, AdmittedInv, AddressesOf, At, Goto, handlerVars, eventVars,
        rowVars, jobVars, workVars, slotVars
<1>1. ASSUME NEW a \in Analyses, HandlerStep(a) PROVE AdmittedInv'
  BY <1>1 DEF HandlerStep, CheckRequest, InsertRow, EnqueueAnalysis, HandlerFails,
              Complete
<1>2. ASSUME NEW s \in Slots, NEW a \in Analyses, PickUp(s, a) PROVE AdmittedInv'
  BY <1>2 DEF PickUp
<1>3. ASSUME NEW a \in Analyses, QueueStep(a) PROVE AdmittedInv'
  BY <1>3 DEF QueueStep, BackoffElapses, StalledCheck
<1>4. ASSUME NEW s \in Slots, MarkIngesting(s) PROVE AdmittedInv'
  BY <1>4 DEF MarkIngesting, Complete
<1>5. ASSUME NEW s \in Slots, Persist(s) PROVE AdmittedInv'
  BY <1>5 DEF Persist, Stored, ProgressInv, LockInv
<1>6. ASSUME NEW s \in Slots, Flip(s) PROVE AdmittedInv'
  BY <1>6 DEF Flip, ProgressInv
<1>7. ASSUME NEW s \in Slots, CatchMarksFailed(s) PROVE AdmittedInv'
  BY <1>7 DEF CatchMarksFailed, Complete
<1>8. ASSUME NEW s \in Slots, JobCompletes(s) \/ JobFails(s) PROVE AdmittedInv'
  BY <1>8 DEF JobCompletes, JobFails, Release
<1>9. CASE UNCHANGED <<req, rowVars, jobState>>
  BY <1>9
<1> QED
  BY <1>1, <1>2, <1>3, <1>4, <1>5, <1>6, <1>7, <1>8, <1>9
  DEF Next, WorkerStep, Age, LockExpires, WorkerCrashes, Gather, Score,
      CreateNotification, DeliverWebhook, RecordDelivery, Throws, Quiescent, vars

\* A step announces nothing but stored results.
LEMMA EventsStep ==
  ASSUME TypeOK, ProgressInv, EventsFollowResults, Next
  PROVE  EventsFollowResults'
<1> USE DEF TypeOK, EventsFollowResults, At, handlerVars, eventVars, rowVars
<1>1. ASSUME NEW s \in Slots, Persist(s) PROVE EventsFollowResults'
  BY <1>1 DEF Persist, Stored
<1>2. ASSUME NEW s \in Slots, Flip(s) PROVE EventsFollowResults'
  BY <1>2 DEF Flip
<1>3. ASSUME NEW s \in Slots, CreateNotification(s) PROVE EventsFollowResults'
  BY <1>3 DEF CreateNotification, Stored, ProgressInv
<1>4. ASSUME NEW s \in Slots, DeliverWebhook(s) PROVE EventsFollowResults'
  BY <1>4 DEF DeliverWebhook, Stored, ProgressInv
<1>5. ASSUME NEW s \in Slots, RecordDelivery(s) PROVE EventsFollowResults'
  BY <1>5 DEF RecordDelivery, Stored, ProgressInv
<1>6. CASE UNCHANGED <<persisted, completedAt, eventVars>>
  BY <1>6
<1> QED
  BY <1>1, <1>2, <1>3, <1>4, <1>5, <1>6
  DEF Next, HandlerStep, QueueStep, WorkerStep, CheckRequest, InsertRow,
      EnqueueAnalysis, HandlerFails, Age, BackoffElapses, StalledCheck, PickUp,
      LockExpires, WorkerCrashes, MarkIngesting, Gather, Score, Throws,
      CatchMarksFailed, JobCompletes, JobFails, Release, Quiescent, vars

\* A step that decides about the job leaves the row in agreement with it.
LEMMA RowAgreesStep ==
  ASSUME TypeOK, QueueInv, RowInv, LockInv, OutcomeInv, RowAgreesWithJob, Next
  PROVE  RowAgreesWithJob'
<1> USE DEF TypeOK, RowAgreesWithJob, At, handlerVars, eventVars, rowVars, jobVars,
        workVars, slotVars
<1>0. NoSlot \notin Slots /\ MaxStalledCount \in Nat
  BY LifecycleAssumption
<1>1. ASSUME NEW a \in Analyses, HandlerStep(a) PROVE RowAgreesWithJob'
  BY <1>1 DEF HandlerStep, CheckRequest, InsertRow, EnqueueAnalysis, HandlerFails,
              RowInv
<1>2. ASSUME NEW s \in Slots, NEW a \in Analyses, PickUp(s, a)
      PROVE  RowAgreesWithJob'
  BY <1>2 DEF PickUp
<1>3. ASSUME NEW a \in Analyses, BackoffElapses(a) PROVE RowAgreesWithJob'
  BY <1>3 DEF BackoffElapses
<1>4. ASSUME NEW a \in Analyses, StalledCheck(a) PROVE RowAgreesWithJob'
  BY <1>4, <1>0 DEF StalledCheck, QueueInv
<1>5. ASSUME NEW s \in Slots, LockExpires(s) PROVE RowAgreesWithJob'
  BY <1>5 DEF LockExpires
\* While a slot writes to the row of a faultless analysis, its job is active.
<1>6. ASSUME NEW s \in Slots, pc[s] # "idle", faults[working[s]] = {}
      PROVE  jobState[working[s]] = "active" /\ owner[working[s]] = s
  BY <1>0, <1>6 DEF LockInv, QueueInv
<1>7. ASSUME NEW s \in Slots, MarkIngesting(s) \/ Flip(s)
      PROVE  RowAgreesWithJob'
  BY <1>6, <1>7 DEF MarkIngesting, Flip
<1>8. ASSUME NEW s \in Slots, CatchMarksFailed(s) PROVE RowAgreesWithJob'
  BY <1>6, <1>8 DEF CatchMarksFailed
<1>9. ASSUME NEW s \in Slots, JobCompletes(s) PROVE RowAgreesWithJob'
  BY <1>9 DEF JobCompletes, Release, OutcomeInv
<1>10. ASSUME NEW s \in Slots, JobFails(s) PROVE RowAgreesWithJob'
  BY <1>10 DEF JobFails, Release, OutcomeInv
<1>11. CASE UNCHANGED <<status, jobState, stalls, faults>>
  BY <1>11
<1> QED
  BY <1>1, <1>2, <1>3, <1>4, <1>5, <1>7, <1>8, <1>9, <1>10, <1>11
  DEF Next, QueueStep, WorkerStep, Age, WorkerCrashes, Gather, Score, Persist,
      CreateNotification, DeliverWebhook, RecordDelivery, Throws, Quiescent, vars

\* The inductive invariant holds before the first request.
LEMMA InitIInv ==
  ASSUME Init
  PROVE  IInv
<1> USE DEF Init
<1>0. /\ Attempts \in Nat \ {0} /\ MaxStalledCount \in Nat /\ NoSlot \notin Slots
      /\ NoAnalysis \notin Analyses
  BY LifecycleAssumption
<1>1. TypeOK
  BY <1>0 DEF TypeOK, Statuses, Terminal, Complete, Finished, Runs, PCs, Awaits
<1>2. QueueInv /\ RowInv  BY <1>0 DEF QueueInv, RowInv, Finished
<1>3. LockInv /\ ProgressInv /\ OutcomeInv
  BY DEF LockInv, ProgressInv, OutcomeInv
<1>4. AdmittedInv /\ EventsFollowResults /\ RowAgreesWithJob
  BY DEF AdmittedInv, EventsFollowResults, RowAgreesWithJob, Complete
<1> QED  BY <1>1, <1>2, <1>3, <1>4 DEF IInv

\* Every step preserves the inductive invariant.
LEMMA StepIInv ==
  ASSUME IInv, [Next]_vars
  PROVE  IInv'
<1>1. CASE Next
  BY <1>1, TypeStep, QueueInvStep, RowInvStep, LockInvStep, ProgressInvStep,
     OutcomeInvStep, AdmittedInvStep, EventsStep, RowAgreesStep DEF IInv
<1>2. CASE UNCHANGED vars
  <2> USE <1>2 DEF IInv, vars, handlerVars, eventVars, rowVars, jobVars, slotVars,
      workVars
  <2>1. TypeOK'  BY DEF TypeOK
  <2>2. QueueInv' /\ RowInv' /\ LockInv'  BY DEF QueueInv, RowInv, LockInv
  <2>3. ProgressInv' /\ OutcomeInv' /\ AdmittedInv'
    BY DEF ProgressInv, OutcomeInv, AdmittedInv, AddressesOf
  <2>4. EventsFollowResults' /\ RowAgreesWithJob'
    BY DEF EventsFollowResults, RowAgreesWithJob
  <2> QED  BY <2>1, <2>2, <2>3, <2>4
<1> QED  BY <1>1, <1>2

\* The inductive invariant: what the row, the job, the locks and the slots
\* agree on in every state the API, the queue and the worker can reach.
THEOREM Invariance == Spec => []IInv
<1>1. Init => IInv  BY InitIInv
<1>2. IInv /\ [Next]_vars => IInv'  BY StepIInv
<1> QED  BY <1>1, <1>2, PTL DEF Spec

\* No run is numbered past the attempts and redeliveries BullMQ allows, and
\* every other variable stays in its range, for any number of requests,
\* customers, slots and attempts.
THEOREM TypeCorrect == Spec => []TypeOK
<1>1. IInv => TypeOK  BY DEF IInv
<1> QED  BY <1>1, Invariance, PTL

\* A client that sees a complete status finds results
\* (analyze.worker.ts:174-176), whatever crashes, retries or runs twice.
THEOREM ResultsAreThere == Spec => []ResultsBeforeComplete
<1>1. IInv => ResultsBeforeComplete
  BY DEF IInv, AdmittedInv, ResultsBeforeComplete
<1> QED  BY <1>1, Invariance, PTL

\* Nobody is notified of an analysis whose scores are not stored
\* (analyze.worker.ts:263-295).
THEOREM EventsAreTrue == Spec => []EventsFollowResults
<1>1. IInv => EventsFollowResults  BY DEF IInv
<1> QED  BY <1>1, Invariance, PTL

\* The plan's address cap binds inline lists and files alike
\* (routes/analyses.ts:49-56, analyze.worker.ts:99-107).
THEOREM CapBinds == Spec => []OversizedNeverScored
<1>1. IInv => OversizedNeverScored
  BY DEF IInv, AdmittedInv, OversizedNeverScored
<1> QED  BY <1>1, Invariance, PTL

\* Without a lost lock no analysis is ever worked on twice at once.
THEOREM OneSlotPerAnalysis == Spec => []NoDoubleProcessing
<1>1. ASSUME IInv PROVE NoDoubleProcessing
  <2> SUFFICES ASSUME NEW a \in Analyses, "lockLost" \notin faults[a],
                      NEW s \in Slots, NEW t \in Slots,
                      working[s] = a, working[t] = a
               PROVE  s = t
    BY DEF NoDoubleProcessing
  <2>1. pc[s] # "idle"  BY <1>1, LifecycleAssumption DEF IInv, TypeOK
  <2> QED  BY <1>1, <2>1, LoneSlot DEF IInv
<1> QED  BY <1>1, Invariance, PTL

\* Absent faults, the row shows what BullMQ decided about the job.
THEOREM RowAgrees == Spec => []RowAgreesWithJob
<1>1. IInv => RowAgreesWithJob  BY DEF IInv
<1> QED  BY <1>1, Invariance, PTL

\* Retries and redeliveries never store more copies of the scores than the
\* configured attempts plus the allowed stalls (pipeline-client.ts:45-50).
THEOREM BoundedCopies == Spec => []CopiesBounded
<1>1. ASSUME IInv, NEW a \in Analyses
      PROVE  Cardinality(persisted[a]) <= Attempts + MaxStalledCount
  <2>1. Attempts + MaxStalledCount \in Nat /\ Attempts + MaxStalledCount >= 1
    BY LifecycleAssumption
  <2>2. IsFiniteSet(Runs) /\ Cardinality(Runs) = Attempts + MaxStalledCount
    BY <2>1, FS_Interval DEF Runs
  <2>3. persisted[a] \subseteq Runs  BY <1>1 DEF IInv, TypeOK
  <2> QED  BY <2>2, <2>3, FS_Subset
<1>2. IInv => CopiesBounded  BY <1>1 DEF CopiesBounded
<1> QED  BY <1>2, Invariance, PTL

\* Writing a status changes the view of that row only.
LEMMA ViewWrite ==
  ASSUME NEW st, NEW x \in Analyses, TypeOK, status' = [status EXCEPT ![x] = st]
  PROVE  [a \in Analyses |-> ViewOf(status[a])]'
           = [[a \in Analyses |-> ViewOf(status[a])] EXCEPT ![x] = ViewOf(st)]
BY DEF TypeOK

\* Every step is one of the contract's, or leaves the client's view as it is.
LEMMA ContractStep ==
  ASSUME IInv, Next
  PROVE  [Contract!Next]_(Contract!contractVars)
<1>0. /\ TypeOK /\ LockInv /\ RowInv /\ ProgressInv
      /\ status \in [Analyses -> Statuses]
      /\ persisted \in [Analyses -> SUBSET Runs]
      /\ notified \in [Analyses -> SUBSET Runs]
      /\ \A s \in Slots : pc[s] # "idle" => working[s] \in Analyses
  BY DEF IInv, TypeOK
<1>01. \A s \in Slots : pc[s] # "idle" => ViewOf(status[working[s]]) # "none"
  BY <1>0 DEF LockInv, RowInv, Statuses, Terminal, ViewOf
<1> USE DEF At, handlerVars, eventVars, rowVars
<1>1. ASSUME NEW a \in Analyses, InsertRow(a)
      PROVE  Contract!Submit(a)
  <2>1. ViewOf(status[a]) = "none"
    BY <1>0, <1>1 DEF InsertRow, RowInv, ViewOf, Complete
  <2>2. ViewOf("pending") = "waiting"  BY DEF ViewOf
  <2> QED  BY <1>0, <1>1, <2>1, <2>2, ViewWrite DEF InsertRow, Contract!Submit
<1>2. ASSUME NEW s \in Slots, MarkIngesting(s)
      PROVE  Contract!Work(working[s])
  <2>1. ViewOf("ingesting") = "waiting"  BY DEF ViewOf
  <2> QED  BY <1>0, <1>01, <1>2, <2>1, ViewWrite DEF MarkIngesting, Contract!Work
<1>3. ASSUME NEW s \in Slots, Persist(s)
      PROVE  Contract!Publish(working[s])
  BY <1>0, <1>01, <1>3 DEF Persist, Stored, Contract!Publish
<1>4. ASSUME NEW s \in Slots, Flip(s)
      PROVE  Contract!Ready(working[s])
  <2>1. \A st \in Complete : ViewOf(st) = "ready"  BY DEF ViewOf, Complete
  <2>2. PICK st \in Complete : status' = [status EXCEPT ![working[s]] = st]
    BY <1>4 DEF Flip, Complete
  <2>3. persisted[working[s]] # {}  BY <1>0, <1>4 DEF Flip, ProgressInv
  <2> QED  BY <1>0, <1>4, <2>1, <2>2, <2>3, ViewWrite DEF Flip, Contract!Ready
<1>5. ASSUME NEW s \in Slots, CreateNotification(s)
      PROVE  Contract!Announce(working[s])
  <2>1. persisted[working[s]] # {}
    BY <1>0, <1>5 DEF CreateNotification, ProgressInv
  <2> QED  BY <1>0, <1>5, <2>1 DEF CreateNotification, Stored, Contract!Announce
<1>6. ASSUME NEW s \in Slots, CatchMarksFailed(s)
      PROVE  \/ Contract!Fail(working[s])
             \/ UNCHANGED <<status, persisted, notified>>
  <2>1. ViewOf("failed") = "failed"  BY DEF ViewOf, Complete
  <2> QED
    BY <1>0, <1>01, <1>6, <2>1, ViewWrite DEF CatchMarksFailed, Contract!Fail
<1>7. ASSUME UNCHANGED <<status, persisted, notified>>
      PROVE  UNCHANGED Contract!contractVars
  BY <1>7 DEF Contract!contractVars
<1>8. ASSUME NEW s \in Slots, WorkerStep(s)
      PROVE  \/ \E a \in Analyses : \/ Contract!Work(a) \/ Contract!Publish(a)
                                    \/ Contract!Ready(a) \/ Contract!Fail(a)
                                    \/ Contract!Announce(a)
             \/ UNCHANGED <<status, persisted, notified>>
  <2>1. CASE UNCHANGED <<status, persisted, notified>>  BY <2>1
  <2>2. CASE \/ MarkIngesting(s) \/ Persist(s) \/ Flip(s) \/ CreateNotification(s)
             \/ CatchMarksFailed(s)
    <3>1. working[s] \in Analyses
      BY <1>0, <2>2 DEF MarkIngesting, Persist, Flip, CreateNotification,
                        CatchMarksFailed
    <3>2. CASE MarkIngesting(s)  BY <1>2, <3>1, <3>2
    <3>3. CASE Persist(s)  BY <1>3, <3>1, <3>3 DEF Contract!Publish
    <3>4. CASE Flip(s)  BY <1>4, <3>1, <3>4
    <3>5. CASE CreateNotification(s)  BY <1>5, <3>1, <3>5 DEF Contract!Announce
    <3>6. CASE CatchMarksFailed(s)  BY <1>6, <3>1, <3>6
    <3> QED  BY <2>2, <3>2, <3>3, <3>4, <3>5, <3>6
  <2> QED
    BY <1>8, <2>1, <2>2
    DEF WorkerStep, Gather, Score, DeliverWebhook, RecordDelivery, Throws,
        JobCompletes, JobFails, Release
<1>9. CASE UNCHANGED <<status, persisted, notified>>  BY <1>7, <1>9
<1> QED
  BY <1>1, <1>7, <1>8, <1>9
  DEF Next, HandlerStep, QueueStep, CheckRequest, EnqueueAnalysis, HandlerFails,
      Age, BackoffElapses, StalledCheck, PickUp, LockExpires, WorkerCrashes,
      Quiescent, vars, Contract!Next

\* The lifecycle implements the contract with the client, for any number of
\* requests, slots, attempts and redeliveries.
THEOREM Refinement == Spec => ImplementsContract
<1>1. Init => Contract!Init
  BY DEF Init, ViewOf, Complete, Contract!Init
<1>2. IInv /\ [Next]_vars => [Contract!Next]_(Contract!contractVars)
  <2>1. ASSUME UNCHANGED vars PROVE UNCHANGED Contract!contractVars
    BY <2>1 DEF vars, eventVars, rowVars, Contract!contractVars
  <2> QED  BY <2>1, ContractStep
<1> QED  BY <1>1, <1>2, Invariance, PTL DEF Spec, ImplementsContract, Contract!Spec
=============================================================================
