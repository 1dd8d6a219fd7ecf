--------------------------- MODULE FirstSightProofs ---------------------------
(***************************************************************************)
(* A key is ingested once, for any number of keys, callers and restarts.   *)
(* SpendOnce is not inductive: it rests on FlightInv (the run in flight for *)
(* a key is the only one) and on SpendInv (an ingest leaves either a row   *)
(* or a run that is still in flight).                                      *)
(***************************************************************************)
EXTENDS FirstSight, TLAPS

\* The initial state satisfies the inductive invariant.
LEMMA InitIInv == Init => IInv
<1> SUFFICES ASSUME Init PROVE IInv
  OBVIOUS
<1> USE FirstSightAssumption DEF Init
<1>1. CallerTypes /\ RunTypes
  BY DEF CallerTypes, RunTypes, RowKinds, Answers, Awaits
<1>2. DataTypes
  BY DEF DataTypes
<1>3. {customer, cachedId} \subseteq BOOLEAN
  <2>1. customer = FALSE /\ cachedId = FALSE
    BY Zenon
  <2> QED
    BY <2>1, Zenon
<1>4. SystemInv
  BY DEF SystemInv
<1>5. FlightInv /\ SpendInv /\ SpendOnce
  BY DEF FlightInv, SpendInv, SpendOnce, Ingests
<1> QED
  BY <1>1, <1>2, <1>3, <1>4, <1>5 DEF IInv, TypeOK

----------------------------------------------------------------------------
(* What the two ways to end an await do to the runs in flight.             *)

\* A run that goes on to its next await stays the run in flight for its key.
LEMMA GotoFlight ==
  ASSUME IInv, NEW c \in Callers, work[c] # "none",
         NEW await \in Awaits, Goto(c, await),
         UNCHANGED <<caller, joined, inFlight>>
  PROVE  FlightInv'
<1> USE FirstSightAssumption DEF IInv, TypeOK, RunTypes
<1> QED
  BY DEF FlightInv, Goto, Awaits

\* A run past its lookup that goes on is an ingest before and after.
LEMMA GotoSpend ==
  ASSUME IInv, NEW c \in Callers, work[c] \notin {"none", "lookup"},
         NEW await \in Awaits \ {"lookup"}, Goto(c, await),
         UNCHANGED <<caller, joined, inFlight, ingested, rows>>
  PROVE  SpendInv' /\ SpendOnce'
<1> USE FirstSightAssumption DEF IInv, TypeOK, RunTypes, Goto
<1>1. SpendInv'
  BY DEF SpendInv, Ingests, Awaits
<1>2. SpendOnce'
  BY DEF SpendOnce, Ingests
<1> QED
  BY <1>1, <1>2

\* A run that settles leaves the map together with all who wait for it.
LEMMA SettleFlight ==
  ASSUME IInv, NEW c \in Callers, work[c] # "none",
         NEW answer \in Answers, Settle(c, answer)
  PROVE  FlightInv' /\ caller' \in [Callers -> {"new", "waiting"} \union Answers]
<1> USE FirstSightAssumption DEF IInv, TypeOK, CallerTypes, RunTypes
<1>1. /\ inFlight' = [inFlight EXCEPT ![KeyOf[c]] = NoCaller]
      /\ work' = [work EXCEPT ![c] = "none"]
      /\ caller' = [d \in Callers |->
                      IF caller[d] = "waiting" /\ joined[d] = c
                        THEN answer ELSE caller[d]]
      /\ joined' = joined
  BY DEF Settle, Goto, Waiters
<1>2. \A k \in Keys : inFlight'[k] # NoCaller =>
        KeyOf[inFlight'[k]] = k /\ work'[inFlight'[k]] # "none"
  BY <1>1 DEF FlightInv
<1>3. \A d \in Callers : work'[d] # "none" =>
        inFlight'[KeyOf[d]] = d /\ caller'[d] # "new"
  BY <1>1 DEF FlightInv, Answers
<1>4. \A d \in Callers : caller'[d] = "waiting" =>
        inFlight'[KeyOf[d]] = joined'[d] /\ joined'[d] # NoCaller
  BY <1>1 DEF FlightInv, Answers
<1>5. caller' \in [Callers -> {"new", "waiting"} \union Answers]
  BY <1>1
<1> QED
  BY <1>2, <1>3, <1>4, <1>5 DEF FlightInv

\* A settled ingest has either come to nothing or left a row.
LEMMA SettleSpend ==
  ASSUME IInv, NEW c \in Callers, work[c] # "none",
         NEW answer \in Answers, Settle(c, answer), ingested' = ingested,
         \A k \in Keys : rows[k] # "none" => rows'[k] # "none",
         ingested[c] /\ answer \notin {"failed", "error"}
           => rows'[KeyOf[c]] # "none"
  PROVE  SpendInv' /\ SpendOnce'
<1> USE FirstSightAssumption DEF IInv, TypeOK, CallerTypes, RunTypes
<1>1. /\ inFlight' = [inFlight EXCEPT ![KeyOf[c]] = NoCaller]
      /\ work' = [work EXCEPT ![c] = "none"]
      /\ caller' = [d \in Callers |->
                      IF caller[d] = "waiting" /\ joined[d] = c
                        THEN answer ELSE caller[d]]
      /\ joined' = joined
  BY DEF Settle, Goto, Waiters
<1>2. \A k \in Keys : Ingests(k)' \subseteq Ingests(k)
  BY <1>1 DEF Ingests
<1>3. SpendOnce'
  BY <1>2 DEF SpendOnce
<1>4. \A k \in Keys : \A d \in Ingests(k)' :
        rows'[k] # "none" \/ (work'[d] # "none" /\ inFlight'[k] = d)
  <2> SUFFICES ASSUME NEW k \in Keys, NEW d \in Ingests(k)'
               PROVE  rows'[k] # "none" \/ (work'[d] # "none" /\ inFlight'[k] = d)
    OBVIOUS
  <2>1. d \in Ingests(k) /\ d \in Callers /\ KeyOf[d] = k /\ ingested[d]
    BY <1>2 DEF Ingests
  <2>2. CASE rows[k] # "none"
    BY <2>2
  <2>3. CASE d = c
    <3>1. caller[c] = "waiting" /\ joined[c] = c
      BY DEF SpendInv
    <3>2. caller'[c] = answer
      BY <1>1, <3>1
    <3> QED
      BY <2>1, <2>3, <3>2 DEF Ingests
  <2>4. CASE rows[k] = "none" /\ d # c
    <3>1. work[d] # "none" /\ inFlight[k] = d
      BY <2>1, <2>4 DEF SpendInv
    <3>2. KeyOf[c] # k
      BY <2>4, <3>1 DEF FlightInv
    <3> QED
      BY <1>1, <2>4, <3>1, <3>2
  <2> QED
    BY <2>2, <2>3, <2>4
<1>5. SpendInv'
  <2>1. \A d \in Callers : work'[d] # "none" =>
          /\ work[d] = work'[d] /\ d # c
          /\ caller'[d] = "waiting" /\ joined'[d] = d
    BY <1>1 DEF SpendInv
  <2>2. \A d \in Callers : caller'[d] = "new" => caller[d] = "new"
    BY <1>1 DEF Answers
  <2> QED
    BY <1>1, <1>4, <2>1, <2>2 DEF SpendInv
<1> QED
  BY <1>3, <1>5

----------------------------------------------------------------------------
(* One lemma per action.                                                   *)

\* Joining or starting a run.
LEMMA RequestStep == ASSUME NEW c \in Callers, IInv, Request(c) PROVE IInv'
<1> USE FirstSightAssumption DEF IInv, TypeOK, CallerTypes, RunTypes
<1>1. CallerTypes'
  BY DEF Request, Goto, RowKinds, Answers, Awaits
<1>2. RunTypes'
  BY DEF Request, Goto, RowKinds, Answers, Awaits
<1>3. DataTypes'
  BY DEF DataTypes, Request, systemVars
<1>4. ({customer, cachedId} \subseteq BOOLEAN)'
  BY DEF Request, systemVars
<1>5. SystemInv'
  BY DEF SystemInv, Request, Goto, systemVars
<1>6. FlightInv'
  <2>1. CASE inFlight[KeyOf[c]] # NoCaller
    BY <2>1 DEF FlightInv, Request
  <2>2. CASE inFlight[KeyOf[c]] = NoCaller
    <3>1. /\ joined' = [joined EXCEPT ![c] = c]
          /\ inFlight' = [inFlight EXCEPT ![KeyOf[c]] = c]
          /\ work' = [work EXCEPT ![c] = "lookup"]
          /\ caller' = [caller EXCEPT ![c] = "waiting"]
      BY <2>2 DEF Request, Goto
    <3>2. \A k \in Keys : inFlight'[k] # NoCaller =>
            KeyOf[inFlight'[k]] = k /\ work'[inFlight'[k]] # "none"
      BY <3>1 DEF FlightInv
    <3>3. \A d \in Callers : work'[d] # "none" =>
            inFlight'[KeyOf[d]] = d /\ caller'[d] # "new"
      BY <2>2, <3>1 DEF FlightInv
    <3>4. \A d \in Callers : caller'[d] = "waiting" =>
            inFlight'[KeyOf[d]] = joined'[d] /\ joined'[d] # NoCaller
      BY <2>2, <3>1 DEF FlightInv
    <3> QED
      BY <3>2, <3>3, <3>4 DEF FlightInv
  <2> QED
    BY <2>1, <2>2
<1>7. SpendInv'
  BY DEF FlightInv, SpendInv, Request, Goto, Ingests
<1>8. SpendOnce'
  BY DEF SpendOnce, SpendInv, Request, Goto, Ingests
<1> QED
  BY <1>1, <1>2, <1>3, <1>4, <1>5, <1>6, <1>7, <1>8

\* What a run that settles without a row leaves as it was.
LEMMA SettleRest ==
  ASSUME IInv, NEW c \in Callers, work[c] # "none",
         NEW answer \in Answers, Settle(c, answer),
         UNCHANGED <<scored, rows, systemVars, restarts, ingested>>,
         fresh' \in [Callers -> BOOLEAN],
         served' \in [Callers -> RowKinds \union {"none"}]
  PROVE  TypeOK' /\ SystemInv'
<1> USE FirstSightAssumption DEF IInv, TypeOK
<1>1. CallerTypes'
  BY SettleFlight DEF CallerTypes, Settle
<1>2. RunTypes'
  BY DEF RunTypes, CallerTypes, Settle, Goto, Awaits
<1>3. DataTypes'
  BY DEF DataTypes, systemVars
<1>4. ({customer, cachedId} \subseteq BOOLEAN)'
  BY DEF systemVars
<1>5. SystemInv'
  BY DEF SystemInv, RunTypes, Settle, Goto, systemVars
<1> QED
  BY <1>1, <1>2, <1>3, <1>4, <1>5

\* A cached row is no ingest.
LEMMA LookupHitStep == ASSUME NEW c \in Callers, IInv, LookupHit(c) PROVE IInv'
<1>1. /\ work[c] # "none" /\ ~ ingested[c]
      /\ Settle(c, "row") /\ "row" \in Answers
      /\ UNCHANGED <<scored, ingested, rows, systemVars, restarts>>
  BY DEF LookupHit, SettleWithRow, IInv, SpendInv, Answers
<1>2. /\ fresh' \in [Callers -> BOOLEAN]
      /\ served' \in [Callers -> RowKinds \union {"none"}]
  BY FirstSightAssumption
     DEF LookupHit, SettleWithRow, IInv, TypeOK, CallerTypes, DataTypes
<1>3. TypeOK' /\ SystemInv'
  BY <1>1, <1>2, SettleRest
<1>4. FlightInv'
  BY <1>1, SettleFlight
<1>5. SpendInv' /\ SpendOnce'
  BY <1>1, SettleSpend
<1> QED
  BY <1>3, <1>4, <1>5 DEF IInv

\* A run that is refused, that the ML service fails, or that throws.
LEMMA SettleEmptyStep ==
  ASSUME NEW c \in Callers, IInv, work[c] # "none",
         NEW answer \in Answers, Settle(c, answer),
         answer \in {"failed", "error"} \/ ~ ingested[c],
         UNCHANGED <<fresh, served, scored, ingested, rows, systemVars, restarts>>
  PROVE  IInv'
<1>1. /\ fresh' \in [Callers -> BOOLEAN]
      /\ served' \in [Callers -> RowKinds \union {"none"}]
  BY DEF IInv, TypeOK, CallerTypes
<1>2. TypeOK' /\ SystemInv'
  BY <1>1, SettleRest
<1>3. FlightInv'
  BY SettleFlight
<1>4. SpendInv' /\ SpendOnce'
  BY SettleSpend
<1> QED
  BY <1>2, <1>3, <1>4 DEF IInv

\* A run that finds no row in the cache has no other ingest of its key beside it.
LEMMA LookupMissStep == ASSUME NEW c \in Callers, IInv, LookupMiss(c) PROVE IInv'
<1>1. /\ work[c] = "lookup" /\ ~ ingested[c] /\ rows[KeyOf[c]] = "none"
      /\ UNCHANGED <<fresh, served, scored, rows, systemVars, restarts>>
  BY DEF LookupMiss, IInv, SpendInv
<1>2. CASE Settle(c, "throttled") /\ UNCHANGED ingested
  BY <1>1, <1>2, SettleEmptyStep DEF Answers
<1>3. CASE /\ Goto(c, "ml")
           /\ ingested' = [ingested EXCEPT ![c] = TRUE]
           /\ UNCHANGED <<caller, joined, inFlight>>
  <2> USE FirstSightAssumption DEF IInv, TypeOK
  <2>1. CallerTypes' /\ RunTypes'
    BY <1>1, <1>3 DEF CallerTypes, RunTypes, Goto, Awaits
  <2>2. DataTypes'
    BY <1>1 DEF DataTypes, systemVars
  <2>3. ({customer, cachedId} \subseteq BOOLEAN)'
    BY <1>1 DEF systemVars
  <2>4. SystemInv'
    BY <1>1, <1>3 DEF SystemInv, RunTypes, Goto, systemVars
  <2>5. FlightInv'
    BY <1>1, <1>3, GotoFlight DEF Awaits
  <2>6. inFlight[KeyOf[c]] = c
    BY <1>1 DEF FlightInv
  <2>7. SpendInv'
    BY <1>1, <1>3, <2>6 DEF SpendInv, Ingests, Goto, RunTypes
  <2>8. \A k \in Keys : \A d \in Ingests(k)' : d \in Ingests(k) \/ d = c
    BY <1>3 DEF Ingests, RunTypes
  <2>9. Ingests(KeyOf[c]) \subseteq {c}
    BY <1>1, <2>6 DEF SpendInv
  <2>10. \A k \in Keys : k # KeyOf[c] => c \notin Ingests(k)'
    BY DEF Ingests
  <2>11. SpendOnce'
    BY <2>8, <2>9, <2>10 DEF SpendOnce
  <2> QED
    BY <2>1, <2>2, <2>3, <2>4, <2>5, <2>7, <2>11
<1> QED
  BY <1>1, <1>2, <1>3 DEF LookupMiss

\* The steps of ensureSystemAnalysisId(), and the answer that leads to it.
LEMMA SystemStep ==
  ASSUME NEW c \in Callers, IInv,
         \/ MlAnswers(c) \/ SelectCustomer(c) \/ InsertCustomer(c)
         \/ SelectAnalysis(c) \/ InsertAnalysis(c)
  PROVE  IInv'
<1> USE FirstSightAssumption DEF IInv, TypeOK
<1> DEFINE to == work'[c]
<1>1. /\ work[c] \notin {"none", "lookup"}
      /\ to \in Awaits \ {"lookup"} /\ Goto(c, to)
      /\ UNCHANGED <<callerVars, inFlight, ingested, rows, restarts>>
  BY DEF MlAnswers, SelectCustomer, InsertCustomer, SelectAnalysis,
         InsertAnalysis, Goto, Awaits, RunTypes
<1>2. CallerTypes'
  BY <1>1 DEF CallerTypes, callerVars
<1>3. RunTypes'
  BY <1>1 DEF RunTypes, Goto, MlAnswers, SelectCustomer, InsertCustomer,
              SelectAnalysis, InsertAnalysis
<1>4. DataTypes'
  BY <1>1 DEF DataTypes, systemVars, MlAnswers, SelectCustomer, InsertCustomer,
              SelectAnalysis, InsertAnalysis
<1>5. ({customer, cachedId} \subseteq BOOLEAN)'
  BY DEF systemVars, MlAnswers, SelectCustomer, InsertCustomer,
         SelectAnalysis, InsertAnalysis
<1>6. SystemInv'
  <2>1. CASE MlAnswers(c)
    BY <2>1 DEF SystemInv, RunTypes, Goto, MlAnswers, systemVars
  <2>2. CASE SelectCustomer(c)
    BY <2>2 DEF SystemInv, RunTypes, Goto, SelectCustomer, systemVars
  <2>3. CASE InsertCustomer(c)
    BY <2>3 DEF SystemInv, RunTypes, Goto, InsertCustomer
  <2>4. CASE SelectAnalysis(c)
    <3>1. customer' = customer /\ analyses' = analyses
      BY <2>4 DEF SelectAnalysis
    <3>2. customer
      BY <2>4 DEF SystemInv, SelectAnalysis
    <3>3. cachedId' => analyses > 0
      BY <2>4 DEF SystemInv, SelectAnalysis
    <3>4. work' = [work EXCEPT ![c] = IF analyses > 0 THEN "insertScore"
                                                      ELSE "insertAnalysis"]
      BY <2>4 DEF SelectAnalysis, Goto
    <3>5. scored' = scored /\ scored[c] # "none"
      BY <2>4 DEF SystemInv, SelectAnalysis
    <3> QED
      BY <3>1, <3>2, <3>3, <3>4, <3>5 DEF SystemInv, RunTypes
  <2>5. CASE InsertAnalysis(c)
    <3>1. customer' = customer /\ analyses' > 0
      BY <2>5 DEF InsertAnalysis, DataTypes
    <3>2. customer
      BY <2>5 DEF SystemInv, InsertAnalysis
    <3>3. work' = [work EXCEPT ![c] = "insertScore"]
      BY <2>5 DEF InsertAnalysis, Goto
    <3>4. scored' = scored /\ scored[c] # "none"
      BY <2>5 DEF SystemInv, InsertAnalysis
    <3> QED
      BY <3>1, <3>2, <3>3, <3>4 DEF SystemInv, RunTypes
  <2> QED
    BY <2>1, <2>2, <2>3, <2>4, <2>5
<1>7. FlightInv'
  BY <1>1, GotoFlight DEF callerVars
<1>8. SpendInv' /\ SpendOnce'
  BY <1>1, GotoSpend DEF callerVars
<1> QED
  BY <1>2, <1>3, <1>4, <1>5, <1>6, <1>7, <1>8

\* The row is stored, whether or not the reply arrives.
LEMMA InsertScoreStep == ASSUME NEW c \in Callers, IInv, InsertScore(c) PROVE IInv'
<1> USE FirstSightAssumption DEF IInv, TypeOK
<1> PICK answer \in {"row", "error"} : Settle(c, answer)
  BY DEF InsertScore, SettleWithRow
<1>1. /\ work[c] = "insertScore" /\ answer \in Answers
      /\ scored[c] \in {"full", "partial"}
      /\ rows' = [rows EXCEPT ![KeyOf[c]] = scored[c]]
      /\ UNCHANGED <<scored, ingested, systemVars, restarts>>
  BY DEF InsertScore, SystemInv, RunTypes, Answers
<1>2. /\ fresh' \in [Callers -> BOOLEAN]
      /\ served' \in [Callers -> RowKinds \union {"none"}]
  BY <1>1 DEF InsertScore, SettleWithRow, CallerTypes, RowKinds
<1>3. FlightInv' /\ caller' \in [Callers -> {"new", "waiting"} \union Answers]
  BY <1>1, SettleFlight
<1>4. CallerTypes'
  BY <1>2, <1>3 DEF CallerTypes, Settle
<1>5. RunTypes'
  BY <1>1 DEF RunTypes, Settle, Goto, Awaits
<1>6. DataTypes'
  BY <1>1 DEF DataTypes, systemVars, RowKinds
<1>7. ({customer, cachedId} \subseteq BOOLEAN)'
  BY <1>1 DEF systemVars
<1>8. SystemInv'
  BY <1>1 DEF SystemInv, RunTypes, Settle, Goto, systemVars
<1>9. SpendInv' /\ SpendOnce'
  <2>1. \A k \in Keys : rows[k] # "none" => rows'[k] # "none"
    BY <1>1 DEF DataTypes
  <2>2. rows'[KeyOf[c]] # "none"
    BY <1>1 DEF DataTypes
  <2> QED
    BY <1>1, <2>1, <2>2, SettleSpend
<1> QED
  BY <1>3, <1>4, <1>5, <1>6, <1>7, <1>8, <1>9

\* Any step of a run of scoreAddress().
LEMMA RunStepStep == ASSUME NEW c \in Callers, IInv, RunStep(c) PROVE IInv'
<1>1. CASE LookupHit(c)
  BY <1>1, LookupHitStep
<1>2. CASE LookupMiss(c)
  BY <1>2, LookupMissStep
<1>3. CASE MlFails(c) \/ Throws(c)
  <2>1. PICK answer \in {"failed", "error"} : Settle(c, answer)
    BY <1>3 DEF MlFails, Throws
  <2>2. /\ answer \in Answers /\ work[c] # "none"
        /\ UNCHANGED <<fresh, served, scored, ingested, rows, systemVars, restarts>>
    BY <1>3 DEF MlFails, Throws, Answers, Awaits
  <2> QED
    BY <2>1, <2>2, SettleEmptyStep
<1>4. CASE InsertScore(c)
  BY <1>4, InsertScoreStep
<1>5. CASE \/ MlAnswers(c) \/ SelectCustomer(c) \/ InsertCustomer(c)
           \/ SelectAnalysis(c) \/ InsertAnalysis(c)
  BY <1>5, SystemStep
<1> QED
  BY <1>1, <1>2, <1>3, <1>4, <1>5 DEF RunStep

\* A row of the batch worker replaces a row or fills a gap.
LEMMA BatchStoresStep == ASSUME NEW k \in Keys, IInv, BatchStores(k) PROVE IInv'
<1> USE FirstSightAssumption DEF IInv, TypeOK
<1> PICK kind \in RowKinds : rows' = [rows EXCEPT ![k] = kind]
  BY DEF BatchStores
<1>1. UNCHANGED <<callerVars, inFlight, runVars, systemVars, restarts>>
  BY DEF BatchStores
<1>2. CallerTypes' /\ RunTypes'
  BY <1>1 DEF CallerTypes, RunTypes, callerVars, runVars
<1>3. DataTypes'
  BY <1>1 DEF DataTypes, systemVars
<1>4. ({customer, cachedId} \subseteq BOOLEAN)'
  BY <1>1 DEF systemVars
<1>5. SystemInv'
  BY <1>1 DEF SystemInv, systemVars, runVars
<1>6. FlightInv'
  BY <1>1 DEF FlightInv, callerVars, runVars
<1>7. \A j \in Keys : Ingests(j)' = Ingests(j)
  BY <1>1 DEF Ingests, callerVars, runVars
<1>8. SpendOnce'
  BY <1>7 DEF SpendOnce
<1>9. SpendInv'
  <2>1. \A j \in Keys : rows[j] # "none" => rows'[j] # "none"
    BY DEF DataTypes, RowKinds
  <2> QED
    BY <1>1, <1>7, <2>1 DEF SpendInv, callerVars, runVars
<1> QED
  BY <1>2, <1>3, <1>4, <1>5, <1>6, <1>8, <1>9

\* A restart loses every run, and with it the ingest that run had begun.
LEMMA RestartStep == ASSUME IInv, Restart PROVE IInv'
<1> USE FirstSightAssumption DEF IInv, TypeOK, Restart
<1>1. CallerTypes'
  BY DEF CallerTypes, Answers
<1>2. RunTypes'
  BY DEF RunTypes
<1>3. DataTypes'
  BY DEF DataTypes
<1>4. ({customer, cachedId} \subseteq BOOLEAN)'
  BY Zenon
<1>5. SystemInv'
  BY DEF SystemInv
<1>6. FlightInv'
  BY DEF FlightInv
<1>7. SpendInv'
  BY DEF SpendInv, Ingests, CallerTypes
<1>8. SpendOnce'
  BY DEF SpendOnce, Ingests
<1> QED
  BY <1>1, <1>2, <1>3, <1>4, <1>5, <1>6, <1>7, <1>8

----------------------------------------------------------------------------

\* Whatever the order of requests, awaits, failures, batch writes and
\* restarts, dedupeInFlight() and the cache keep the inductive invariant.
THEOREM Invariance == Spec => []IInv
<1>1. Init => IInv
  BY InitIInv
<1>2. IInv /\ [Next]_vars => IInv'
  <2> SUFFICES ASSUME IInv, [Next]_vars PROVE IInv'
    OBVIOUS
  <2>1. ASSUME NEW c \in Callers, Request(c) PROVE IInv'
    BY <2>1, RequestStep
  <2>2. ASSUME NEW c \in Callers, RunStep(c) PROVE IInv'
    BY <2>2, RunStepStep
  <2>3. ASSUME NEW k \in Keys, BatchStores(k) PROVE IInv'
    BY <2>3, BatchStoresStep
  <2>4. CASE Restart
    BY <2>4, RestartStep
  <2>5. CASE UNCHANGED vars
    BY <2>5 DEF IInv, TypeOK, CallerTypes, RunTypes, DataTypes, SystemInv,
                FlightInv, SpendInv, SpendOnce, Ingests, vars, callerVars,
                runVars, systemVars
  <2> QED
    BY <2>1, <2>2, <2>3, <2>4, <2>5 DEF Next
<1> QED
  BY <1>1, <1>2, PTL DEF Spec

\* A key is ingested again only after an ingest that came to nothing: an
\* address that is hammered costs Alchemy budget once.
THEOREM SpentOnce == Spec => []SpendOnce
<1>1. IInv => SpendOnce
  BY DEF IInv
<1> QED
  BY <1>1, Invariance, PTL

\* Nobody waits for a run that is over, and no key holds a run that is.
THEOREM NoStaleFlight == Spec => []FlightInv
<1>1. IInv => FlightInv
  BY DEF IInv
<1> QED
  BY <1>1, Invariance, PTL
=============================================================================
