----------------------------- MODULE FirstSight -----------------------------
(***************************************************************************)
(* POST /v1/score/first-sight (routes/first-sight.ts): one synchronous     *)
(* score of one address on one chain (a key), written through to           *)
(* address_scores.  Concurrent callers of a key share one run of           *)
(* scoreAddress() (lib/first-sight-inflight.ts); the first rows hang off a *)
(* system analysis that is created on demand.  The batch worker writes to  *)
(* the same table, and the API process, whose maps are in memory, may be   *)
(* restarted.  The budget of the throttle is FirstSightThrottle's.         *)
(***************************************************************************)
EXTENDS Naturals

CONSTANTS
  Keys,          \* address:chain
  Callers,       \* one per request
  KeyOf,         \* the key a caller asks for
  MaxRestarts,   \* bound of the model: how often the API process restarts
  NoCaller

ASSUME FirstSightAssumption ==
  /\ KeyOf \in [Callers -> Keys]
  /\ MaxRestarts \in Nat
  /\ NoCaller \notin Callers

VARIABLES
  caller,         \* what the caller has been answered so far
  joined,         \* the caller whose run of scoreAddress() it awaits
  fresh,          \* the first_sight flag of its answer
  served,         \* the row of its answer
  inFlight,       \* the map of dedupeInFlight()
  work,           \* the await at which a caller's own scoreAddress() is
  scored,         \* what the ML service returned to it
  ingested,       \* history: that run called the ML service
  rows,           \* the most recent address_scores row of a key
  customer,       \* the system customer exists
  analyses,       \* how many system analyses exist
  cachedId,       \* cachedSystemAnalysisId is set
  restarts

callerVars == <<caller, joined, fresh, served>>
runVars    == <<work, scored, ingested>>
systemVars == <<customer, analyses, cachedId>>
vars == <<callerVars, inFlight, runVars, rows, systemVars, restarts>>

\* A row holds a score from the whole history of the address, or from what
\* was left of it when Alchemy calls failed, or ("unscored") the membership
\* that a cluster_only analysis stores.
RowKinds == {"full", "partial", "unscored"}

Awaits == {"lookup", "ml", "selectCustomer", "insertCustomer",
           "selectAnalysis", "insertAnalysis", "insertScore"}
Answers == {"row", "throttled", "failed", "error"}

Goto(c, await) == work' = [work EXCEPT ![c] = await]

----------------------------------------------------------------------------
(* dedupeInFlight().                                                       *)

RequestWithoutDedupe(c) ==
  /\ caller[c] = "new"
  /\ caller' = [caller EXCEPT ![c] = "waiting"]
  /\ joined' = [joined EXCEPT ![c] = c]
  /\ inFlight' = [inFlight EXCEPT ![KeyOf[c]] = c]
  /\ Goto(c, "lookup")
  /\ UNCHANGED <<fresh, served, scored, ingested, rows, systemVars, restarts>>

\* A caller joins the run in flight for its key, or starts one.
Request(c) ==
  /\ caller[c] = "new"
  /\ caller' = [caller EXCEPT ![c] = "waiting"]
  /\ IF inFlight[KeyOf[c]] # NoCaller
       THEN /\ joined' = [joined EXCEPT ![c] = inFlight[KeyOf[c]]]
            /\ UNCHANGED <<inFlight, work>>
       ELSE /\ joined' = [joined EXCEPT ![c] = c]
            /\ inFlight' = [inFlight EXCEPT ![KeyOf[c]] = c]
            /\ Goto(c, "lookup")
  /\ UNCHANGED <<fresh, served, scored, ingested, rows, systemVars, restarts>>

Waiters(c) == {d \in Callers : caller[d] = "waiting" /\ joined[d] = c}

SettleKeepsKey(c, answer) ==
  /\ Goto(c, "none")
  /\ caller' = [d \in Callers |-> IF d \in Waiters(c) THEN answer ELSE caller[d]]
  /\ UNCHANGED <<joined, inFlight>>

\* The promise of c's run settles: the key is freed and every caller that
\* awaits the promise is answered.
Settle(c, answer) ==
  /\ inFlight' = [inFlight EXCEPT ![KeyOf[c]] = NoCaller]
  /\ Goto(c, "none")
  /\ caller' = [d \in Callers |-> IF d \in Waiters(c) THEN answer ELSE caller[d]]
  /\ UNCHANGED joined

SettleWithRow(c, row, isFresh) ==
  /\ Settle(c, "row")
  /\ fresh' = [d \in Callers |-> IF d \in Waiters(c) THEN isFresh ELSE fresh[d]]
  /\ served' = [d \in Callers |-> IF d \in Waiters(c) THEN row ELSE served[d]]

----------------------------------------------------------------------------
(* scoreAddress(): one action per await.                                   *)

LookupHit(c) ==
  /\ work[c] = "lookup"
  /\ rows[KeyOf[c]] # "none"
  /\ SettleWithRow(c, rows[KeyOf[c]], FALSE)
  /\ UNCHANGED <<scored, ingested, rows, systemVars, restarts>>

\* Nothing cached: the ML service is called, unless the throttle refuses.
LookupMiss(c) ==
  /\ work[c] = "lookup"
  /\ rows[KeyOf[c]] = "none"
  /\ \/ /\ Settle(c, "throttled")
        /\ UNCHANGED ingested
     \/ /\ Goto(c, "ml")
        /\ ingested' = [ingested EXCEPT ![c] = TRUE]
        /\ UNCHANGED <<caller, joined, inFlight>>
  /\ UNCHANGED <<fresh, served, scored, rows, systemVars, restarts>>

\* The ML service answers 200, from whatever its provider gave it.
MlAnswers(c) ==
  /\ work[c] = "ml"
  /\ \E kind \in {"full", "partial"} : scored' = [scored EXCEPT ![c] = kind]
  /\ Goto(c, IF cachedId THEN "insertScore" ELSE "selectCustomer")
  /\ UNCHANGED <<callerVars, inFlight, ingested, rows, systemVars, restarts>>

MlFailsSilently(c) ==
  /\ work[c] = "ml"
  /\ Goto(c, "none")
  /\ UNCHANGED <<callerVars, inFlight, scored, ingested, rows, systemVars, restarts>>

\* The ML service answers an error, or not at all within fetch's own limits.
MlFails(c) ==
  /\ work[c] = "ml"
  /\ Settle(c, "failed")
  /\ UNCHANGED <<fresh, served, scored, ingested, rows, systemVars, restarts>>

InsertScore(c) ==
  /\ work[c] = "insertScore"
  /\ rows' = [rows EXCEPT ![KeyOf[c]] = scored[c]]
  /\ \/ SettleWithRow(c, scored[c], TRUE)
     \/ Settle(c, "error") /\ UNCHANGED <<fresh, served>>   \* the reply is lost
  /\ UNCHANGED <<scored, ingested, systemVars, restarts>>

\* A database call rejects: so do the run and all who await it.
Throws(c) ==
  /\ work[c] \in Awaits \ {"ml"}
  /\ Settle(c, "error")
  /\ UNCHANGED <<fresh, served, scored, ingested, rows, systemVars, restarts>>

----------------------------------------------------------------------------
(* ensureSystemAnalysisId().                                               *)

SelectCustomer(c) ==
  /\ work[c] = "selectCustomer"
  /\ Goto(c, IF customer THEN "selectAnalysis" ELSE "insertCustomer")
  /\ UNCHANGED <<callerVars, inFlight, scored, ingested, rows, systemVars, restarts>>

\* ON CONFLICT DO NOTHING, and a second SELECT for the one who lost the race.
InsertCustomer(c) ==
  /\ work[c] = "insertCustomer"
  /\ customer' = TRUE
  /\ Goto(c, "selectAnalysis")
  /\ UNCHANGED <<callerVars, inFlight, scored, ingested, rows, analyses, cachedId,
                 restarts>>

SelectAnalysis(c) ==
  /\ work[c] = "selectAnalysis"
  /\ IF analyses > 0
       THEN cachedId' = TRUE /\ Goto(c, "insertScore")
       ELSE UNCHANGED cachedId /\ Goto(c, "insertAnalysis")
  /\ UNCHANGED <<callerVars, inFlight, scored, ingested, rows, customer, analyses,
                 restarts>>

InsertAnalysis(c) ==
  /\ work[c] = "insertAnalysis"
  /\ analyses' = analyses + 1
  /\ cachedId' = TRUE
  /\ Goto(c, "insertScore")
  /\ UNCHANGED <<callerVars, inFlight, scored, ingested, rows, customer, restarts>>

----------------------------------------------------------------------------
(* The rest of the system.                                                 *)

\* The batch worker stores a row for the key.
BatchStores(k) ==
  /\ \E kind \in RowKinds : rows' = [rows EXCEPT ![k] = kind]
  /\ UNCHANGED <<callerVars, inFlight, runVars, systemVars, restarts>>

\* The API process ends and starts again: its maps are empty, and the callers
\* it was serving see their connection close.
Restart ==
  /\ restarts < MaxRestarts
  /\ restarts' = restarts + 1
  /\ inFlight' = [k \in Keys |-> NoCaller]
  /\ work' = [c \in Callers |-> "none"]
  /\ caller' = [c \in Callers |->
                  IF caller[c] = "waiting" THEN "error" ELSE caller[c]]
  /\ cachedId' = FALSE
  /\ UNCHANGED <<joined, fresh, served, scored, ingested, rows, customer, analyses>>

Init ==
  /\ caller = [c \in Callers |-> "new"]
  /\ joined = [c \in Callers |-> NoCaller]
  /\ fresh = [c \in Callers |-> FALSE]
  /\ served = [c \in Callers |-> "none"]
  /\ inFlight = [k \in Keys |-> NoCaller]
  /\ work = [c \in Callers |-> "none"]
  /\ scored = [c \in Callers |-> "none"]
  /\ ingested = [c \in Callers |-> FALSE]
  /\ rows = [k \in Keys |-> "none"]
  /\ customer = FALSE
  /\ analyses = 0
  /\ cachedId = FALSE
  /\ restarts = 0

RunStep(c) ==
  \/ LookupHit(c) \/ LookupMiss(c) \/ MlAnswers(c) \/ MlFails(c)
  \/ SelectCustomer(c) \/ InsertCustomer(c)
  \/ SelectAnalysis(c) \/ InsertAnalysis(c)
  \/ InsertScore(c) \/ Throws(c)

Next ==
  \/ \E c \in Callers : Request(c) \/ RunStep(c)
  \/ \E k \in Keys : BatchStores(k)
  \/ Restart

Spec == Init /\ [][Next]_vars

\* The event loop runs every continuation; each query ends, and fetch gives up
\* on a service that does not answer.
Fairness == \A c \in Callers : WF_vars(RunStep(c))

FairSpec == Spec /\ Fairness

----------------------------------------------------------------------------
CallerTypes ==
  /\ caller \in [Callers -> {"new", "waiting"} \union Answers]
  /\ joined \in [Callers -> Callers \union {NoCaller}]
  /\ fresh \in [Callers -> BOOLEAN]
  /\ served \in [Callers -> RowKinds \union {"none"}]

RunTypes ==
  /\ inFlight \in [Keys -> Callers \union {NoCaller}]
  /\ work \in [Callers -> Awaits \union {"none"}]
  /\ scored \in [Callers -> {"none", "full", "partial"}]
  /\ ingested \in [Callers -> BOOLEAN]

DataTypes ==
  /\ rows \in [Keys -> RowKinds \union {"none"}]
  /\ analyses \in Nat
  /\ restarts \in 0 .. MaxRestarts

TypeOK ==
  /\ CallerTypes
  /\ RunTypes
  /\ DataTypes
  /\ {customer, cachedId} \subseteq BOOLEAN

\* A cached id names a system analysis, and one exists only under the system
\* customer: a row never hangs off an id that is not there.
SystemInv ==
  /\ cachedId => analyses > 0
  /\ analyses > 0 => customer
  /\ \A c \in Callers :
       /\ work[c] \in {"selectAnalysis", "insertAnalysis"} => customer
       /\ work[c] = "insertScore" => analyses > 0
       /\ work[c] \notin {"none", "lookup", "ml"} => scored[c] # "none"

\* No caller waits for a run that is over, and the map of runs in flight holds
\* exactly the runs that are going on: one per key, never one that settled
\* (first-sight-inflight.ts:19-24), whatever threw and wherever a restart hit.
FlightInv ==
  /\ \A k \in Keys :
       inFlight[k] # NoCaller => KeyOf[inFlight[k]] = k /\ work[inFlight[k]] # "none"
  /\ \A c \in Callers : work[c] # "none" => inFlight[KeyOf[c]] = c /\ caller[c] # "new"
  /\ \A c \in Callers : caller[c] = "waiting" => inFlight[KeyOf[c]] = joined[c]
                                                 /\ joined[c] # NoCaller

\* The ingests of a key that have not come to nothing.
Ingests(k) ==
  {c \in Callers :
     KeyOf[c] = k /\ ingested[c] /\ caller[c] \notin {"failed", "error"}}

\* "A repeatedly-hammered single address costs Alchemy budget exactly once"
\* (docs/design/realtime-first-sight-scoring.md:124): a key is ingested again
\* only if the ingest before it failed or its run was lost.
SpendOnce ==
  \A k \in Keys : \A c, d \in Ingests(k) : c = d

\* An ingest that did not come to nothing is in flight or has left a row.
SpendInv ==
  /\ \A c \in Callers : work[c] \notin {"none", "lookup"} => ingested[c]
  /\ \A c \in Callers : work[c] = "lookup" => ~ ingested[c]
  /\ \A c \in Callers : work[c] # "none" => caller[c] = "waiting" /\ joined[c] = c
  /\ \A c \in Callers : caller[c] = "new" => ~ ingested[c]
  /\ \A c \in Callers : joined[c] # c => ~ ingested[c]
  /\ \A k \in Keys : \A c \in Ingests(k) :
       rows[k] # "none" \/ (work[c] # "none" /\ inFlight[k] = c)

IInv == TypeOK /\ SystemInv /\ FlightInv /\ SpendInv /\ SpendOnce

\* Every caller is answered, also when the run it joined throws.
AllAnswered ==
  \A c \in Callers : caller[c] = "waiting" ~> caller[c] \in Answers

----------------------------------------------------------------------------
(* What the comments say, and the code does not do.                        *)

\* "One well-known, lazily-created 'system' analysis"
\* (routes/first-sight.ts:27).
OneSystemAnalysis == analyses <= 1
=============================================================================
