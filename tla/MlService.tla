------------------------------ MODULE MlService ------------------------------
(***************************************************************************)
(* The ML service as a user of Alchemy (apps/ml/sybilshield).  Its         *)
(* endpoints are plain functions, so FastAPI runs each request in a thread *)
(* of its pool, and threads interleave at calls (CPython 3.11, the GIL).   *)
(* All requests go through get_pipeline()'s singleton, its RateLimiter and *)
(* its count of compute units; none of the three has a lock.               *)
(***************************************************************************)
EXTENDS Integers, Sequences, FiniteSets

CONSTANTS
  Threads,       \* of the pool
  RpcCounts,     \* how many RPCs a request makes: two per address and chain
  Rps,           \* ALCHEMY_RATE_LIMIT_RPS
  Second,        \* one second, in ticks of the clock
  MaxRequests,   \* bound of the model: requests served
  Horizon,       \* bound of the model: ticks
  NoPipeline

ASSUME MlAssumption ==
  /\ Rps \in Nat \ {0}
  /\ Second \in Nat \ {0}
  /\ RpcCounts \subseteq Nat \ {0}
  /\ MaxRequests \in Nat
  /\ Horizon \in Nat
  /\ NoPipeline \notin Threads

VARIABLES
  now,         \* time.monotonic()
  pipeline,    \* the module variable _pipeline; a pipeline is named for the
               \* thread that built it
  window,      \* RateLimiter.window of a pipeline
  cu,          \* quota.cu_consumed of a pipeline, in RPCs
  pc,          \* where a thread is
  pipe,        \* the pipeline it works with
  left,        \* the RPCs its request has still to make
  seen,        \* the clock as wait() last read it
  wakeAt,      \* when its sleep is over
  own,         \* history: the RPCs its request has sent
  reported,    \* cu_consumed of its last reply
  requests,
  sent,        \* history: the stamps of all RPCs of a pipeline, as sent
  call,        \* history: how the thread's call of wait() has fared so far
  calls        \* history: how the calls behind sent have fared

history    == <<sent, call, calls>>
clockVars  == <<now, history>>
handler    == <<pipe, left, own, reported, requests>>
limiter    == <<seen, wakeAt>>
shared     == <<pipeline, window, cu>>
vars == <<clockVars, shared, pc, handler, limiter>>

Pcs == {"idle", "test", "build", "return", "clock", "prune", "measure", "sleep",
        "append", "send", "post", "report"}

\* A call is raced when another stamps the same limiter from the tick it began
\* at until its own stamp is stored; if not, it has found room or has slept.
Courses == {"room", "slept", "raced"}

Goto(t, to) == pc' = [pc EXCEPT ![t] = to]

Init ==
  /\ now = 0
  /\ sent = [p \in Threads |-> <<>>]
  /\ pipeline = NoPipeline
  /\ window = [p \in Threads |-> <<>>]
  /\ cu = [p \in Threads |-> 0]
  /\ pc = [t \in Threads |-> "idle"]
  /\ pipe = [t \in Threads |-> NoPipeline]
  /\ left = [t \in Threads |-> 0]
  /\ own = [t \in Threads |-> 0]
  /\ reported = [t \in Threads |-> 0]
  /\ seen = [t \in Threads |-> 0]
  /\ wakeAt = [t \in Threads |-> 0]
  /\ requests = 0
  /\ call = [t \in Threads |-> "room"]
  /\ calls = [p \in Threads |-> <<>>]

----------------------------------------------------------------------------
(* get_pipeline().                                                         *)

\* POST /run, /cluster-only or /first-sight.
Accept(t) ==
  /\ pc[t] = "idle"
  /\ requests < MaxRequests
  /\ requests' = requests + 1
  /\ \E n \in RpcCounts : left' = [left EXCEPT ![t] = n]
  /\ own' = [own EXCEPT ![t] = 0]
  /\ reported' = [reported EXCEPT ![t] = 0]
  /\ Goto(t, "test")
  /\ UNCHANGED <<clockVars, shared, pipe, limiter>>

TestPipeline(t) ==
  /\ pc[t] = "test"
  /\ Goto(t, IF pipeline = NoPipeline THEN "build" ELSE "return")
  /\ UNCHANGED <<clockVars, shared, handler, limiter>>

\* _build_pipeline() reads a model from disk: there is time for others.
BuildPipeline(t) ==
  /\ pc[t] = "build"
  /\ pipeline' = t
  /\ Goto(t, "return")
  /\ UNCHANGED <<clockVars, window, cu, handler, limiter>>

ReturnAndResetQuota(t) ==
  /\ pc[t] = "return"
  /\ pipe' = [pipe EXCEPT ![t] = pipeline]
  /\ cu' = [cu EXCEPT ![pipeline] = 0]
  /\ Goto(t, "clock")
  /\ UNCHANGED <<clockVars, pipeline, window, left, own, reported, requests, limiter>>

ReturnPipeline(t) ==
  /\ pc[t] = "return"
  /\ pipe' = [pipe EXCEPT ![t] = pipeline]
  /\ Goto(t, "clock")
  /\ UNCHANGED <<clockVars, shared, left, own, reported, requests, limiter>>

----------------------------------------------------------------------------
(* RateLimiter.wait().                                                     *)

Stamps(t) == window[pipe[t]]

Expired(t) == Stamps(t) # <<>> /\ seen[t] - Head(Stamps(t)) > Second

ReadClock(t) ==
  /\ pc[t] = "clock"
  /\ seen' = [seen EXCEPT ![t] = now]
  /\ call' = [call EXCEPT ![t] =
                 IF \E i \in DOMAIN sent[pipe[t]] : sent[pipe[t]][i] = now
                   THEN "raced" ELSE "room"]
  /\ Goto(t, "prune")
  /\ UNCHANGED <<now, sent, calls, shared, handler, wakeAt>>

\* One round of the loop: the test and its popleft() are not interrupted.
PopLeft(t) ==
  /\ pc[t] = "prune"
  /\ Expired(t)
  /\ window' = [window EXCEPT ![pipe[t]] = Tail(@)]
  /\ UNCHANGED <<clockVars, pipeline, cu, pc, handler, limiter>>

\* len() is a call: what it returned may be old when window[0] is read.
TestLength(t) ==
  /\ pc[t] = "prune"
  /\ ~ Expired(t)
  /\ Goto(t, IF Len(Stamps(t)) >= Rps THEN "measure" ELSE "append")
  /\ UNCHANGED <<clockVars, shared, handler, limiter>>

MeasureWithoutSleep(t) ==
  /\ pc[t] = "measure"
  /\ Stamps(t) # <<>>
  /\ Goto(t, "append")
  /\ UNCHANGED <<clockVars, shared, handler, limiter>>

\* Sleeps until window[0] is a second old; after that window is not read again.
StartSleep(t) ==
  /\ pc[t] = "measure"
  /\ Stamps(t) # <<>>
  /\ LET age == seen[t] - Head(Stamps(t)) IN
       wakeAt' = [wakeAt EXCEPT ![t] = IF age < Second THEN now + Second - age
                                                       ELSE now]
  /\ call' = [call EXCEPT ![t] = IF @ = "raced" THEN "raced" ELSE "slept"]
  /\ Goto(t, "sleep")
  /\ UNCHANGED <<now, sent, calls, shared, handler, seen>>

\* window[0] of an empty deque: get_transactions() logs the IndexError and
\* goes on without this direction.
IndexError(t) ==
  /\ pc[t] = "measure"
  /\ Stamps(t) = <<>>
  /\ left' = [left EXCEPT ![t] = @ - 1]
  /\ Goto(t, IF left[t] = 1 THEN "report" ELSE "clock")
  /\ UNCHANGED <<clockVars, shared, pipe, own, reported, requests, limiter>>

\* window.append(time.monotonic()): the argument first.
TakeStamp(t) ==
  /\ \/ pc[t] = "append"
     \/ pc[t] = "sleep" /\ now >= wakeAt[t]
  /\ seen' = [seen EXCEPT ![t] = now]
  /\ Goto(t, "send")
  /\ UNCHANGED <<clockVars, shared, handler, wakeAt>>

----------------------------------------------------------------------------
(* AlchemyProvider._rpc() and the end of the request.                      *)

\* The stamp is stored, the RPC charged and sent.
Send(t) ==
  /\ pc[t] = "send"
  /\ window' = [window EXCEPT ![pipe[t]] = Append(@, seen[t])]
  /\ sent' = [sent EXCEPT ![pipe[t]] = Append(@, seen[t])]
  /\ cu' = [cu EXCEPT ![pipe[t]] = @ + 1]
  /\ own' = [own EXCEPT ![t] = @ + 1]
  /\ calls' = [calls EXCEPT ![pipe[t]] = Append(@, call[t])]
  /\ call' = [u \in Threads |-> IF u # t /\ pipe[u] = pipe[t] THEN "raced" ELSE call[u]]
  /\ Goto(t, "post")
  /\ UNCHANGED <<now, pipeline, pipe, left, reported, requests, limiter>>

\* The RPC succeeds or fails, which is the same to get_transactions(): on to
\* the next.  No RPC is over before the clock has moved.
RpcEnds(t) ==
  /\ pc[t] = "post"
  /\ now > seen[t]
  /\ left' = [left EXCEPT ![t] = @ - 1]
  /\ Goto(t, IF left[t] = 1 THEN "report" ELSE "clock")
  /\ UNCHANGED <<clockVars, shared, pipe, own, reported, requests, limiter>>

\* The reply carries the count of the whole process.
Reply(t) ==
  /\ pc[t] = "report"
  /\ reported' = [reported EXCEPT ![t] = cu[pipe[t]]]
  /\ Goto(t, "idle")
  /\ UNCHANGED <<clockVars, shared, pipe, left, own, requests, limiter>>

Tick ==
  /\ now < Horizon
  /\ now' = now + 1
  /\ UNCHANGED <<history, shared, pc, handler, limiter>>

ThreadStep(t) ==
  \/ TestPipeline(t) \/ BuildPipeline(t) \/ ReturnPipeline(t)
  \/ ReadClock(t) \/ PopLeft(t) \/ TestLength(t) \/ StartSleep(t) \/ IndexError(t)
  \/ TakeStamp(t) \/ Send(t) \/ RpcEnds(t) \/ Reply(t)

Next == Tick \/ \E t \in Threads : Accept(t) \/ ThreadStep(t)

Spec == Init /\ [][Next]_vars

----------------------------------------------------------------------------
\* Type invariant.
TypeOK ==
  /\ now \in 0 .. Horizon
  /\ sent \in [Threads -> Seq(Nat)]
  /\ pipeline \in Threads \union {NoPipeline}
  /\ window \in [Threads -> Seq(Nat)]
  /\ cu \in [Threads -> Nat]
  /\ pc \in [Threads -> Pcs]
  /\ pipe \in [Threads -> Threads \union {NoPipeline}]
  /\ left \in [Threads -> Nat]
  /\ own \in [Threads -> Nat]
  /\ reported \in [Threads -> Nat]
  /\ seen \in [Threads -> 0 .. Horizon]
  /\ wakeAt \in [Threads -> Nat]
  /\ requests \in 0 .. MaxRequests
  /\ call \in [Threads -> Courses]
  /\ calls \in [Threads -> Seq(Courses)]

\* The RPCs that a pipeline sent in the second that ends with its i-th.
Burst(p, i) ==
  {j \in DOMAIN sent[p] : sent[p][j] \in (sent[p][i] - Second + 1) .. sent[p][i]}

\* Where the count of races may begin: at the start, or at an RPC whose call of
\* wait() found room and was not raced.
Anchors(p) == {0} \cup {c \in DOMAIN sent[p] : calls[p][c] = "room"}

RacedAfter(p, c) == {k \in DOMAIN sent[p] : k > c /\ calls[p][k] = "raced"}

\* What the limiter is worth to threads that race for it (alchemy.py:40-48): a
\* second sees at most Rps RPCs of a limiter and one more for each raced call
\* since a call last found room.  Threads that take turns keep the rate; what
\* races added stays while every call has to sleep, and is gone when one has
\* found room.
RacesCostOneEach ==
  \A p \in Threads : \A i \in DOMAIN sent[p], c \in Anchors(p) :
    (c # 0 => sent[p][c] <= sent[p][i]) =>
      Cardinality(Burst(p, i)) <= Rps + Cardinality(RacedAfter(p, c))

\* What a reply reports covers what its request has spent, so that an analysis
\* over its budget is never taken for one within it.
ReportCovers ==
  \A t \in Threads : pc[t] = "idle" /\ own[t] > 0 => reported[t] >= own[t]

----------------------------------------------------------------------------
(* What the docs say, and the code does not do.                            *)

\* "At Scale tier (1500 CU/sec sustained = 10 req/sec) so we throttle
\* accordingly" (providers/alchemy.py:6): no second sees more than Rps RPCs of
\* a limiter.
Ceiling ==
  \A p \in Threads : \A i \in DOMAIN sent[p] : Cardinality(Burst(p, i)) <= Rps
=============================================================================
