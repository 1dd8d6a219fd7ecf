------------------------------ MODULE MlProofs ------------------------------
(* Proofs about the Python side: the count of compute units and the rate   *)
(* limiter of the ML service (MlService), for any number of threads,       *)
(* requests and RPCs, any rate and clock; and what models are trained and  *)
(* measured on (Training), for any lists, sizes and number of scripts.     *)
EXTENDS MlService, Training, FiniteSetTheorems, SequenceTheorems, TLAPS

----------------------------------------------------------------------------
(* The count of compute units, for any number of threads.                  *)

Waiting == {"clock", "prune", "measure", "sleep", "append", "send", "post"}
Working == Waiting \cup {"report"}

\* A thread past get_pipeline() has a pipeline, and one whose request goes on
\* has an RPC left.
ServiceTypes ==
  /\ TypeOK
  /\ \A t \in Threads :
       /\ pc[t] = "return" => pipeline \in Threads
       /\ pc[t] \in Working => pipe[t] \in Threads
       /\ pc[t] \notin {"idle", "report"} => left[t] >= 1

\* What a request has spent is in the count of the pipeline it holds, which
\* need not be the one that the module variable names by now.
CountHasOwn ==
  \A t \in Threads :
    /\ pc[t] \in {"test", "build", "return"} => own[t] = 0
    /\ pc[t] \in Working => own[t] <= cu[pipe[t]]

ServiceInv == ServiceTypes /\ CountHasOwn /\ ReportCovers

----------------------------------------------------------------------------
(* The limiter, for any number of threads: what a window holds is the end  *)
(* of what was sent, what was dropped from it is old, and a call that was  *)
(* left alone has found room for itself.                                   *)

Section == {"prune", "measure", "sleep", "append", "send"}

\* The RPCs of a pipeline in the second that ends at x.
Recent(p, x) ==
  {j \in 1 .. Len(sent[p]) : x - Second < sent[p][j] /\ sent[p][j] <= x}

Dropped(p) == Len(sent[p]) - Len(window[p])

WindowIsTheEnd(p) ==
  /\ Len(window[p]) <= Len(sent[p])
  /\ \A i \in 1 .. Len(window[p]) : window[p][i] = sent[p][Dropped(p) + i]
  /\ \A i \in 1 .. Len(sent[p]) : i <= Dropped(p) => now - sent[p][i] > Second

StampsPast(p) == \A i \in 1 .. Len(sent[p]) : sent[p][i] <= now

\* RacesCostOneEach for every second, one that no RPC ends with included.
RateKept(p) ==
  \A c \in Anchors(p), x \in Int :
    (c # 0 => sent[p][c] <= x) =>
      Cardinality(Recent(p, x)) <= Rps + Cardinality(RacedAfter(p, c))

\* A call that is not raced: it has seen every stamp, the one it waits for is a
\* second old when it wakes, or was dropped meanwhile, and then there is room.
Undisturbed(t, p) ==
  /\ \A i \in 1 .. Len(sent[p]) : sent[p][i] < seen[t]
  /\ pc[t] = "measure" =>
       \E i \in 1 .. Len(sent[p]) :
         /\ seen[t] - sent[p][i] <= Second
         /\ i = Dropped(p) + 1 \/ now - sent[p][i] > Second
  /\ pc[t] = "sleep" =>
       \E i \in 1 .. Len(sent[p]) :
         seen[t] - sent[p][i] <= Second /\ wakeAt[t] >= sent[p][i] + Second
  /\ pc[t] = "append" => Len(window[p]) < Rps
  /\ pc[t] = "send" /\ call[t] = "room" => Cardinality(Recent(p, seen[t])) < Rps
  /\ pc[t] = "send" => \A c \in Anchors(p) :
       Cardinality(Recent(p, seen[t])) < Rps + Cardinality(RacedAfter(p, c))
  /\ pc[t] = "sleep" => call[t] = "slept"
  /\ pc[t] \in {"prune", "measure", "append"} => call[t] = "room"

CallOf(t) ==
  /\ seen[t] <= now
  /\ pc[t] \in Section /\ call[t] # "raced" => Undisturbed(t, pipe[t])

PipelineInv(p) ==
  WindowIsTheEnd(p) /\ StampsPast(p) /\ RateKept(p) /\ Len(calls[p]) = Len(sent[p])

LimiterInv ==
  /\ \A p \in Threads : PipelineInv(p)
  /\ \A t \in Threads : CallOf(t)

----------------------------------------------------------------------------
(* Every step keeps the types and the count.                               *)

LEMMA ServiceStart == Init => ServiceInv
<1> SUFFICES ASSUME Init PROVE ServiceInv  OBVIOUS
<1>1. <<>> \in Seq(Nat) /\ <<>> \in Seq(Courses) /\ 0 \in 0 .. Horizon /\ 0 \in 0 .. MaxRequests
  BY MlAssumption
<1>2. TypeOK  BY <1>1, MlAssumption DEF Init, TypeOK, Pcs, Courses
<1> QED
  BY <1>2, MlAssumption DEF Init, ServiceInv, ServiceTypes, CountHasOwn, ReportCovers,
                            Working, Waiting

LEMMA RequestSteps ==
  ASSUME ServiceInv, NEW t \in Threads,
         \/ Accept(t) \/ TestPipeline(t) \/ BuildPipeline(t) \/ ReturnPipeline(t)
         \/ RpcEnds(t) \/ Reply(t) \/ IndexError(t)
  PROVE  ServiceInv'
<1> USE MlAssumption DEF clockVars, history, handler, limiter, shared, Goto
<1>0. ServiceTypes /\ TypeOK /\ CountHasOwn /\ ReportCovers
  BY DEF ServiceInv, ServiceTypes
<1>1. CASE Accept(t)
  <2>1. PICK n \in RpcCounts : left' = [left EXCEPT ![t] = n]  BY <1>1 DEF Accept
  <2>2. n \in Nat /\ n >= 1  OBVIOUS
  <2>3. /\ left' \in [Threads -> Nat] /\ left'[t] >= 1
        /\ \A u \in Threads \ {t} : left'[u] = left[u]
    BY <1>0, <2>1, <2>2 DEF TypeOK
  <2>4. /\ own' \in [Threads -> Nat] /\ reported' \in [Threads -> Nat]
        /\ pc' \in [Threads -> Pcs] /\ requests' \in 0 .. MaxRequests
    BY <1>0, <1>1, SMTT(30) DEF Accept, TypeOK, Pcs
  <2>7. TypeOK'  BY <1>0, <1>1, <2>3, <2>4 DEF Accept, TypeOK
  <2>8. /\ \A u \in Threads \ {t} : pc'[u] = pc[u]
        /\ pc'[t] = "test" /\ UNCHANGED <<pipeline, pipe>>
    BY <1>0, <1>1 DEF Accept, TypeOK
  <2>9. ServiceTypes'
    BY <1>0, <2>3, <2>7, <2>8 DEF ServiceTypes, Working, Waiting
  <2>5. CountHasOwn'
    BY <1>0, <1>1 DEF Accept, TypeOK, CountHasOwn, Working, Waiting
  <2>6. ReportCovers'  BY <1>0, <1>1 DEF Accept, TypeOK, ReportCovers
  <2> QED  BY <2>9, <2>5, <2>6 DEF ServiceInv
<1>2. CASE TestPipeline(t)
  <2>3. TypeOK'  BY <1>0, <1>2 DEF TestPipeline, TypeOK, Pcs
  <2>4. ServiceTypes'
    BY <1>0, <1>2, <2>3 DEF TestPipeline, TypeOK, ServiceTypes, Working, Waiting
  <2>5. CountHasOwn'
    BY <1>0, <1>2 DEF TestPipeline, TypeOK, CountHasOwn, Working, Waiting
  <2>6. ReportCovers'  BY <1>0, <1>2 DEF TestPipeline, TypeOK, ReportCovers
  <2> QED  BY <2>4, <2>5, <2>6 DEF ServiceInv
<1>3. CASE BuildPipeline(t)
  <2>3. TypeOK'  BY <1>0, <1>3 DEF BuildPipeline, TypeOK, Pcs
  <2>4. ServiceTypes'
    BY <1>0, <1>3, <2>3 DEF BuildPipeline, TypeOK, ServiceTypes, Working, Waiting
  <2>5. CountHasOwn'
    BY <1>0, <1>3 DEF BuildPipeline, TypeOK, CountHasOwn, Working, Waiting
  <2>6. ReportCovers'  BY <1>0, <1>3 DEF BuildPipeline, TypeOK, ReportCovers
  <2> QED  BY <2>4, <2>5, <2>6 DEF ServiceInv
<1>4. CASE ReturnPipeline(t)
  <2>1. pipeline \in Threads  BY <1>0, <1>4 DEF ReturnPipeline, ServiceTypes
  <2>3. TypeOK'  BY <1>0, <1>4 DEF ReturnPipeline, TypeOK, Pcs
  <2>4. ServiceTypes'
    BY <1>0, <1>4, <2>1, <2>3 DEF ReturnPipeline, TypeOK, ServiceTypes, Working, Waiting
  <2>5. CountHasOwn'
    <3>1. /\ \A u \in Threads \ {t} : pc'[u] = pc[u] /\ pipe'[u] = pipe[u]
          /\ pc'[t] = "clock" /\ pipe'[t] = pipeline /\ own[t] = 0 /\ cu[pipeline] \in Nat
          /\ UNCHANGED <<own, cu>>
      BY <1>0, <1>4, <2>1 DEF ReturnPipeline, TypeOK, CountHasOwn
    <3> QED  BY <1>0, <3>1 DEF CountHasOwn, Working, Waiting
  <2>6. ReportCovers'  BY <1>0, <1>4 DEF ReturnPipeline, TypeOK, ReportCovers
  <2> QED  BY <2>4, <2>5, <2>6 DEF ServiceInv
<1>5. CASE RpcEnds(t)
  <2>1. left[t] >= 1 /\ left[t] \in Nat
    BY <1>0, <1>5 DEF RpcEnds, ServiceTypes, TypeOK
  <2>3. TypeOK'  BY <1>0, <1>5, <2>1, SMTT(30) DEF RpcEnds, TypeOK, Pcs
  <2>2. /\ \A u \in Threads \ {t} : pc'[u] = pc[u] /\ left'[u] = left[u]
        /\ pc'[t] = IF left[t] = 1 THEN "report" ELSE "clock"
        /\ left'[t] = left[t] - 1 /\ UNCHANGED <<pipeline, pipe>> /\ pipe[t] \in Threads
    BY <1>0, <1>5 DEF RpcEnds, TypeOK, ServiceTypes, Working, Waiting
  <2>4. ServiceTypes'
    BY <1>0, <2>1, <2>2, <2>3 DEF ServiceTypes, Working, Waiting
  <2>5. CountHasOwn'
    BY <1>0, <1>5 DEF RpcEnds, TypeOK, CountHasOwn, Working, Waiting
  <2>6. ReportCovers'  BY <1>0, <1>5 DEF RpcEnds, TypeOK, ReportCovers
  <2> QED  BY <2>4, <2>5, <2>6 DEF ServiceInv
<1>6. CASE Reply(t)
  <2>1. /\ pipe[t] \in Threads /\ own[t] <= cu[pipe[t]]
        /\ cu[pipe[t]] \in Nat /\ own[t] \in Nat
    BY <1>0, <1>6 DEF Reply, ServiceTypes, TypeOK, CountHasOwn, Working
  <2>3. TypeOK'  BY <1>0, <1>6, <2>1 DEF Reply, TypeOK, Pcs
  <2>4. ServiceTypes'
    BY <1>0, <1>6, <2>3 DEF Reply, TypeOK, ServiceTypes, Working, Waiting
  <2>5. CountHasOwn'  BY <1>0, <1>6 DEF Reply, TypeOK, CountHasOwn, Working, Waiting
  <2>6. ReportCovers'  BY <1>0, <1>6, <2>1 DEF Reply, TypeOK, ReportCovers
  <2> QED  BY <2>4, <2>5, <2>6 DEF ServiceInv
<1>7. CASE IndexError(t)
  <2>1. left[t] >= 1 /\ left[t] \in Nat
    BY <1>0, <1>7 DEF IndexError, ServiceTypes, TypeOK
  <2>3. TypeOK'
    <3>0. left[t] - 1 \in Nat  BY <2>1
    <3>1. left' \in [Threads -> Nat]  BY <1>0, <1>7, <3>0 DEF IndexError, TypeOK
    <3>2. pc' \in [Threads -> Pcs]  BY <1>0, <1>7 DEF IndexError, TypeOK, Pcs
    <3> QED
      BY <1>0, <1>7, <3>1, <3>2 DEF IndexError, TypeOK
  <2>2. /\ \A u \in Threads \ {t} : pc'[u] = pc[u] /\ left'[u] = left[u]
        /\ pc'[t] = IF left[t] = 1 THEN "report" ELSE "clock"
        /\ left'[t] = left[t] - 1 /\ UNCHANGED <<pipeline, pipe>> /\ pipe[t] \in Threads
    BY <1>0, <1>7 DEF IndexError, TypeOK, ServiceTypes, Working, Waiting
  <2>4. ServiceTypes'
    BY <1>0, <2>1, <2>2, <2>3 DEF ServiceTypes, Working, Waiting
  <2>5. CountHasOwn'
    BY <1>0, <1>7 DEF IndexError, TypeOK, CountHasOwn, Working, Waiting
  <2>6. ReportCovers'  BY <1>0, <1>7 DEF IndexError, TypeOK, ReportCovers
  <2> QED  BY <2>4, <2>5, <2>6 DEF ServiceInv
<1> QED  BY <1>1, <1>2, <1>3, <1>4, <1>5, <1>6, <1>7

LEMMA LimiterSteps ==
  ASSUME ServiceInv, NEW t \in Threads,
         \/ ReadClock(t) \/ PopLeft(t) \/ TestLength(t) \/ StartSleep(t)
         \/ TakeStamp(t) \/ Send(t)
  PROVE  ServiceInv'
<1> USE MlAssumption DEF clockVars, history, handler, limiter, shared, Goto
<1>0. ServiceTypes /\ TypeOK /\ CountHasOwn /\ ReportCovers
  BY DEF ServiceInv, ServiceTypes
<1>w. /\ pipe[t] \in Threads
      /\ Stamps(t) \in Seq(Nat) /\ sent[pipe[t]] \in Seq(Nat)
  BY <1>0 DEF ReadClock, PopLeft, TestLength, StartSleep, TakeStamp, Send,
              ServiceTypes, TypeOK, Stamps, Working, Waiting
<1>1. CASE ReadClock(t)
  <2>3. TypeOK'  BY <1>0, <1>1 DEF ReadClock, TypeOK, Pcs, Courses
  <2>4. ServiceTypes'
    BY <1>0, <1>1, <2>3 DEF ReadClock, TypeOK, ServiceTypes, Working, Waiting
  <2>5. CountHasOwn'
    BY <1>0, <1>1 DEF ReadClock, TypeOK, CountHasOwn, Working, Waiting
  <2>6. ReportCovers'  BY <1>0, <1>1 DEF ReadClock, TypeOK, ReportCovers
  <2> QED  BY <2>4, <2>5, <2>6 DEF ServiceInv
<1>2. CASE PopLeft(t)
  <2>1. Stamps(t) # <<>>  BY <1>2 DEF PopLeft, Expired
  <2>2. Tail(window[pipe[t]]) \in Seq(Nat)
    BY <1>w, <2>1, HeadTailProperties DEF Stamps
  <2>3. TypeOK'  BY <1>0, <1>2, <2>2 DEF PopLeft, TypeOK
  <2>4. ServiceTypes'
    BY <1>0, <1>2, <2>3 DEF PopLeft, TypeOK, ServiceTypes
  <2>5. CountHasOwn'  BY <1>0, <1>2 DEF PopLeft, CountHasOwn
  <2>6. ReportCovers'  BY <1>0, <1>2 DEF PopLeft, ReportCovers
  <2> QED  BY <2>4, <2>5, <2>6 DEF ServiceInv
<1>3. CASE TestLength(t)
  <2>3. TypeOK'  BY <1>0, <1>3 DEF TestLength, TypeOK, Pcs
  <2>4. ServiceTypes'
    BY <1>0, <1>3, <2>3 DEF TestLength, TypeOK, ServiceTypes, Working, Waiting
  <2>5. CountHasOwn'
    BY <1>0, <1>3 DEF TestLength, TypeOK, CountHasOwn, Working, Waiting
  <2>6. ReportCovers'  BY <1>0, <1>3 DEF TestLength, TypeOK, ReportCovers
  <2> QED  BY <2>4, <2>5, <2>6 DEF ServiceInv
<1>4. CASE StartSleep(t)
  <2>1. Head(Stamps(t)) \in Nat  BY <1>4, <1>w, HeadTailProperties DEF StartSleep
  <2>2. \E w \in Nat : wakeAt' = [wakeAt EXCEPT ![t] = w]
    <3> DEFINE age == seen[t] - Head(Stamps(t))
    <3>1. age \in Int /\ now \in Nat  BY <1>0, <2>1 DEF TypeOK
    <3>2. wakeAt' = [wakeAt EXCEPT ![t] = IF age < Second THEN now + Second - age ELSE now]
      BY <1>4 DEF StartSleep
    <3>3. (IF age < Second THEN now + Second - age ELSE now) \in Nat  BY <3>1
    <3> QED  BY <3>2, <3>3
  <2>3. TypeOK'  BY <1>0, <1>4, <2>2 DEF StartSleep, TypeOK, Pcs, Courses
  <2>4. ServiceTypes'
    BY <1>0, <1>4, <2>3 DEF StartSleep, TypeOK, ServiceTypes, Working, Waiting
  <2>5. CountHasOwn'
    BY <1>0, <1>4 DEF StartSleep, TypeOK, CountHasOwn, Working, Waiting
  <2>6. ReportCovers'  BY <1>0, <1>4 DEF StartSleep, TypeOK, ReportCovers
  <2> QED  BY <2>4, <2>5, <2>6 DEF ServiceInv
<1>5. CASE TakeStamp(t)
  <2>3. TypeOK'  BY <1>0, <1>5 DEF TakeStamp, TypeOK, Pcs
  <2>4. ServiceTypes'
    BY <1>0, <1>5, <2>3 DEF TakeStamp, TypeOK, ServiceTypes, Working, Waiting
  <2>5. CountHasOwn'
    BY <1>0, <1>5 DEF TakeStamp, TypeOK, CountHasOwn, Working, Waiting
  <2>6. ReportCovers'  BY <1>0, <1>5 DEF TakeStamp, TypeOK, ReportCovers
  <2> QED  BY <2>4, <2>5, <2>6 DEF ServiceInv
<1>6. CASE Send(t)
  <2>1. seen[t] \in Nat  BY <1>0 DEF TypeOK
  <2>2. /\ Append(window[pipe[t]], seen[t]) \in Seq(Nat)
        /\ Append(sent[pipe[t]], seen[t]) \in Seq(Nat)
    BY <1>w, <2>1, AppendProperties DEF Stamps
  <2>a. /\ cu' = [cu EXCEPT ![pipe[t]] = @ + 1] /\ own' = [own EXCEPT ![t] = @ + 1]
        /\ pc' = [pc EXCEPT ![t] = "post"]
    BY <1>6 DEF Send
  <2>d. cu \in [Threads -> Nat] /\ own \in [Threads -> Nat] /\ pc \in [Threads -> Pcs]
    BY <1>0 DEF TypeOK
  <2>e. cu' \in [Threads -> Nat]  BY <1>w, <2>a, <2>d
  <2>f. own' \in [Threads -> Nat]  BY <2>a, <2>d
  <2>g. pc' \in [Threads -> Pcs]  BY <2>a, <2>d DEF Pcs
  <2>b. /\ cu' \in [Threads -> Nat] /\ own' \in [Threads -> Nat] /\ pc' \in [Threads -> Pcs]
    BY <2>e, <2>f, <2>g
  <2>c. /\ window' \in [Threads -> Seq(Nat)] /\ sent' \in [Threads -> Seq(Nat)]
    BY <1>0, <1>6, <2>2 DEF Send, TypeOK
  <2>h. call' \in [Threads -> Courses] /\ calls' \in [Threads -> Seq(Courses)]
    <3>1. /\ call' = [u \in Threads |-> IF u # t /\ pipe[u] = pipe[t] THEN "raced" ELSE call[u]]
          /\ calls' = [calls EXCEPT ![pipe[t]] = Append(@, call[t])]
      BY <1>6 DEF Send
    <3>2. call \in [Threads -> Courses] /\ calls \in [Threads -> Seq(Courses)]
      BY <1>0 DEF TypeOK
    <3>3. call' \in [Threads -> Courses]  BY <3>1, <3>2 DEF Courses
    <3>4. Append(calls[pipe[t]], call[t]) \in Seq(Courses)
      BY <1>w, <3>2, AppendProperties
    <3>5. calls' \in [Threads -> Seq(Courses)]  BY <1>w, <3>1, <3>2, <3>4
    <3> QED  BY <3>3, <3>5
  <2>i. UNCHANGED <<now, pipeline, pipe, left, reported, requests, seen, wakeAt>>
    BY <1>6 DEF Send
  <2>3. TypeOK'  BY <1>0, <2>b, <2>c, <2>h, <2>i DEF TypeOK
  <2>4. ServiceTypes'
    BY <1>0, <1>6, <2>3 DEF Send, TypeOK, ServiceTypes, Working, Waiting
  <2>5. \A p \in Threads : cu'[p] \in Nat /\ cu[p] \in Nat /\ cu[p] <= cu'[p]
    BY <1>w, <2>a, <2>d
  <2>6. own[t] <= cu[pipe[t]] /\ cu'[pipe[t]] = cu[pipe[t]] + 1
    BY <1>0, <1>6, <1>w DEF Send, TypeOK, CountHasOwn, Working, Waiting
  <2>7. CountHasOwn'
    <3> SUFFICES ASSUME NEW u \in Threads
                 PROVE  /\ pc'[u] \in {"test", "build", "return"} => own'[u] = 0
                        /\ pc'[u] \in Working => own'[u] <= cu'[pipe'[u]]
      BY DEF CountHasOwn
    <3>1. CASE u = t
      BY <1>0, <1>6, <1>w, <2>6, <3>1, SMTT(30) DEF Send, TypeOK, Working, Waiting
    <3>2. CASE u # t
      <4>1. pc'[u] = pc[u] /\ own'[u] = own[u] /\ pipe'[u] = pipe[u] /\ own[u] \in Nat
        BY <1>0, <1>6, <3>2 DEF Send, TypeOK
      <4>2. pc[u] \in Working => pipe[u] \in Threads  BY <1>0 DEF ServiceTypes
      <4> QED  BY <1>0, <2>5, <4>1, <4>2 DEF CountHasOwn
    <3> QED  BY <3>1, <3>2
  <2>8. ReportCovers'  BY <1>0, <1>6 DEF Send, TypeOK, ReportCovers
  <2> QED  BY <2>4, <2>7, <2>8 DEF ServiceInv
<1> QED  BY <1>1, <1>2, <1>3, <1>4, <1>5, <1>6

\* get_pipeline(), the count and the replies keep the inductive invariant,
\* for any number of threads and however they interleave.
THEOREM ServiceInvariance == Spec => []ServiceInv
<1>1. ServiceInv /\ [Next]_vars => ServiceInv'
  <2> SUFFICES ASSUME ServiceInv, [Next]_vars PROVE ServiceInv'  OBVIOUS
  <2>1. CASE Tick
    <3>1. TypeOK'
      BY <2>1, MlAssumption DEF Tick, ServiceInv, ServiceTypes, TypeOK, history, shared, handler,
                             limiter
    <3> QED
      BY <2>1, <3>1 DEF Tick, ServiceInv, ServiceTypes, CountHasOwn, ReportCovers,
                        history, shared, handler, limiter
  <2>2. ASSUME NEW t \in Threads, Accept(t) \/ ThreadStep(t) PROVE ServiceInv'
    BY <2>2, RequestSteps, LimiterSteps DEF ThreadStep
  <2>3. CASE UNCHANGED vars
    BY <2>3 DEF vars, clockVars, history, shared, handler, limiter, ServiceInv, ServiceTypes,
                TypeOK, CountHasOwn, ReportCovers
  <2> QED  BY <2>1, <2>2, <2>3 DEF Next
<1> QED  BY <1>1, ServiceStart, PTL DEF Spec

\* A reply reports at least what its request has spent, so that the worker
\* never takes an analysis over its budget for one within it.
THEOREM RepliesCoverTheSpend == Spec => []ReportCovers
<1>1. ServiceInv => ReportCovers  BY DEF ServiceInv
<1> QED  BY <1>1, ServiceInvariance, PTL

----------------------------------------------------------------------------
(* The limiter of racing threads.                                          *)

\* The types of one pipeline and of one thread.
LEMMA PipelineFacts ==
  ASSUME ServiceInv, NEW p \in Threads
  PROVE  /\ sent[p] \in Seq(Nat) /\ window[p] \in Seq(Nat)
         /\ Len(sent[p]) \in Nat /\ Len(window[p]) \in Nat
         /\ \A i \in 1 .. Len(sent[p]) : sent[p][i] \in Nat
         /\ DOMAIN sent[p] = 1 .. Len(sent[p])
         /\ calls[p] \in Seq(Courses) /\ now \in Nat
         /\ Rps \in Nat \ {0} /\ Second \in Nat \ {0}
<1>1. /\ sent[p] \in Seq(Nat) /\ window[p] \in Seq(Nat) /\ now \in Nat
      /\ calls[p] \in Seq(Courses)
  BY MlAssumption DEF ServiceInv, ServiceTypes, TypeOK
<1> QED  BY <1>1, LenProperties, ElementOfSeq, MlAssumption

LEMMA ThreadFacts ==
  ASSUME ServiceInv, NEW t \in Threads
  PROVE  /\ seen[t] \in Nat /\ wakeAt[t] \in Nat /\ call[t] \in Courses
         /\ pc[t] \in Section => pipe[t] \in Threads
BY MlAssumption DEF ServiceInv, ServiceTypes, TypeOK, Section, Working, Waiting

\* A second's RPCs are finitely many.
LEMMA RecentIsFinite ==
  ASSUME ServiceInv, NEW p \in Threads, NEW x \in Int
  PROVE  IsFiniteSet(Recent(p, x)) /\ Cardinality(Recent(p, x)) \in Nat
<1>1. Len(sent[p]) \in Nat  BY PipelineFacts
<1>2. IsFiniteSet(1 .. Len(sent[p]))  BY <1>1, FS_Interval
<1>3. Recent(p, x) \subseteq 1 .. Len(sent[p])  BY DEF Recent
<1>4. IsFiniteSet(Recent(p, x))  BY <1>2, <1>3, FS_Subset
<1> QED  BY <1>4, FS_CardinalityType

\* So are the races since an anchor.
LEMMA RacedAreFinite ==
  ASSUME ServiceInv, NEW p \in Threads, NEW c
  PROVE  IsFiniteSet(RacedAfter(p, c)) /\ Cardinality(RacedAfter(p, c)) \in Nat
<1>1. Len(sent[p]) \in Nat /\ DOMAIN sent[p] = 1 .. Len(sent[p])  BY PipelineFacts
<1>2. IsFiniteSet(1 .. Len(sent[p]))  BY <1>1, FS_Interval
<1>3. RacedAfter(p, c) \subseteq 1 .. Len(sent[p])  BY <1>1 DEF RacedAfter
<1>4. IsFiniteSet(RacedAfter(p, c))  BY <1>2, <1>3, FS_Subset
<1> QED  BY <1>4, FS_CardinalityType

\* A call that finds room: as many RPCs as were sent within the second before
\* it are in the window, and there are fewer than Rps.
LEMMA RoomInWindow ==
  ASSUME ServiceInv, LimiterInv, NEW p \in Threads, Len(window[p]) < Rps
  PROVE  Cardinality(Recent(p, now)) < Rps
<1> DEFINE s == sent[p]  n == Len(s)  m == Len(window[p])
<1>f. /\ n \in Nat /\ m \in Nat /\ now \in Nat
      /\ Rps \in Nat \ {0} /\ Second \in Nat \ {0}
      /\ \A i \in 1 .. n : s[i] \in Nat
  BY PipelineFacts
<1>i. /\ m <= n /\ \A i \in 1 .. n : i <= n - m => now - s[i] > Second
  BY DEF LimiterInv, PipelineInv, WindowIsTheEnd, Dropped
<1>r. Recent(p, now) = {j \in 1 .. n : now - Second < s[j] /\ s[j] <= now}  BY DEF Recent
<1>l. m < Rps  OBVIOUS
<1> HIDE DEF s, n, m
<1>1. Recent(p, now) \subseteq n - m + 1 .. n
  <2> SUFFICES ASSUME NEW j \in Recent(p, now) PROVE j \in n - m + 1 .. n  OBVIOUS
  <2>1. j \in 1 .. n /\ now - Second < s[j] /\ s[j] \in Nat  BY <1>r, <1>f
  <2>2. ~ (j <= n - m)  BY <2>1, <1>i, <1>f
  <2> QED  BY <2>1, <2>2, <1>f, <1>i
<1>2. /\ IsFiniteSet(n - m + 1 .. n) /\ Cardinality(n - m + 1 .. n) = m
  <2> DEFINE a == n - m + 1
  <2>1. a \in Int /\ n \in Int /\ (a > n => m = 0) /\ n - a + 1 = m  BY <1>f
  <2> HIDE DEF a
  <2>2. /\ IsFiniteSet(a .. n)
        /\ Cardinality(a .. n) = IF a > n THEN 0 ELSE n - a + 1
    BY <2>1, FS_Interval
  <2> QED  BY <2>1, <2>2 DEF a
<1>3. Cardinality(Recent(p, now)) <= m  BY <1>1, <1>2, FS_Subset
<1>4. Cardinality(Recent(p, now)) \in Nat  BY RecentIsFinite, <1>f
<1> QED  BY <1>3, <1>4, <1>l, <1>f

\* A call that has slept: the second that ends when it wakes has at least one
\* RPC less than the one that ended before it began to wait.
LEMMA RoomAfterSleep ==
  ASSUME ServiceInv, LimiterInv, NEW p \in Threads, NEW r \in Nat, r <= now,
         \A i \in 1 .. Len(sent[p]) : sent[p][i] < r,
         NEW i \in 1 .. Len(sent[p]), r - sent[p][i] <= Second, now - sent[p][i] >= Second,
         NEW c \in Anchors(p)
  PROVE  Cardinality(Recent(p, now)) < Rps + Cardinality(RacedAfter(p, c))
<1> DEFINE s == sent[p]  n == Len(s)  A == Recent(p, now)  B == Recent(p, r - 1)
<1> DEFINE raced == Cardinality(RacedAfter(p, c))
<1>f. /\ n \in Nat /\ now \in Nat /\ raced \in Nat
      /\ Rps \in Nat \ {0} /\ Second \in Nat \ {0}
      /\ \A j \in 1 .. n : s[j] \in Nat /\ s[j] < r
      /\ i \in 1 .. n /\ r - s[i] <= Second /\ now - s[i] >= Second /\ r <= now
  BY PipelineFacts, RacedAreFinite
<1>r. /\ A = {j \in 1 .. n : now - Second < s[j] /\ s[j] <= now}
      /\ B = {j \in 1 .. n : r - 1 - Second < s[j] /\ s[j] <= r - 1}
  BY DEF Recent
<1>b. /\ IsFiniteSet(A) /\ Cardinality(A) \in Nat
      /\ IsFiniteSet(B) /\ Cardinality(B) \in Nat /\ Cardinality(B) <= Rps + raced
  <2>1. r - 1 \in Int /\ now \in Int  BY <1>f
  <2>2. c # 0 => sent[p][c] <= r - 1
    <3> SUFFICES ASSUME c # 0 PROVE sent[p][c] <= r - 1  OBVIOUS
    <3>1. c \in 1 .. n  BY PipelineFacts DEF Anchors
    <3>2. s[c] \in Nat /\ s[c] < r  BY <3>1, <1>f
    <3> QED  BY <3>2
  <2>3. RateKept(p)  BY DEF LimiterInv, PipelineInv
  <2>4. Cardinality(B) <= Rps + raced  BY <2>1, <2>2, <2>3 DEF RateKept
  <2> QED  BY <2>1, <2>4, RecentIsFinite
<1> HIDE DEF s, n, A, B, raced
<1>1. i \notin A /\ i \in B
  <2>1. s[i] \in Nat /\ s[i] < r  BY <1>f
  <2> QED  BY <2>1, <1>f, <1>r
<1>2. A \cup {i} \subseteq B
  <2> SUFFICES ASSUME NEW j \in A PROVE j \in B  BY <1>1
  <2>1. j \in 1 .. n /\ s[j] \in Nat /\ s[j] < r /\ now - Second < s[j]  BY <1>r, <1>f
  <2> QED  BY <2>1, <1>f, <1>r
<1>3. Cardinality(A \cup {i}) = Cardinality(A) + 1  BY <1>1, <1>b, FS_AddElement
<1>4. Cardinality(A \cup {i}) <= Cardinality(B)  BY <1>2, <1>b, FS_Subset
<1> QED  BY <1>3, <1>4, <1>b, <1>f DEF A, raced

\* Before the first request.
LEMMA LimiterStart == Init => LimiterInv
<1> SUFFICES ASSUME Init PROVE LimiterInv  OBVIOUS
<1>1. ASSUME NEW p \in Threads PROVE PipelineInv(p)
  <2>1. /\ sent[p] = << >> /\ window[p] = << >> /\ calls[p] = << >>  BY DEF Init
  <2>2. Len(sent[p]) = 0 /\ Len(window[p]) = 0 /\ Len(calls[p]) = 0  BY <2>1
  <2>3. \A x \in Int : Recent(p, x) = {}  BY <2>2 DEF Recent
  <2>4. RateKept(p)
    <3>1. Cardinality({}) = 0 /\ 0 <= Rps + 0  BY FS_EmptySet, MlAssumption
    <3>2. \A c : RacedAfter(p, c) = {}  BY <2>1 DEF RacedAfter
    <3> QED  BY <2>3, <3>1, <3>2 DEF RateKept
  <2> QED  BY <2>2, <2>4 DEF PipelineInv, WindowIsTheEnd, StampsPast
<1>2. \A t \in Threads : CallOf(t)  BY DEF Init, CallOf, Section
<1> QED  BY <1>1, <1>2 DEF LimiterInv

\* What is said of the history stays while the history does.
LEMMA SameHistory ==
  ASSUME UNCHANGED <<sent, calls>>
  PROVE  \A p : /\ Anchors(p)' = Anchors(p)
                /\ \A c : RacedAfter(p, c)' = RacedAfter(p, c)
                /\ \A x : Recent(p, x)' = Recent(p, x)
BY DEF Anchors, RacedAfter, Recent

\* What is old stays old.
LEMMA ClockKeeps ==
  ASSUME ServiceInv, LimiterInv, Tick
  PROVE  LimiterInv'
<1>1. /\ UNCHANGED <<sent, call, calls, window, pc, pipe, seen, wakeAt>> /\ now' = now + 1
  BY DEF Tick, history, shared, handler, limiter
<1>2. ASSUME NEW p \in Threads PROVE PipelineInv(p)'
  <2>f. /\ Len(sent[p]) \in Nat /\ now \in Nat /\ Second \in Nat
        /\ \A i \in 1 .. Len(sent[p]) : sent[p][i] \in Nat
    BY PipelineFacts
  <2>i. WindowIsTheEnd(p) /\ StampsPast(p) /\ RateKept(p) /\ Len(calls[p]) = Len(sent[p])
    BY <1>2 DEF LimiterInv, PipelineInv
  <2>1. \A i \in 1 .. Len(sent[p]) : i <= Dropped(p) => now' - sent[p][i] > Second
    BY <1>1, <2>f, <2>i DEF WindowIsTheEnd
  <2>2. \A i \in 1 .. Len(sent[p]) : sent[p][i] <= now'
    BY <1>1, <2>f, <2>i DEF StampsPast
  <2>3. WindowIsTheEnd(p)' /\ StampsPast(p)'
    BY <1>1, <2>1, <2>2, <2>i DEF WindowIsTheEnd, StampsPast, Dropped
  <2>4. RateKept(p)' /\ Len(calls'[p]) = Len(sent'[p])
    BY <1>1, <2>i, SameHistory DEF RateKept
  <2> QED  BY <2>3, <2>4 DEF PipelineInv
<1>3. ASSUME NEW t \in Threads PROVE CallOf(t)'
  <2>1. CallOf(t) /\ seen[t] \in Nat /\ now \in Nat
    BY <1>3, ThreadFacts, PipelineFacts DEF LimiterInv
  <2>2. seen[t] <= now'  BY <1>1, <2>1 DEF CallOf
  <2>3. ASSUME pc[t] \in Section, call[t] # "raced" PROVE Undisturbed(t, pipe[t])'
    <3>0. PICK p \in Threads : p = pipe[t]  BY <2>3, ThreadFacts
    <3>1. Undisturbed(t, p)  BY <2>1, <2>3, <3>0 DEF CallOf
    <3>2. /\ \A i \in 1 .. Len(sent[p]) : sent[p][i] \in Nat
          /\ now \in Nat /\ Second \in Nat
      BY PipelineFacts
    <3>3. \A i \in 1 .. Len(sent[p]) : now - sent[p][i] > Second => now' - sent[p][i] > Second
      BY <1>1, <3>2
    <3>4. Undisturbed(t, p)'
      BY <1>1, <3>1, <3>3 DEF Undisturbed, Dropped, Recent, Anchors, RacedAfter
    <3> QED  BY <1>1, <3>0, <3>4
  <2> QED  BY <1>1, <2>2, <2>3 DEF CallOf
<1> QED  BY <1>2, <1>3 DEF LimiterInv

LEMMA SamePipeline ==
  ASSUME NEW p, PipelineInv(p), UNCHANGED <<now, sent, calls>>, window'[p] = window[p]
  PROVE  PipelineInv(p)'
<1>1. WindowIsTheEnd(p)' /\ StampsPast(p)' /\ Len(calls'[p]) = Len(sent'[p])
  BY DEF PipelineInv, WindowIsTheEnd, StampsPast, Dropped
<1>2. RateKept(p)'  BY SameHistory DEF PipelineInv, RateKept
<1> QED  BY <1>1, <1>2 DEF PipelineInv

LEMMA SameCall ==
  ASSUME NEW u, CallOf(u), UNCHANGED <<now, sent, calls, window>>,
         pc'[u] = pc[u], pipe'[u] = pipe[u], call'[u] = call[u],
         seen'[u] = seen[u], wakeAt'[u] = wakeAt[u]
  PROVE  CallOf(u)'
<1>1. ASSUME pc[u] \in Section, call[u] # "raced" PROVE Undisturbed(u, pipe[u])'
  <2> DEFINE p == pipe[u]
  <2>1. Undisturbed(u, p)  BY <1>1 DEF CallOf
  <2>2. Anchors(p)' = Anchors(p) /\ Recent(p, seen[u])' = Recent(p, seen[u])
        /\ \A c : RacedAfter(p, c)' = RacedAfter(p, c)
    BY DEF Anchors, RacedAfter, Recent
  <2> QED  BY <2>1, <2>2 DEF Undisturbed, Dropped
<1> QED  BY <1>1 DEF CallOf

\* A step of one thread that touches neither the clock, nor what was sent, nor
\* a window: the pipelines and the other threads' calls are as they were.
LEMMA OtherCallsKeep ==
  ASSUME ServiceInv, LimiterInv, NEW t \in Threads,
         UNCHANGED <<now, sent, calls, window>>,
         \A u \in Threads \ {t} :
           /\ pc'[u] = pc[u] /\ pipe'[u] = pipe[u] /\ call'[u] = call[u]
           /\ seen'[u] = seen[u] /\ wakeAt'[u] = wakeAt[u],
         CallOf(t)'
  PROVE  LimiterInv'
<1>1. ASSUME NEW p \in Threads PROVE PipelineInv(p)'
  BY SamePipeline DEF LimiterInv
<1>2. ASSUME NEW u \in Threads \ {t} PROVE CallOf(u)'  BY SameCall DEF LimiterInv
<1> QED  BY <1>1, <1>2 DEF LimiterInv

\* The rest of the request is outside wait(), or begins it.
LEMMA RequestKeeps ==
  ASSUME ServiceInv, LimiterInv, NEW t \in Threads,
         \/ Accept(t) \/ TestPipeline(t) \/ BuildPipeline(t) \/ ReturnPipeline(t)
         \/ IndexError(t) \/ RpcEnds(t) \/ Reply(t)
  PROVE  LimiterInv'
<1> USE DEF Accept, TestPipeline, BuildPipeline, ReturnPipeline, IndexError, RpcEnds, Reply,
            clockVars, history, shared, handler, limiter, Goto
<1>1. UNCHANGED <<now, sent, calls, window, call, seen, wakeAt>>  OBVIOUS
<1>2. pc \in [Threads -> Pcs] /\ pipe \in [Threads -> Threads \cup {NoPipeline}]
  BY DEF ServiceInv, ServiceTypes, TypeOK
<1>3. \A u \in Threads \ {t} : pc'[u] = pc[u] /\ pipe'[u] = pipe[u]  BY <1>2
<1>4. pc'[t] \in {"test", "build", "return", "clock", "report", "idle"}  BY <1>2
<1>5. CallOf(t)'  BY <1>1, <1>4 DEF LimiterInv, CallOf, Section
<1> QED  BY <1>1, <1>3, <1>5, OtherCallsKeep

\* The points of wait() that only read.
LEMMA WaitKeeps ==
  ASSUME ServiceInv, LimiterInv, NEW t \in Threads,
         \/ ReadClock(t) \/ TestLength(t) \/ StartSleep(t) \/ TakeStamp(t)
  PROVE  LimiterInv'
<1> USE DEF clockVars, history, shared, handler, limiter, Goto
<1>1. UNCHANGED <<now, sent, calls, window, pipe>>
  BY DEF ReadClock, TestLength, StartSleep, TakeStamp
<1>t. /\ pc \in [Threads -> Pcs] /\ seen \in [Threads -> 0 .. Horizon]
      /\ wakeAt \in [Threads -> Nat] /\ call \in [Threads -> Courses]
  BY DEF ServiceInv, ServiceTypes, TypeOK
<1>2. \A u \in Threads \ {t} :
        /\ pc'[u] = pc[u] /\ pipe'[u] = pipe[u] /\ call'[u] = call[u]
        /\ seen'[u] = seen[u] /\ wakeAt'[u] = wakeAt[u]
  BY <1>t DEF ReadClock, TestLength, StartSleep, TakeStamp
<1>p. PICK p \in Threads : p = pipe[t]
  BY DEF ReadClock, TestLength, StartSleep, TakeStamp, ServiceInv, ServiceTypes,
         Working, Waiting
<1> DEFINE s == sent[p]  n == Len(s)  m == Len(window[p])
<1>f. /\ s \in Seq(Nat) /\ window[p] \in Seq(Nat) /\ n \in Nat /\ m \in Nat
      /\ now \in Nat /\ seen[t] \in Nat /\ wakeAt[t] \in Nat
      /\ Rps \in Nat \ {0} /\ Second \in Nat \ {0}
      /\ \A i \in 1 .. n : s[i] \in Nat
  BY <1>p, PipelineFacts, ThreadFacts
<1>i. /\ \A i \in 1 .. n : s[i] <= now
      /\ m <= n /\ \A i \in 1 .. m : window[p][i] = s[n - m + i]
      /\ CallOf(t) /\ seen[t] <= now
  BY <1>p DEF LimiterInv, PipelineInv, WindowIsTheEnd, StampsPast, Dropped, CallOf
<1>w. Stamps(t) = window[p] /\ pipe'[t] = p  BY <1>1, <1>p DEF Stamps
<1>3. CASE ReadClock(t)
  <2>1. /\ pc'[t] = "prune" /\ seen'[t] = now
        /\ call'[t] = IF \E i \in DOMAIN s : s[i] = now THEN "raced" ELSE "room"
    BY <1>3, <1>t, <1>p DEF ReadClock
  <2>2. DOMAIN s = 1 .. n  BY <1>f, LenProperties
  <2>3. ASSUME call'[t] # "raced" PROVE \A i \in 1 .. n : s[i] < now
    <3> HIDE DEF s, n
    <3>1. \A i \in 1 .. n : s[i] # now  BY <2>1, <2>2, <2>3
    <3> QED  BY <3>1, <1>f, <1>i
  <2>4. CallOf(t)'  BY <1>1, <1>w, <2>1, <2>3, <1>f DEF CallOf, Undisturbed
  <2> QED  BY <1>1, <1>2, <2>4, OtherCallsKeep
<1>4. CASE TestLength(t)
  <2>1. /\ pc[t] = "prune" /\ ~ Expired(t) /\ UNCHANGED <<seen, wakeAt, call>>
        /\ pc'[t] = IF m >= Rps THEN "measure" ELSE "append"
    BY <1>4, <1>t, <1>w DEF TestLength
  <2>2. ASSUME call[t] # "raced" PROVE Undisturbed(t, p)'
    <3>1. (\A i \in 1 .. n : s[i] < seen[t]) /\ call[t] = "room"
      BY <2>1, <2>2, <1>i, <1>p DEF CallOf, Undisturbed, Section
    <3>2. CASE m >= Rps
      <4>1. /\ window[p] # << >> /\ Head(window[p]) = window[p][1] /\ m >= 1
        BY <3>2, <1>f
      <4>2. ~ (seen[t] - window[p][1] > Second)  BY <2>1, <1>w, <4>1 DEF Expired
      <4>3. window[p][1] = s[n - m + 1] /\ n - m + 1 \in 1 .. n
        <5> HIDE DEF s, n, m
        <5>1. 1 \in 1 .. m  BY <4>1, <1>f
        <5> QED  BY <5>1, <1>f, <1>i
      <4>4. seen[t] - s[n - m + 1] <= Second
        <5> HIDE DEF s, n, m
        <5>1. s[n - m + 1] \in Nat  BY <4>3, <1>f
        <5> QED  BY <4>2, <4>3, <5>1, <1>f
      <4> QED  BY <1>1, <2>1, <3>1, <3>2, <4>3, <4>4 DEF Undisturbed, Dropped
    <3>3. CASE ~ (m >= Rps)
      <4>1. m < Rps  BY <3>3, <1>f
      <4> QED  BY <1>1, <2>1, <3>1, <3>3, <4>1 DEF Undisturbed
    <3> QED  BY <3>2, <3>3
  <2>4. CallOf(t)'  BY <1>1, <1>w, <2>1, <2>2, <1>i DEF CallOf
  <2> QED  BY <1>1, <1>2, <2>4, OtherCallsKeep
<1>5. CASE StartSleep(t)
  <2>1. /\ pc[t] = "measure" /\ pc'[t] = "sleep" /\ UNCHANGED seen
        /\ call'[t] = IF call[t] = "raced" THEN "raced" ELSE "slept"
        /\ window[p] # << >>
        /\ wakeAt'[t] = IF seen[t] - Head(window[p]) < Second
                        THEN now + Second - (seen[t] - Head(window[p])) ELSE now
    BY <1>5, <1>t, <1>w DEF StartSleep
  <2>g. Head(window[p]) = window[p][1] /\ m >= 1  BY <2>1, <1>f
  <2>h. window[p][1] = s[n - m + 1] /\ n - m + 1 \in 1 .. n
    <3> HIDE DEF s, n, m
    <3>1. 1 \in 1 .. m  BY <2>g, <1>f
    <3> QED  BY <3>1, <1>f, <1>i, SMTT(30)
  <2>2. ASSUME call[t] # "raced" PROVE Undisturbed(t, p)'
    <3>0. Undisturbed(t, p)  BY <2>1, <2>2, <1>i, <1>p DEF CallOf, Section
    <3>1. \A i \in 1 .. n : s[i] < seen[t]  BY <3>0 DEF Undisturbed
    <3>2. PICK i \in 1 .. n : /\ seen[t] - s[i] <= Second
                              /\ i = n - m + 1 \/ now - s[i] > Second
      BY <3>0, <2>1 DEF Undisturbed, Dropped
    <3>5. wakeAt'[t] >= s[i] + Second
      <4> HIDE DEF s, n, m
      <4> DEFINE first == s[n - m + 1]
      <4>1. s[i] \in Nat /\ first \in Nat /\ Head(window[p]) = first
        BY <2>g, <2>h, <1>f
      <4>w. wakeAt'[t] = IF seen[t] - first < Second THEN now + Second - (seen[t] - first)
                                                    ELSE now
        BY <2>1, <4>1
      <4>2. CASE i = n - m + 1
        <5>1. s[i] = first  BY <4>2
        <5> HIDE DEF first
        <5> QED  BY <5>1, <4>1, <4>w, <3>2, <1>f, <1>i
      <4>3. CASE now - s[i] > Second
        <5> HIDE DEF first
        <5>1. wakeAt'[t] >= now  BY <4>1, <4>w, <1>f
        <5>2. wakeAt'[t] \in Int  BY <4>1, <4>w, <1>f
        <5> QED  BY <5>1, <5>2, <4>1, <4>3, <1>f, SMTT(30)
      <4> QED  BY <4>2, <4>3, <3>2
    <3> QED  BY <1>1, <2>1, <2>2, <3>1, <3>2, <3>5 DEF Undisturbed
  <2>4. CallOf(t)'  BY <1>1, <1>w, <2>1, <2>2, <1>i DEF CallOf
  <2> QED  BY <1>1, <1>2, <2>4, OtherCallsKeep
<1>6. CASE TakeStamp(t)
  <2>1. /\ pc'[t] = "send" /\ seen'[t] = now /\ UNCHANGED <<wakeAt, call>>
        /\ pc[t] = "append" \/ (pc[t] = "sleep" /\ now >= wakeAt[t])
    BY <1>6, <1>t DEF TakeStamp
  <2>2. ASSUME call[t] # "raced" PROVE Undisturbed(t, p)'
    <3>0. Undisturbed(t, p)  BY <2>1, <2>2, <1>i, <1>p DEF CallOf, Section
    <3>1. \A i \in 1 .. n : s[i] < seen[t]  BY <3>0 DEF Undisturbed
    <3>2. \A i \in 1 .. n : s[i] < now
      <4> HIDE DEF s, n
      <4> QED  BY <3>1, <1>f, <1>i
    <3>3. CASE pc[t] = "append"
      <4>1. Cardinality(Recent(p, now)) < Rps  BY <3>0, <3>3, <1>p, RoomInWindow DEF Undisturbed
      <4>2. ASSUME NEW c \in Anchors(p)
            PROVE  Cardinality(Recent(p, now)) < Rps + Cardinality(RacedAfter(p, c))
        <5>1. Cardinality(RacedAfter(p, c)) \in Nat  BY <1>p, RacedAreFinite
        <5>2. Cardinality(Recent(p, now)) \in Nat
          <6>1. now \in Int  BY <1>f
          <6> QED  BY <6>1, RecentIsFinite
        <5> QED  BY <4>1, <5>1, <5>2, <1>f
      <4> QED  BY <1>1, <2>1, <3>2, <4>1, <4>2 DEF Undisturbed, Recent, Anchors, RacedAfter
    <3>4. CASE pc[t] = "sleep" /\ now >= wakeAt[t]
      <4>1. PICK i \in 1 .. n : seen[t] - s[i] <= Second /\ wakeAt[t] >= s[i] + Second
        BY <3>0, <3>4 DEF Undisturbed
      <4>2. now - s[i] >= Second
        <5> HIDE DEF s, n
        <5>1. s[i] \in Nat  BY <1>f
        <5> QED  BY <4>1, <5>1, <3>4, <1>f
      <4>3. \A c \in Anchors(p) :
              Cardinality(Recent(p, now)) < Rps + Cardinality(RacedAfter(p, c))
        BY <3>1, <4>1, <4>2, <1>p, <1>f, <1>i, RoomAfterSleep
      <4>4. call[t] = "slept"  BY <3>0, <3>4 DEF Undisturbed
      <4> QED
        BY <1>1, <2>1, <3>2, <4>3, <4>4 DEF Undisturbed, Recent, Anchors, RacedAfter
    <3> QED  BY <2>1, <3>3, <3>4
  <2>4. CallOf(t)'  BY <1>1, <1>w, <2>1, <2>2, <1>f DEF CallOf
  <2> QED  BY <1>1, <1>2, <2>4, OtherCallsKeep
<1> QED  BY <1>3, <1>4, <1>5, <1>6

\* What leaves a window is more than a second old, so a call that waits for
\* it may as well have waited.
LEMMA PopKeeps ==
  ASSUME ServiceInv, LimiterInv, NEW t \in Threads, PopLeft(t)
  PROVE  LimiterInv'
<1>p. PICK p \in Threads : p = pipe[t]
  BY ThreadFacts DEF PopLeft, Section
<1> DEFINE w == window[p]  s == sent[p]  n == Len(s)  m == Len(w)
<1>1. /\ UNCHANGED <<now, sent, call, calls, pc, pipe, seen, wakeAt>>
      /\ window' = [window EXCEPT ![p] = Tail(@)]
      /\ pc[t] = "prune" /\ w # << >> /\ seen[t] - Head(w) > Second
  BY <1>p DEF PopLeft, Expired, Stamps, clockVars, history, handler, limiter
<1>2. window'[p] = Tail(w) /\ \A q \in Threads \ {p} : window'[q] = window[q]
  BY <1>1, <1>p DEF ServiceInv, ServiceTypes, TypeOK
<1>f. /\ s \in Seq(Nat) /\ w \in Seq(Nat) /\ n \in Nat /\ m \in Nat
      /\ now \in Nat /\ seen[t] \in Nat
      /\ Rps \in Nat \ {0} /\ Second \in Nat \ {0}
      /\ \A i \in 1 .. n : s[i] \in Nat
  BY <1>p, PipelineFacts, ThreadFacts
<1>i. /\ m <= n /\ \A i \in 1 .. m : w[i] = s[n - m + i]
      /\ \A i \in 1 .. n : i <= n - m => now - s[i] > Second
      /\ seen[t] <= now
  BY <1>p DEF LimiterInv, PipelineInv, WindowIsTheEnd, Dropped, CallOf
<1>3. /\ Len(window'[p]) = m - 1 /\ Head(w) = w[1] /\ m > 0
      /\ \A i \in 1 .. m - 1 : window'[p][i] = w[i + 1]
  <2>1. w # << >> /\ window'[p] = Tail(w) /\ w \in Seq(Nat)  BY <1>1, <1>2, <1>f
  <2> HIDE DEF w
  <2> QED  BY <2>1, HeadTailProperties
<1>s. sent'[p] = s /\ Len(sent'[p]) = n  BY <1>1
<1> HIDE DEF s, n, m, w
<1>4. n - (m - 1) = n - m + 1 /\ n - m + 1 \in 1 .. n /\ m - 1 <= n /\ 1 \in 1 .. m
  BY <1>3, <1>f, <1>i
<1>5. w[1] = s[n - m + 1]  BY <1>4, <1>i
<1>6. now - s[n - m + 1] > Second
  <2>1. s[n - m + 1] \in Nat  BY <1>4, <1>f
  <2> QED  BY <2>1, <1>1, <1>3, <1>5, <1>f, <1>i, SMTT(30)
<1>7. PipelineInv(p)'
  <2>1. \A i \in 1 .. m - 1 : window'[p][i] = s[n - (m - 1) + i]
    <3> SUFFICES ASSUME NEW i \in 1 .. m - 1 PROVE window'[p][i] = s[n - (m - 1) + i]
      OBVIOUS
    <3>1. i + 1 \in 1 .. m /\ n - m + (i + 1) = n - (m - 1) + i  BY <1>f
    <3>2. w[i + 1] = s[n - m + (i + 1)]  BY <3>1, <1>i
    <3> QED  BY <3>1, <3>2, <1>3
  <2>2. \A i \in 1 .. n : i <= n - (m - 1) => now - s[i] > Second
    <3> SUFFICES ASSUME NEW i \in 1 .. n, i <= n - (m - 1) PROVE now - s[i] > Second
      OBVIOUS
    <3>1. i <= n - m \/ i = n - m + 1  BY <1>4, <1>f
    <3> QED  BY <3>1, <1>6, <1>i
  <2>3. WindowIsTheEnd(p)'
    BY <1>1, <1>3, <1>4, <1>s, <2>1, <2>2 DEF WindowIsTheEnd, Dropped
  <2>4. StampsPast(p) /\ RateKept(p) /\ Len(calls[p]) = Len(sent[p])
    BY <1>p DEF LimiterInv, PipelineInv
  <2>5. StampsPast(p)' /\ RateKept(p)' /\ Len(calls'[p]) = Len(sent'[p])
    BY <1>1, <2>4 DEF StampsPast, RateKept, Recent, Anchors, RacedAfter
  <2> QED  BY <2>3, <2>5 DEF PipelineInv
<1>8. ASSUME NEW q \in Threads \ {p} PROVE PipelineInv(q)'
  <2>1. PipelineInv(q) /\ window'[q] = window[q]  BY <1>2 DEF LimiterInv
  <2> QED  BY <1>1, <2>1, SamePipeline
<1>9. ASSUME NEW u \in Threads PROVE CallOf(u)'
  <2>1. CallOf(u)  BY DEF LimiterInv
  <2>2. ASSUME pc[u] \in Section, call[u] # "raced" PROVE Undisturbed(u, pipe[u])'
    <3>1. Undisturbed(u, pipe[u]) /\ pipe[u] \in Threads  BY <2>1, <2>2, ThreadFacts DEF CallOf
    <3>2. CASE pipe[u] # p
      <4>1. window'[pipe[u]] = window[pipe[u]]  BY <1>2, <3>1, <3>2
      <4> QED  BY <1>1, <3>1, <4>1 DEF Undisturbed, Dropped, Recent, Anchors, RacedAfter
    <3>3. CASE pipe[u] = p
      <4>0. pipe'[u] = p  BY <1>1, <3>3
      <4>1. Undisturbed(u, p)  BY <3>1, <3>3
      <4>2. /\ \A i \in 1 .. n : s[i] < seen'[u]
            /\ pc'[u] = "sleep" =>
                 \E i \in 1 .. n : seen'[u] - s[i] <= Second /\ wakeAt'[u] >= s[i] + Second
            /\ pc'[u] = "sleep" => call'[u] = "slept"
            /\ pc'[u] \in {"prune", "measure", "append"} => call'[u] = "room"
        BY <1>1, <4>1 DEF Undisturbed, s, n
      <4>3. pc'[u] = "measure" =>
              \E i \in 1 .. n : seen'[u] - s[i] <= Second
                                /\ (i = n - (m - 1) + 1 \/ now' - s[i] > Second)
        <5> SUFFICES ASSUME pc[u] = "measure"
                     PROVE  \E i \in 1 .. n : seen[u] - s[i] <= Second /\ now - s[i] > Second
          BY <1>1
        <5>1. PICK i \in 1 .. n : /\ seen[u] - s[i] <= Second
                                  /\ i = n - m + 1 \/ now - s[i] > Second
          BY <4>1 DEF Undisturbed, Dropped, s, n, m, w
        <5> QED  BY <5>1, <1>6
      <4>4. pc'[u] = "append" => Len(window'[p]) < Rps
        <5> SUFFICES ASSUME pc[u] = "append" PROVE Len(window'[p]) < Rps  BY <1>1
        <5>1. m < Rps  BY <4>1 DEF Undisturbed, m, w
        <5> QED  BY <5>1, <1>3, <1>f
      <4>5. /\ pc'[u] = "send" /\ call'[u] = "room" => Cardinality(Recent(p, seen[u]))' < Rps
            /\ pc'[u] = "send" => \A c \in Anchors(p)' :
                 Cardinality(Recent(p, seen[u]))' < Rps + Cardinality(RacedAfter(p, c))'
        BY <1>1, <4>1 DEF Undisturbed, Recent, Anchors, RacedAfter
      <4>6. Undisturbed(u, p)'
        BY <1>1, <1>3, <1>s, <4>2, <4>3, <4>4, <4>5 DEF Undisturbed, Dropped
      <4> QED  BY <4>0, <4>6
    <3> QED  BY <3>2, <3>3
  <2> QED  BY <1>1, <2>1, <2>2 DEF CallOf
<1> QED  BY <1>7, <1>8, <1>9 DEF LimiterInv

\* One stamp more: it was counted on by a call that is not raced, or is one of
\* the races; the calls under way on the same limiter are raced from now on.
LEMMA SendKeeps ==
  ASSUME ServiceInv, LimiterInv, NEW t \in Threads, Send(t)
  PROVE  LimiterInv'
<1>p. PICK p \in Threads : p = pipe[t]
  BY ThreadFacts DEF Send, Section
<1> DEFINE v == seen[t]  w == window[p]  s == sent[p]  n == Len(s)  m == Len(w)
           h == calls[p]
<1>1. /\ UNCHANGED <<now, pipe, seen, wakeAt>>
      /\ window' = [window EXCEPT ![p] = Append(@, v)]
      /\ sent' = [sent EXCEPT ![p] = Append(@, v)]
      /\ calls' = [calls EXCEPT ![p] = Append(@, call[t])]
      /\ call' = [u \in Threads |-> IF u # t /\ pipe[u] = p THEN "raced" ELSE call[u]]
      /\ pc' = [pc EXCEPT ![t] = "post"] /\ pc[t] = "send"
  BY <1>p DEF Send, limiter, Goto
<1>f. /\ s \in Seq(Nat) /\ w \in Seq(Nat) /\ n \in Nat /\ m \in Nat
      /\ now \in Nat /\ v \in Nat /\ h \in Seq(Courses) /\ call[t] \in Courses
      /\ Rps \in Nat \ {0} /\ Second \in Nat \ {0}
      /\ \A i \in 1 .. n : s[i] \in Nat
      /\ DOMAIN s = 1 .. n
  BY PipelineFacts, ThreadFacts
<1>i. /\ m <= n /\ \A i \in 1 .. m : w[i] = s[n - m + i]
      /\ \A i \in 1 .. n : i <= n - m => now - s[i] > Second
      /\ \A i \in 1 .. n : s[i] <= now
      /\ v <= now /\ CallOf(t) /\ RateKept(p) /\ Len(h) = n
  BY DEF LimiterInv, PipelineInv, WindowIsTheEnd, StampsPast, Dropped, CallOf
<1>2. /\ window'[p] = Append(w, v) /\ sent'[p] = Append(s, v)
      /\ calls'[p] = Append(h, call[t])
      /\ \A q \in Threads \ {p} :
           window'[q] = window[q] /\ sent'[q] = sent[q] /\ calls'[q] = calls[q]
  BY <1>1 DEF ServiceInv, ServiceTypes, TypeOK
<1>3. /\ Len(sent'[p]) = n + 1 /\ sent'[p][n + 1] = v /\ DOMAIN sent'[p] = 1 .. n + 1
      /\ \A i \in 1 .. n : sent'[p][i] = s[i]
      /\ Len(window'[p]) = m + 1 /\ window'[p][m + 1] = v
      /\ \A i \in 1 .. m : window'[p][i] = w[i]
      /\ Len(calls'[p]) = n + 1 /\ calls'[p][n + 1] = call[t]
      /\ \A i \in 1 .. n : calls'[p][i] = h[i]
  BY <1>2, <1>f, <1>i, AppendProperties
<1>u. call[t] # "raced" =>
        /\ \A i \in 1 .. n : s[i] < v
        /\ call[t] = "room" => Cardinality(Recent(p, v)) < Rps
        /\ \A c \in Anchors(p) :
             Cardinality(Recent(p, v)) < Rps + Cardinality(RacedAfter(p, c))
  BY <1>1, <1>i, <1>p DEF CallOf, Undisturbed, Section
<1>r. \A x \in Int :
        /\ Recent(p, x) = {j \in 1 .. n : x - Second < s[j] /\ s[j] <= x}
        /\ IsFiniteSet(Recent(p, x)) /\ Cardinality(Recent(p, x)) \in Nat
  BY RecentIsFinite DEF Recent
<1>k. /\ Anchors(p) = {0} \cup {c \in 1 .. n : h[c] = "room"}
      /\ \A c : /\ RacedAfter(p, c) = {k \in 1 .. n : k > c /\ h[k] = "raced"}
                /\ IsFiniteSet(RacedAfter(p, c)) /\ Cardinality(RacedAfter(p, c)) \in Nat
      /\ \A c \in Anchors(p), x \in Int :
           (c # 0 => s[c] <= x) =>
             Cardinality(Recent(p, x)) <= Rps + Cardinality(RacedAfter(p, c))
  BY <1>f, <1>i, RacedAreFinite DEF Anchors, RacedAfter, RateKept
<1> HIDE DEF s, n, m, w, v, h
<1>4. WindowIsTheEnd(p)'
  <2>1. (n + 1) - (m + 1) = n - m /\ m + 1 <= n + 1  BY <1>f, <1>i
  <2>2. \A i \in 1 .. m + 1 : window'[p][i] = sent'[p][n - m + i]
    <3> SUFFICES ASSUME NEW i \in 1 .. m + 1 PROVE window'[p][i] = sent'[p][n - m + i]
      OBVIOUS
    <3>1. CASE i \in 1 .. m
      <4>1. n - m + i \in 1 .. n  BY <3>1, <1>f, <1>i
      <4> QED  BY <3>1, <4>1, <1>3, <1>i
    <3>2. CASE i = m + 1
      <4>1. n - m + i = n + 1  BY <3>2, <1>f
      <4> QED  BY <3>2, <4>1, <1>3
    <3> QED  BY <3>1, <3>2, <1>f
  <2>3. \A i \in 1 .. n + 1 : i <= n - m => now - sent'[p][i] > Second
    <3> SUFFICES ASSUME NEW i \in 1 .. n + 1, i <= n - m PROVE now - sent'[p][i] > Second
      OBVIOUS
    <3>1. i \in 1 .. n  BY <1>f
    <3> QED  BY <3>1, <1>3, <1>i
  <2>4. Dropped(p)' = n - m  BY <1>3, <2>1 DEF Dropped
  <2> QED  BY <1>1, <1>3, <2>1, <2>2, <2>3, <2>4 DEF WindowIsTheEnd
<1>5. StampsPast(p)'
  <2> SUFFICES ASSUME NEW i \in 1 .. n + 1 PROVE sent'[p][i] <= now
    BY <1>1, <1>3 DEF StampsPast
  <2>1. i \in 1 .. n \/ i = n + 1  BY <1>f
  <2> QED  BY <2>1, <1>3, <1>i
<1>6. RateKept(p)'
  <2> SUFFICES ASSUME NEW c \in Anchors(p)', NEW x \in Int, c # 0 => sent'[p][c] <= x
               PROVE  Cardinality(Recent(p, x)') <= Rps + Cardinality(RacedAfter(p, c)')
    BY DEF RateKept
  <2> DEFINE A == Recent(p, x)  B == Recent(p, x)'  V == Recent(p, v)
             R == RacedAfter(p, c)  Q == RacedAfter(p, c)'
  <2>1. /\ B = {j \in 1 .. n + 1 : x - Second < sent'[p][j] /\ sent'[p][j] <= x}
        /\ Q = {k \in 1 .. n + 1 : k > c /\ calls'[p][k] = "raced"}
        /\ c = 0 \/ (c \in 1 .. n + 1 /\ calls'[p][c] = "room")
    BY <1>3 DEF Recent, RacedAfter, Anchors
  <2>2. /\ A = {j \in 1 .. n : x - Second < s[j] /\ s[j] <= x}
        /\ R = {k \in 1 .. n : k > c /\ h[k] = "raced"}
        /\ V = {j \in 1 .. n : v - Second < s[j] /\ s[j] <= v}
        /\ IsFiniteSet(A) /\ Cardinality(A) \in Nat
        /\ IsFiniteSet(V) /\ Cardinality(V) \in Nat
        /\ IsFiniteSet(R) /\ Cardinality(R) \in Nat
    <3>1. v \in Int  BY <1>f
    <3> QED  BY <3>1, <1>r, <1>k
  <2>3. c \in 1 .. n \/ c = 0 =>
          c \in Anchors(p) /\ Cardinality(A) <= Rps + Cardinality(R)
    <3> SUFFICES ASSUME c \in 1 .. n \/ c = 0
                 PROVE  c \in Anchors(p) /\ (c # 0 => s[c] <= x)
      BY <1>k
    <3> QED  BY <2>1, <1>3, <1>k
  <2> HIDE DEF A, B, V, R, Q
  <2>4. B \subseteq A \cup {n + 1}
    <3> SUFFICES ASSUME NEW j \in B, j # n + 1 PROVE j \in A  OBVIOUS
    <3>1. j \in 1 .. n /\ x - Second < sent'[p][j] /\ sent'[p][j] <= x  BY <2>1, <1>f
    <3> QED  BY <3>1, <2>2, <1>3
  <2>5. ASSUME NEW S, IsFiniteSet(S), Cardinality(S) \in Nat, B \subseteq S \cup {n + 1},
               n + 1 \notin S
        PROVE  /\ Cardinality(B) \in Nat /\ Cardinality(B) <= Cardinality(S) + 1
               /\ n + 1 \notin B => Cardinality(B) <= Cardinality(S)
    <3>1. IsFiniteSet(S \cup {n + 1}) /\ Cardinality(S \cup {n + 1}) = Cardinality(S) + 1
      BY <2>5, FS_AddElement
    <3>2. IsFiniteSet(B) /\ Cardinality(B) <= Cardinality(S \cup {n + 1})
      BY <2>5, <3>1, FS_Subset
    <3>3. Cardinality(B) \in Nat  BY <3>2, FS_CardinalityType
    <3>4. n + 1 \notin B => Cardinality(B) <= Cardinality(S)
      <4> SUFFICES ASSUME n + 1 \notin B PROVE Cardinality(B) <= Cardinality(S)  OBVIOUS
      <4>1. B \subseteq S  BY <2>5
      <4> QED  BY <2>5, <4>1, FS_Subset
    <3> QED  BY <3>1, <3>2, <3>3, <3>4
  <2>6. n + 1 \notin A /\ n + 1 \notin V /\ n + 1 \notin R  BY <2>2, <1>f
  <2>7. /\ Cardinality(B) \in Nat /\ Cardinality(B) <= Cardinality(A) + 1
        /\ n + 1 \notin B => Cardinality(B) <= Cardinality(A)
    BY <2>2, <2>4, <2>5, <2>6
  <2>8. Cardinality(Q) \in Nat
    <3>1. Q \subseteq R \cup {n + 1}
      <4> SUFFICES ASSUME NEW k \in Q, k # n + 1 PROVE k \in R  OBVIOUS
      <4>1. k \in 1 .. n /\ k > c /\ calls'[p][k] = "raced"  BY <2>1, <1>f
      <4> QED  BY <4>1, <2>2, <1>3
    <3>2. IsFiniteSet(R \cup {n + 1})  BY <2>2, FS_AddElement
    <3>3. IsFiniteSet(Q)  BY <3>1, <3>2, FS_Subset
    <3> QED  BY <3>3, FS_CardinalityType
  <2>9. ASSUME call[t] # "raced", v <= x \/ n + 1 \in B
        PROVE  A \subseteq V
    <3> SUFFICES ASSUME NEW j \in A PROVE j \in V  OBVIOUS
    <3>1. j \in 1 .. n /\ x - Second < s[j] /\ s[j] \in Nat  BY <2>2, <1>f
    <3>2. s[j] < v  BY <3>1, <2>9, <1>u
    <3>3. v <= x  BY <2>1, <2>9, <1>3
    <3>4. v - Second < s[j]  BY <3>1, <3>3, <1>f
    <3>5. s[j] <= v  BY <3>1, <3>2, <1>f
    <3> QED  BY <3>1, <3>4, <3>5, <2>2
  <2>10. CASE c = n + 1
    <3>1. call[t] = "room" /\ v <= x  BY <2>1, <2>10, <1>3, <1>f
    <3>2. Cardinality(V) < Rps  BY <3>1, <1>u DEF V
    <3>3. Cardinality(A) <= Cardinality(V)  BY <3>1, <2>9, <2>2, FS_Subset
    <3> QED  BY <3>2, <3>3, <2>2, <2>7, <2>8, <1>f DEF B, Q
  <2>11. CASE (c \in 1 .. n \/ c = 0) /\ call[t] = "raced"
    <3>1. c < n + 1 /\ n + 1 \in 1 .. n + 1  BY <2>11, <1>f
    <3>2. Q = R \cup {n + 1}
      <4>1. n + 1 \in Q  BY <3>1, <2>1, <2>11, <1>3
      <4>2. \A k \in 1 .. n : k \in Q <=> k \in R
        <5> SUFFICES ASSUME NEW k \in 1 .. n PROVE k \in Q <=> k \in R  OBVIOUS
        <5>1. k \in 1 .. n + 1 /\ calls'[p][k] = h[k]  BY <1>3, <1>f
        <5> QED  BY <5>1, <2>1, <2>2
      <4>3. Q \subseteq 1 .. n + 1 /\ R \subseteq 1 .. n  BY <2>1, <2>2
      <4>4. \A k \in 1 .. n + 1 : k \in 1 .. n \/ k = n + 1  BY <1>f
      <4> QED  BY <4>1, <4>2, <4>3, <4>4
    <3>3. Cardinality(Q) = Cardinality(R) + 1  BY <3>2, <2>2, <2>6, FS_AddElement
    <3> QED  BY <3>3, <2>2, <2>3, <2>7, <2>11, <1>f DEF B, Q
  <2>12. CASE (c \in 1 .. n \/ c = 0) /\ call[t] # "raced"
    <3>1. Q = R
      <4>1. \A k \in 1 .. n : k \in Q <=> k \in R
        <5> SUFFICES ASSUME NEW k \in 1 .. n PROVE k \in Q <=> k \in R  OBVIOUS
        <5>1. k \in 1 .. n + 1 /\ calls'[p][k] = h[k]  BY <1>3, <1>f
        <5> QED  BY <5>1, <2>1, <2>2
      <4>2. n + 1 \notin Q  BY <2>1, <2>12, <1>3
      <4>3. Q \subseteq 1 .. n + 1 /\ R \subseteq 1 .. n  BY <2>1, <2>2
      <4>4. \A k \in 1 .. n + 1 : k \in 1 .. n \/ k = n + 1  BY <1>f
      <4> QED  BY <4>1, <4>2, <4>3, <4>4
    <3>2. CASE n + 1 \notin B
      BY <3>1, <3>2, <2>2, <2>3, <2>7, <2>12, <1>f DEF B, Q
    <3>3. CASE n + 1 \in B
      <4>1. Cardinality(A) <= Cardinality(V)  BY <3>3, <2>9, <2>12, <2>2, FS_Subset
      <4>2. Cardinality(V) < Rps + Cardinality(R)  BY <2>3, <2>12, <1>u DEF V, R
      <4> QED  BY <3>1, <4>1, <4>2, <2>2, <2>7, <1>f DEF B, Q
    <3> QED  BY <3>2, <3>3
  <2>13. c \in 1 .. n \/ c = 0 \/ c = n + 1  BY <2>1, <1>f
  <2> QED  BY <2>10, <2>11, <2>12, <2>13
<1>7. PipelineInv(p)'  BY <1>3, <1>4, <1>5, <1>6 DEF PipelineInv
<1>8. ASSUME NEW q \in Threads \ {p} PROVE PipelineInv(q)'
  <2>1. PipelineInv(q)  BY DEF LimiterInv
  <2>2. window'[q] = window[q] /\ sent'[q] = sent[q] /\ calls'[q] = calls[q]  BY <1>2
  <2> QED
    BY <1>1, <2>1, <2>2, ZenonT(30)
    DEF PipelineInv, WindowIsTheEnd, StampsPast, RateKept, Recent, Dropped, Anchors, RacedAfter
<1>9. ASSUME NEW u \in Threads PROVE CallOf(u)'
  <2>1. CallOf(u) /\ seen'[u] = seen[u] /\ now' = now  BY <1>1 DEF LimiterInv
  <2>2. ASSUME pc'[u] \in Section, call'[u] # "raced" PROVE Undisturbed(u, pipe[u])'
    <3>1. pc \in [Threads -> Pcs]  BY DEF ServiceInv, ServiceTypes, TypeOK
    <3>2. u # t /\ pc'[u] = pc[u]  BY <1>1, <2>2, <3>1 DEF Section
    <3>3. call'[u] = call[u] /\ pipe[u] # p  BY <1>1, <2>2, <3>2
    <3>4. Undisturbed(u, pipe[u]) /\ pipe[u] \in Threads
      BY <2>1, <2>2, <3>2, <3>3, ThreadFacts DEF CallOf
    <3>5. /\ window'[pipe[u]] = window[pipe[u]] /\ sent'[pipe[u]] = sent[pipe[u]]
          /\ calls'[pipe[u]] = calls[pipe[u]]
      BY <1>2, <3>3, <3>4
    <3> QED
      BY <1>1, <3>2, <3>3, <3>4, <3>5 DEF Undisturbed, Dropped, Recent, Anchors, RacedAfter
  <2> QED  BY <1>1, <2>1, <2>2 DEF CallOf
<1> QED  BY <1>7, <1>8, <1>9 DEF LimiterInv

\* wait() keeps its window and its rate, for any number of threads that share
\* it, whatever the rate, the second and the number of requests.
THEOREM LimiterInvariance == Spec => []LimiterInv
<1>1. ServiceInv /\ LimiterInv /\ [Next]_vars => LimiterInv'
  <2> SUFFICES ASSUME ServiceInv, LimiterInv, [Next]_vars PROVE LimiterInv'  OBVIOUS
  <2>1. CASE UNCHANGED vars
    <3>1. UNCHANGED <<now, sent, call, calls, window, pc, pipe, seen, wakeAt>>
      BY <2>1 DEF vars, clockVars, history, shared, handler, limiter
    <3> QED  BY <3>1, SamePipeline, SameCall DEF LimiterInv
  <2>2. CASE Tick  BY <2>2, ClockKeeps
  <2>3. ASSUME NEW t \in Threads, Accept(t) \/ ThreadStep(t) PROVE LimiterInv'
    BY <2>3, RequestKeeps, WaitKeeps, PopKeeps, SendKeeps DEF ThreadStep
  <2> QED  BY <2>1, <2>2, <2>3 DEF Next
<1> QED  BY <1>1, LimiterStart, ServiceInvariance, PTL DEF Spec

\* Racing threads exceed the rate by at most one RPC for each raced call of
\* wait() since a call last found room: sleeping until the oldest call is a
\* second old is enough for one that is not raced, although the window is not
\* pruned again and another thread may prune it meanwhile.
THEOREM RacesBoundTheExcess == Spec => []RacesCostOneEach
<1>1. ServiceInv /\ LimiterInv => RacesCostOneEach
  <2> SUFFICES ASSUME ServiceInv, LimiterInv, NEW p \in Threads, NEW i \in DOMAIN sent[p],
                      NEW c \in Anchors(p), c # 0 => sent[p][c] <= sent[p][i]
               PROVE  Cardinality(Burst(p, i)) <= Rps + Cardinality(RacedAfter(p, c))
    BY DEF RacesCostOneEach
  <2> DEFINE s == sent[p]  n == Len(s)
  <2>f. /\ s \in Seq(Nat) /\ n \in Nat /\ Second \in Nat
        /\ \A j \in 1 .. n : s[j] \in Nat
        /\ DOMAIN s = 1 .. n
    BY PipelineFacts
  <2>2. /\ Burst(p, i) = {j \in 1 .. n : s[j] \in (s[i] - Second + 1) .. s[i]}
        /\ Recent(p, s[i]) = {j \in 1 .. n : s[i] - Second < s[j] /\ s[j] <= s[i]}
        /\ i \in 1 .. n
    BY <2>f DEF Burst, Recent
  <2>3. RateKept(p) /\ (c # 0 => sent[p][c] <= s[i])  BY DEF LimiterInv, PipelineInv
  <2> HIDE DEF s, n
  <2>4. s[i] \in Int  BY <2>2, <2>f
  <2>5. Burst(p, i) = Recent(p, s[i])  BY <2>2, <2>4, <2>f
  <2> QED  BY <2>3, <2>4, <2>5 DEF RateKept
<1> QED  BY <1>1, ServiceInvariance, LimiterInvariance, PTL

----------------------------------------------------------------------------
(* Training: what the files, the pending writes and the models hold.       *)

Tiers == SybilTiers \cup GenuineTiers
Claims == UNION Listings

\* A row whose class is that of its lists, and a row that may be held out.
ClassHolds(r) ==
  /\ r.label = "sybil" => r.tier \in r.sources \cap SybilTiers
  /\ (r.sources \cap SybilTiers # {} /\ r.sources \cap GenuineTiers # {}) =>
       r.label = "genuine" /\ r.tier = "G1" /\ r.sources \cap {"T4", "T5"} # {}

CuratedRows ==
  {r \in [address : {c.address : c \in Claims}, chain : {c.chain : c \in Claims},
          label : {"sybil", "genuine"}, tier : Tiers, sources : SUBSET Tiers] :
     ClassHolds(r)}
HeldRows ==
  {r \in CuratedRows : r.label = "sybil" => r.sources \cap {"T1", "T2"} # {}}

ModelsOfRows ==
  [on : SUBSET CuratedRows, measuredOn : SUBSET HeldRows, blind : BOOLEAN, recall : BOOLEAN]

\* What each file may hold, read or yet to be written.
ContentOf(f) ==
  {Missing, Torn} \cup
    (IF f = "current" THEN ModelsOfRows
     ELSE IF f \in {"holdout", "holdF"} THEN SUBSET HeldRows ELSE SUBSET CuratedRows)

Writes == UNION {[to : {f}, content : ContentOf(f)] : f \in FileNames}

TrainingTypes ==
  /\ claims \in Listings
  /\ DOMAIN files = FileNames /\ \A f \in FileNames : files[f] \in ContentOf(f)
  /\ writes \in Seq(Writes)
  /\ served \in ModelsOfRows \cup {NoModel}

\* What a file will hold when the script that is running has ended: what is
\* yet to be written to it, or what it holds already.
Coming(f) ==
  {writes[i].content : i \in {j \in DOMAIN writes : writes[j].to = f}}
    \cup {c \in {files[f]} : \A i \in DOMAIN writes : writes[i].to # f}

Keys(rs) == {KeyOf(r) : r \in rs}

PairApart(x, y) ==
  x \notin {Missing, Torn} /\ y \notin {Missing, Torn} => Keys(x) \cap Keys(y) = {}

ModelApart(m) ==
  m \notin {Missing, Torn, NoModel} => Keys(m.on) \cap Keys(m.measuredOn) = {}

\* While no script was cut short, each pair of files is apart once it is
\* written, and so is every model; between two writes the pair on disk is of
\* two splits.
FilesApart ==
  faultless =>
    /\ \A x \in Coming("train"), y \in Coming("holdout") : PairApart(x, y)
    /\ \A x \in Coming("trainF"), y \in Coming("holdF") : PairApart(x, y)
    /\ \A m \in Coming("current") \cup {files["current"], served} : ModelApart(m)

TrainingInv == TrainingTypes /\ FilesApart

\* _best_tier() finds the strongest of the tiers that name a key.
LEMMA BestTierNames ==
  ASSUME NEW tiers \in SUBSET Tiers
  PROVE  /\ tiers \cap SybilTiers # {} => BestTier(tiers, Strength) \in tiers \cap SybilTiers
         /\ tiers \cap GenuineTiers # {} =>
              BestTier(tiers, GenuineStrength) \in tiers \cap GenuineTiers
         /\ "G1" \in tiers => BestTier(tiers, GenuineStrength) = "G1"
<1> DEFINE First(order, i) ==
             order[i] \in tiers /\ \A j \in 1..(i-1) : order[j] \notin tiers
<1>0. /\ DOMAIN Strength = 1..5 /\ DOMAIN GenuineStrength = 1..2
      /\ Strength[1] = "T1" /\ Strength[2] = "T2" /\ Strength[3] = "T3"
      /\ Strength[4] = "T5" /\ Strength[5] = "T4"
      /\ GenuineStrength[1] = "G1" /\ GenuineStrength[2] = "G2"
  BY DEF Strength, GenuineStrength
<1>1. ASSUME tiers \cap SybilTiers # {}
      PROVE  BestTier(tiers, Strength) \in tiers \cap SybilTiers
  <2>1. \E i \in 1..5 : First(Strength, i)
    <3>1. CASE "T1" \in tiers
      <4>1. First(Strength, 1)  BY <1>0, <3>1
      <4> QED  BY <4>1
    <3>2. CASE "T1" \notin tiers /\ "T2" \in tiers
      <4>1. First(Strength, 2)  BY <1>0, <3>2
      <4> QED  BY <4>1
    <3>3. CASE tiers \cap {"T1", "T2"} = {} /\ "T3" \in tiers
      <4>1. First(Strength, 3)  BY <1>0, <3>3
      <4> QED  BY <4>1
    <3>4. CASE tiers \cap {"T1", "T2", "T3"} = {} /\ "T5" \in tiers
      <4>1. First(Strength, 4)  BY <1>0, <3>4
      <4> QED  BY <4>1
    <3>5. CASE tiers \cap {"T1", "T2", "T3", "T5"} = {} /\ "T4" \in tiers
      <4>1. First(Strength, 5)  BY <1>0, <3>5
      <4> QED  BY <4>1
    <3> QED  BY <1>1, <3>1, <3>2, <3>3, <3>4, <3>5 DEF SybilTiers
  <2> DEFINE best == CHOOSE i \in DOMAIN Strength : First(Strength, i)
  <2>2. best \in 1..5 /\ First(Strength, best)  BY <2>1, <1>0
  <2>3. BestTier(tiers, Strength) = Strength[best]  BY DEF BestTier
  <2> HIDE DEF best
  <2>4. Strength[best] \in SybilTiers  BY <2>2, <1>0 DEF SybilTiers
  <2> QED  BY <2>2, <2>3, <2>4
<1>2. ASSUME tiers \cap GenuineTiers # {}
      PROVE  /\ BestTier(tiers, GenuineStrength) \in tiers \cap GenuineTiers
             /\ "G1" \in tiers => BestTier(tiers, GenuineStrength) = "G1"
  <2>1. \E i \in 1..2 : First(GenuineStrength, i)
    <3>1. CASE "G1" \in tiers
      <4>1. First(GenuineStrength, 1)  BY <1>0, <3>1
      <4> QED  BY <4>1
    <3>2. CASE "G1" \notin tiers /\ "G2" \in tiers
      <4>1. First(GenuineStrength, 2)  BY <1>0, <3>2
      <4> QED  BY <4>1
    <3> QED  BY <1>2, <3>1, <3>2 DEF GenuineTiers
  <2> DEFINE best == CHOOSE i \in DOMAIN GenuineStrength : First(GenuineStrength, i)
  <2>2. best \in 1..2 /\ First(GenuineStrength, best)  BY <2>1, <1>0
  <2>3. BestTier(tiers, GenuineStrength) = GenuineStrength[best]  BY DEF BestTier
  <2> HIDE DEF best
  <2>4. GenuineStrength[best] \in GenuineTiers  BY <2>2, <1>0 DEF GenuineTiers
  <2>5. "G1" \in tiers => best = 1  BY <2>2, <1>0
  <2> QED  BY <1>0, <2>2, <2>3, <2>4, <2>5
<1> QED  BY <1>1, <1>2 DEF GenuineTiers

\* _resolve(): a conflict is settled for the genuine class, by the first rule,
\* or the key is dropped.
LEMMA ResolveHolds ==
  ASSUME NEW tiers \in SUBSET Tiers, tiers # {}, Resolve(tiers) # "drop"
  PROVE  /\ Resolve(tiers) \in {"sybil", "genuine"}
         /\ Resolve(tiers) = "sybil" => tiers \cap GenuineTiers = {}
         /\ Resolve(tiers) = "genuine" => tiers \cap GenuineTiers # {}
         /\ (tiers \cap SybilTiers # {} /\ tiers \cap GenuineTiers # {}) =>
              /\ Resolve(tiers) = "genuine" /\ "G1" \in tiers
              /\ tiers \cap {"T4", "T5"} # {}
<1>0. /\ DOMAIN ConflictRules = 1..4
      /\ ConflictRules[1] = [genuine |-> {"T1", "T2", "G1"}, sybil |-> {"T4", "T5"},
                             then |-> "genuine"]
      /\ ConflictRules[2] = [genuine |-> {"T4"}, sybil |-> {"T4"}, then |-> "drop"]
      /\ ConflictRules[3] = [genuine |-> {"T4"}, sybil |-> {"T1", "T2"}, then |-> "sybil"]
      /\ ConflictRules[4] = [genuine |-> {"G1"}, sybil |-> {"T1"}, then |-> "drop"]
  BY DEF ConflictRules
<1>1. Matching(tiers) \subseteq {1, 4}
  <2> SUFFICES ASSUME NEW i \in Matching(tiers) PROVE i \in {1, 4}  OBVIOUS
  <2>1. i \in 1..4 /\ tiers \cap ConflictRules[i].genuine \cap GenuineTiers # {}
    BY <1>0 DEF Matching
  <2>2. i # 2 /\ i # 3  BY <1>0, <2>1 DEF GenuineTiers
  <2> QED  BY <2>1, <2>2
<1>2. 1 \in Matching(tiers) => "G1" \in tiers /\ tiers \cap {"T4", "T5"} # {}
  BY <1>0 DEF Matching, GenuineTiers
<1> DEFINE first == CHOOSE i \in Matching(tiers) : \A j \in Matching(tiers) : i <= j
<1>3. CASE tiers \cap GenuineTiers = {} \/ tiers \cap SybilTiers = {}
  BY <1>3 DEF Resolve, Tiers, SybilTiers, GenuineTiers
<1>4. CASE tiers \cap GenuineTiers # {} /\ tiers \cap SybilTiers # {}
  <2>1. Matching(tiers) # {} /\ Resolve(tiers) = ConflictRules[first].then
    BY <1>4 DEF Resolve
  <2>2. \E i \in Matching(tiers) : \A j \in Matching(tiers) : i <= j
    <3>1. CASE 1 \in Matching(tiers)  BY <1>1, <3>1
    <3>2. CASE Matching(tiers) = {4}  BY <3>2
    <3> QED  BY <1>1, <2>1, <3>1, <3>2
  <2>3. first \in Matching(tiers)  BY <2>2
  <2> HIDE DEF first
  <2>4. first = 1  BY <1>0, <1>1, <2>1, <2>3
  <2>5. Resolve(tiers) = "genuine"  BY <1>0, <2>1, <2>4
  <2> QED  BY <1>2, <1>4, <2>3, <2>4, <2>5
<1> QED  BY <1>3, <1>4

\* curate.py writes only rows whose class is that of the lists.
LEMMA CuratedHold ==
  ASSUME NEW listed \in Listings
  PROVE  Curated(listed) \subseteq CuratedRows
<1> DEFINE TiersOf(k) == {c.tier : c \in {d \in listed : KeyOf(d) = k}}
           Row(k) == [address |-> k[1], chain |-> k[2], label |-> Resolve(TiersOf(k)),
                      tier |-> IF Resolve(TiersOf(k)) = "sybil"
                                 THEN BestTier(TiersOf(k), Strength)
                                 ELSE BestTier(TiersOf(k), GenuineStrength),
                      sources |-> TiersOf(k)]
<1>1. Curated(listed) = {Row(k) : k \in {l \in {KeyOf(c) : c \in listed} :
                                           Resolve(TiersOf(l)) # "drop"}}
  BY DEF Curated
<1> HIDE DEF Row, TiersOf
<1>2. SUFFICES ASSUME NEW c \in listed, Resolve(TiersOf(KeyOf(c))) # "drop"
               PROVE  Row(KeyOf(c)) \in CuratedRows
  BY <1>1
<1> DEFINE k == KeyOf(c)  tiers == TiersOf(k)
<1>3. k[1] = c.address /\ k[2] = c.chain /\ c \in Claims  BY DEF KeyOf, Claims
<1>4. tiers \in SUBSET Tiers /\ tiers # {}  BY TrainingAssumption DEF Tiers, TiersOf
<1>r. Resolve(tiers) # "drop"  BY <1>2
<1>5. Row(k) = [address |-> c.address, chain |-> c.chain, label |-> Resolve(tiers),
                tier |-> IF Resolve(tiers) = "sybil" THEN BestTier(tiers, Strength)
                                                     ELSE BestTier(tiers, GenuineStrength),
                sources |-> tiers]
  BY <1>3 DEF Row
<1> HIDE DEF k, tiers
<1>6. PICK label, tier : label = Resolve(tiers) /\ tier = Row(k).tier  OBVIOUS
<1>7. Row(k) = [address |-> c.address, chain |-> c.chain, label |-> label, tier |-> tier,
                sources |-> tiers]
  BY <1>5, <1>6
<1>8. /\ label \in {"sybil", "genuine"}
      /\ label = "sybil" => tier \in tiers \cap SybilTiers
      /\ label = "genuine" => tier \in tiers \cap GenuineTiers
      /\ (tiers \cap SybilTiers # {} /\ tiers \cap GenuineTiers # {}) =>
           label = "genuine" /\ tier = "G1" /\ tiers \cap {"T4", "T5"} # {}
  <2>1. tier = IF label = "sybil" THEN BestTier(tiers, Strength)
                                  ELSE BestTier(tiers, GenuineStrength)
    BY <1>5, <1>6
  <2>2. /\ label \in {"sybil", "genuine"}
        /\ label = "sybil" => tiers \cap GenuineTiers = {}
        /\ label = "genuine" => tiers \cap GenuineTiers # {}
        /\ (tiers \cap SybilTiers # {} /\ tiers \cap GenuineTiers # {}) =>
             label = "genuine" /\ "G1" \in tiers /\ tiers \cap {"T4", "T5"} # {}
    BY <1>4, <1>6, <1>r, ResolveHolds
  <2>3. label = "sybil" => tiers \cap SybilTiers # {}  BY <2>2, <1>4 DEF Tiers
  <2> QED  BY <1>4, <2>1, <2>2, <2>3, BestTierNames
<1>9. tier \in Tiers  BY <1>8, <1>4
<1>10. ClassHolds(Row(k))  BY <1>7, <1>8 DEF ClassHolds
<1>11. /\ c.address \in {d.address : d \in Claims} /\ c.chain \in {d.chain : d \in Claims}
       /\ label \in {"sybil", "genuine"}
  BY <1>3, <1>8
<1> QED  BY <1>4, <1>7, <1>9, <1>10, <1>11 DEF CuratedRows, k

----------------------------------------------------------------------------
(* Training: every script keeps the types and the pairs apart.             *)

\* What a script may begin to write, when nothing is being written.
LEMMA PendingWrites ==
  ASSUME NEW f \in FileNames, NEW c \in ContentOf(f)
  PROVE  To(f, c) \in Writes /\ To(f, c).to = f /\ To(f, c).content = c
  BY DEF To, Writes

LEMMA RowFilesHold ==
  ASSUME TrainingTypes, NEW f \in FileNames \ {"current"}, Readable(f)
  PROVE  /\ files[f] \in SUBSET CuratedRows
         /\ f \in {"holdout", "holdF"} => files[f] \in SUBSET HeldRows
<1>1. files[f] \in ContentOf(f) /\ files[f] \notin {Missing, Torn}
  BY DEF TrainingTypes, Readable
<1>2. HeldRows \subseteq CuratedRows  BY DEF HeldRows
<1> QED  BY <1>1, <1>2 DEF ContentOf

LEMMA ContentKinds ==
  /\ \A f \in {"curated", "train", "trainF"} : SUBSET CuratedRows \subseteq ContentOf(f)
  /\ \A f \in {"holdout", "holdF"} : SUBSET HeldRows \subseteq ContentOf(f)
  /\ ModelsOfRows \cup {Missing, Torn} \subseteq ContentOf("current")
  /\ {"curated", "train", "trainF", "holdout", "holdF", "current"} = FileNames
  BY DEF ContentOf, FileNames

\* A script begins: what it will write has the right types, and what it is
\* going to leave behind is apart.
LEMMA BeginKeeps ==
  ASSUME TrainingInv, NEW reads, NEW toWrite \in Seq(Writes), Begin(reads, toWrite),
         faultless => \A x, y, m :
           /\ x \in Coming("train")' /\ y \in Coming("holdout")' => PairApart(x, y)
           /\ x \in Coming("trainF")' /\ y \in Coming("holdF")' => PairApart(x, y)
           /\ m \in Coming("current")' => ModelApart(m)
  PROVE  TrainingInv'
<1>1. UNCHANGED <<claims, files, served, faultless>> /\ writes' = toWrite  BY DEF Begin
<1>2. TrainingTypes'  BY <1>1 DEF TrainingInv, TrainingTypes, ContentOf, Writes, ModelsOfRows
<1>3. FilesApart'
  <2> SUFFICES ASSUME faultless'
      PROVE /\ \A x \in Coming("train")', y \in Coming("holdout")' : PairApart(x, y)
            /\ \A x \in Coming("trainF")', y \in Coming("holdF")' : PairApart(x, y)
            /\ \A m \in Coming("current")' \cup {files'["current"], served'} : ModelApart(m)
    BY DEF FilesApart, PairApart, ModelApart
  <2>1. \A m \in {files'["current"], served'} : ModelApart(m)
    BY <1>1 DEF TrainingInv, FilesApart
  <2> QED  BY <1>1, <2>1
<1> QED  BY <1>2, <1>3 DEF TrainingInv

\* While nothing is being written, what is to come is what is there.
LEMMA NothingPending ==
  ASSUME writes = << >>, NEW f
  PROVE  Coming(f) = {files[f]}
  BY DEF Coming

Listed(ws) == {ws[i] : i \in 1 .. Len(ws)}

\* What comes of a file is what the script will write to it, if anything.
LEMMA ComingOf ==
  ASSUME NEW reads, NEW toWrite \in Seq(Writes), Begin(reads, toWrite)
  PROVE  \A f, c : c \in Coming(f)' =>
           \/ \E w \in Listed(toWrite) : w.to = f /\ w.content = c
           \/ (\A w \in Listed(toWrite) : w.to # f) /\ c = files[f]
<1> SUFFICES ASSUME NEW f, NEW c \in Coming(f)'
             PROVE  \/ \E w \in Listed(toWrite) : w.to = f /\ w.content = c
                    \/ (\A w \in Listed(toWrite) : w.to # f) /\ c = files[f]
  OBVIOUS
<1>1. writes' = toWrite /\ files' = files  BY DEF Begin
<1>2. DOMAIN toWrite = 1 .. Len(toWrite)  BY LenProperties
<1>3. \/ \E i \in 1 .. Len(toWrite) : toWrite[i].to = f /\ toWrite[i].content = c
      \/ (\A i \in 1 .. Len(toWrite) : toWrite[i].to # f) /\ c = files[f]
  BY <1>1, <1>2 DEF Coming
<1> QED  BY <1>3 DEF Listed

LEMMA TwoWrites ==
  ASSUME NEW w, NEW v
  PROVE  {w, v} = Listed(<<w, v>>)
<1>1. Len(<<w, v>>) = 2 /\ <<w, v>>[1] = w /\ <<w, v>>[2] = v  OBVIOUS
<1>2. \A i \in 1 .. 2 : i = 1 \/ i = 2  OBVIOUS
<1>3. 1 \in 1 .. 2 /\ 2 \in 1 .. 2  OBVIOUS
<1>4. \A x \in {<<w, v>>[i] : i \in 1 .. 2} : x \in {w, v}  BY <1>1, <1>2
<1>5. w \in {<<w, v>>[i] : i \in 1 .. 2} /\ v \in {<<w, v>>[i] : i \in 1 .. 2}
  BY <1>1, <1>3
<1> QED  BY <1>1, <1>4, <1>5 DEF Listed

LEMMA CurateKeeps ==
  ASSUME TrainingInv, Curate
  PROVE  TrainingInv'
<1>0. PICK w : w = To("curated", Curated(claims))  OBVIOUS
<1>1. writes = << >> /\ Begin({}, <<w>>)  BY <1>0 DEF Curate, Begin
<1>2. Curated(claims) \in SUBSET CuratedRows
  BY CuratedHold DEF TrainingInv, TrainingTypes
<1>3. w \in Writes /\ w.to = "curated"  BY <1>0, <1>2, ContentKinds, PendingWrites
<1>7. <<w>> \in Seq(Writes) /\ {w} = Listed(<<w>>)
  BY <1>3 DEF Listed
<1>8. PICK ws : ws = <<w>>  OBVIOUS
<1>4. ws \in Seq(Writes) /\ {w} = Listed(ws) /\ Begin({}, ws)  BY <1>1, <1>7, <1>8
<1>5. \A f \in FileNames : f # "curated" => \A c \in Coming(f)' : c = files[f]
  <2> SUFFICES ASSUME NEW f \in FileNames, f # "curated", NEW c \in Coming(f)'
               PROVE  c = files[f]
    OBVIOUS
  <2>1. \/ \E x \in {w} : x.to = f /\ x.content = c
        \/ (\A x \in {w} : x.to # f) /\ c = files[f]
    BY <1>1, <1>4, ComingOf
  <2> QED  BY <2>1, <1>3
<1>6. \A f \in FileNames : Coming(f) = {files[f]}  BY <1>1, NothingPending
<1> QED  BY <1>1, <1>4, <1>5, <1>6, ContentKinds, BeginKeeps DEF TrainingInv, FilesApart

LEMMA SplitKeeps ==
  ASSUME TrainingInv, SplitHoldout
  PROVE  TrainingInv'
<1> DEFINE rs == files["curated"]
<1>1. PICK s \in Samples(Pool(rs, "sybil"), HoldoutSize),
           g \in Samples(Pool(rs, "genuine"), HoldoutSize) :
        Begin({"curated"}, <<To("holdout", s \cup g), To("train", Rest(rs, s \cup g))>>)
  BY DEF SplitHoldout
<1>0. PICK h, rest, w, v : /\ h = s \cup g /\ rest = Rest(rs, h)
                           /\ w = To("holdout", h) /\ v = To("train", rest)
  OBVIOUS
<1>2. Begin({"curated"}, <<w, v>>)  BY <1>0, <1>1
<1>e. writes = << >>  BY <1>2 DEF Begin
<1>3. rs \subseteq CuratedRows
  BY RowFilesHold, ContentKinds DEF SplitHoldout, TrainingInv
<1>4. s \subseteq Pool(rs, "sybil") /\ g \subseteq Pool(rs, "genuine")  BY DEF Samples
<1>5. h \in SUBSET HeldRows
  <2> SUFFICES ASSUME NEW r \in h PROVE r \in HeldRows  OBVIOUS
  <2>1. r \in rs /\ r.tier \in {"T1", "T2", "G1", "G2"}  BY <1>0, <1>4 DEF Pool, Labelled
  <2>2. r \in CuratedRows /\ ClassHolds(r)  BY <1>3, <2>1 DEF CuratedRows
  <2>3. r.label = "sybil" => r.tier \in r.sources \cap {"T1", "T2"}
    BY <2>1, <2>2 DEF ClassHolds, SybilTiers
  <2> QED  BY <2>2, <2>3 DEF HeldRows
<1>6. rest \in SUBSET CuratedRows  BY <1>0, <1>3 DEF Rest
<1>7. Keys(rest) \cap Keys(h) = {}  BY <1>0 DEF Keys, Rest
<1>8. /\ w \in Writes /\ w.to = "holdout" /\ w.content = h
      /\ v \in Writes /\ v.to = "train" /\ v.content = rest
  BY <1>0, <1>5, <1>6, ContentKinds, PendingWrites
<1>9. PairApart(rest, h)  BY <1>7 DEF PairApart
<1> HIDE DEF rs
<1>a. <<w, v>> \in Seq(Writes) /\ {w, v} = Listed(<<w, v>>)
  BY <1>8, TwoWrites
<1>b. PICK ws : ws = <<w, v>>  OBVIOUS
<1>10. ws \in Seq(Writes) /\ {w, v} = Listed(ws) /\ Begin({"curated"}, ws)
  BY <1>2, <1>a, <1>b
<1>11. /\ \A c \in Coming("holdout")' : c = h
       /\ \A c \in Coming("train")' : c = rest
       /\ \A f \in {"trainF", "holdF", "current"} : \A c \in Coming(f)' : c = files[f]
  <2>1. \A f, c : c \in Coming(f)' =>
          \/ \E x \in {w, v} : x.to = f /\ x.content = c
          \/ (\A x \in {w, v} : x.to # f) /\ c = files[f]
    <3> SUFFICES ASSUME NEW f, NEW c \in Coming(f)'
                 PROVE  \/ \E x \in {w, v} : x.to = f /\ x.content = c
                        \/ (\A x \in {w, v} : x.to # f) /\ c = files[f]
      OBVIOUS
    <3> QED  BY <1>2, <1>10, ComingOf
  <2> QED  BY <2>1, <1>8
<1>12. \A f : Coming(f) = {files[f]}  BY <1>e, NothingPending
<1> QED
  BY <1>2, <1>9, <1>10, <1>11, <1>12, BeginKeeps DEF TrainingInv, FilesApart

LEMMA BuildKeeps ==
  ASSUME TrainingInv, BuildFeatures
  PROVE  TrainingInv'
<1>0. PICK train, held, w, v : /\ train = files["train"] /\ held = files["holdout"]
                              /\ w = To("trainF", train) /\ v = To("holdF", held)
  OBVIOUS
<1>1. PICK ws : ws = <<w, v>>  OBVIOUS
<1>2. /\ Begin({"train", "holdout"}, ws) /\ writes = << >>
      /\ Readable("train") /\ Readable("holdout")
  BY <1>0, <1>1 DEF BuildFeatures, Begin
<1>3. train \in SUBSET CuratedRows /\ held \in SUBSET HeldRows
  BY <1>0, <1>2, RowFilesHold, ContentKinds DEF TrainingInv
<1>4. /\ w \in Writes /\ w.to = "trainF" /\ w.content = train
      /\ v \in Writes /\ v.to = "holdF" /\ v.content = held
  BY <1>0, <1>3, ContentKinds, PendingWrites
<1>5. ws \in Seq(Writes) /\ {w, v} = Listed(ws)  BY <1>1, <1>4, TwoWrites
<1>6. \A f, c : c \in Coming(f)' => \/ \E x \in {w, v} : x.to = f /\ x.content = c
                                    \/ (\A x \in {w, v} : x.to # f) /\ c = files[f]
  BY <1>2, <1>5, ComingOf
<1>7. /\ \A c \in Coming("trainF")' : c = train
      /\ \A c \in Coming("holdF")' : c = held
      /\ \A f \in {"train", "holdout", "current"} : \A c \in Coming(f)' : c = files[f]
  BY <1>4, <1>6
<1>8. \A f : Coming(f) = {files[f]}  BY <1>2, NothingPending
<1>9. faultless => PairApart(train, held)  BY <1>0, <1>8 DEF TrainingInv, FilesApart
<1> QED  BY <1>2, <1>5, <1>7, <1>8, <1>9, BeginKeeps DEF TrainingInv, FilesApart

\* What a model was trained on and measured on, from two files that are apart.
LEMMA ModelHolds ==
  ASSUME NEW on \in SUBSET CuratedRows, NEW measuredOn \in SUBSET HeldRows,
         NEW blind \in BOOLEAN, NEW recall \in BOOLEAN
  PROVE  /\ Trained(on, measuredOn, blind, recall) \in ModelsOfRows
         /\ Keys(on) \cap Keys(measuredOn) = {}
              => ModelApart(Trained(on, measuredOn, blind, recall))
         /\ To("current", Torn) \in Writes
         /\ To("current", Trained(on, measuredOn, blind, recall)) \in Writes
<1>1. Trained(on, measuredOn, blind, recall) \in ModelsOfRows
  BY DEF Trained, ModelsOfRows
<1>2. Keys(on) \cap Keys(measuredOn) = {} => ModelApart(Trained(on, measuredOn, blind, recall))
  BY DEF Trained, ModelApart
<1> QED  BY <1>1, <1>2, ContentKinds, PendingWrites

LEMMA RetrainKeeps ==
  ASSUME TrainingInv, Retrain
  PROVE  TrainingInv'
<1>1. PICK blind \in BOOLEAN :
        LET train == IF blind THEN "train" ELSE "trainF"
            held  == IF blind THEN "holdout" ELSE "holdF"
        IN /\ Readable(train) /\ Readable(held)
           /\ Begin({train, held},
                    SaveModel(Trained(files[train], files[held], blind, FALSE)))
  BY DEF Retrain
<1>2. PICK train, held, on, measuredOn, model, w, v, ws :
        /\ train = IF blind THEN "train" ELSE "trainF"
        /\ held = IF blind THEN "holdout" ELSE "holdF"
        /\ on = files[train] /\ measuredOn = files[held]
        /\ model = Trained(on, measuredOn, blind, FALSE)
        /\ w = To("current", Torn) /\ v = To("current", model) /\ ws = <<w, v>>
  OBVIOUS
<1>3. Begin({train, held}, ws) /\ Readable(train) /\ Readable(held)
  BY <1>1, <1>2 DEF SaveModel
<1>4. writes = << >>  BY <1>3 DEF Begin
<1>5. /\ train \in FileNames \ {"current"} /\ held \in {"holdout", "holdF"}
      /\ held \in FileNames \ {"current"}
  BY <1>2 DEF FileNames
<1>6. on \in SUBSET CuratedRows /\ measuredOn \in SUBSET HeldRows
  BY <1>2, <1>3, <1>5, RowFilesHold DEF TrainingInv
<1>7. \A f : Coming(f) = {files[f]}  BY <1>4, NothingPending
<1>8. faultless => Keys(on) \cap Keys(measuredOn) = {}
  <2>1. faultless => PairApart(on, measuredOn)
    BY <1>2, <1>7 DEF TrainingInv, FilesApart
  <2>2. on \notin {Missing, Torn} /\ measuredOn \notin {Missing, Torn}
    BY <1>2, <1>3 DEF Readable
  <2> QED  BY <2>1, <2>2 DEF PairApart
<1>9. /\ w \in Writes /\ w.to = "current" /\ w.content = Torn
      /\ v \in Writes /\ v.to = "current" /\ v.content = model
      /\ faultless => ModelApart(model)
  <2>1. w \in Writes /\ v \in Writes /\ (faultless => ModelApart(model))
    BY <1>2, <1>6, <1>8, ModelHolds
  <2> QED  BY <1>2, <2>1 DEF To
<1>10. ws \in Seq(Writes) /\ {w, v} = Listed(ws)
  <2>1. <<w, v>> \in Seq(Writes)  BY <1>9
  <2> QED  BY <1>2, <2>1, TwoWrites
<1>11. \A f, c : c \in Coming(f)' => \/ \E x \in {w, v} : x.to = f /\ x.content = c
                                     \/ (\A x \in {w, v} : x.to # f) /\ c = files[f]
  BY <1>3, <1>10, ComingOf
<1>12. /\ \A c \in Coming("current")' : c \in {Torn, model}
       /\ \A f \in {"train", "holdout", "trainF", "holdF"} : \A c \in Coming(f)' : c = files[f]
  BY <1>9, <1>11
<1>13. ModelApart(Torn)  BY DEF ModelApart
<1> QED  BY <1>3, <1>7, <1>9, <1>10, <1>12, <1>13, BeginKeeps DEF TrainingInv, FilesApart

LEMMA FiveWrites ==
  ASSUME NEW a \in Writes, NEW b \in Writes, NEW c \in Writes, NEW d \in Writes,
         NEW e \in Writes
  PROVE  /\ <<a, b, c>> \o <<d, e>> \in Seq(Writes)
         /\ Listed(<<a, b, c>> \o <<d, e>>) = {a, b, c, d, e}
<1>1. PICK first, rest : first = <<a, b, c>> /\ rest = <<d, e>>  OBVIOUS
<1>2. first \in Seq(Writes) /\ rest \in Seq(Writes) /\ Len(first) = 3 /\ Len(rest) = 2
  BY <1>1
<1> DEFINE s == first \o rest
<1>3. /\ s \in Seq(Writes) /\ Len(s) = Len(first) + Len(rest)
      /\ \A i \in 1 .. Len(first) + Len(rest) :
           s[i] = IF i <= Len(first) THEN first[i] ELSE rest[i - Len(first)]
  BY <1>2, ConcatProperties
<1> HIDE DEF s
<1>7. /\ s \in Seq(Writes) /\ Len(s) = 5
      /\ \A i \in 1 .. 5 : s[i] = IF i <= 3 THEN first[i] ELSE rest[i - 3]
  BY <1>2, <1>3
<1>4. s[1] = a /\ s[2] = b /\ s[3] = c /\ s[4] = d /\ s[5] = e  BY <1>1, <1>7
<1>5. \A i \in 1 .. 5 : i \in {1, 2, 3, 4, 5}  OBVIOUS
<1>6. {1, 2, 3, 4, 5} \subseteq 1 .. 5  OBVIOUS
<1>8. \A x \in {s[i] : i \in 1 .. 5} : x \in {a, b, c, d, e}  BY <1>4, <1>5
<1>9. \A x \in {a, b, c, d, e} : x \in {s[i] : i \in 1 .. 5}
  <2> SUFFICES ASSUME NEW x \in {a, b, c, d, e} PROVE \E i \in 1 .. 5 : x = s[i]
    OBVIOUS
  <2> QED  BY <1>4, <1>6
<1>10. Listed(s) = {a, b, c, d, e}  BY <1>7, <1>8, <1>9 DEF Listed
<1> QED  BY <1>1, <1>7, <1>10 DEF s

LEMMA RetrainFullKeeps ==
  ASSUME TrainingInv, RetrainFull
  PROVE  TrainingInv'
<1>1. PICK sample \in BalancedSamples(files["train"]), recall \in BOOLEAN :
        Begin({"train", "holdout"},
              <<To("train", sample), To("trainF", sample), To("holdF", files["holdout"])>>
              \o SaveModel(Trained(sample, files["holdout"], FALSE, recall)))
  BY DEF RetrainFull
<1>2. PICK held, model, a, b, c, d, e, ws :
        /\ held = files["holdout"] /\ model = Trained(sample, held, FALSE, recall)
        /\ a = To("train", sample) /\ b = To("trainF", sample) /\ c = To("holdF", held)
        /\ d = To("current", Torn) /\ e = To("current", model)
        /\ ws = <<a, b, c>> \o <<d, e>>
  OBVIOUS
<1>3. /\ Begin({"train", "holdout"}, ws) /\ Readable("train") /\ Readable("holdout")
      /\ writes = << >>
  BY <1>1, <1>2 DEF SaveModel, RetrainFull, Begin
<1>4. files["train"] \in SUBSET CuratedRows /\ held \in SUBSET HeldRows
  BY <1>2, <1>3, RowFilesHold, ContentKinds DEF TrainingInv
<1>5. sample \subseteq files["train"]
  <2>1. PICK s \in SUBSET Labelled(files["train"], "sybil"),
             g \in Samples(Labelled(files["train"], "genuine"), GenuineSample) :
          sample = s \cup g
    BY DEF BalancedSamples
  <2> QED  BY <2>1 DEF Samples, Labelled
<1>6. sample \in SUBSET CuratedRows  BY <1>4, <1>5
<1>7. \A f : Coming(f) = {files[f]}  BY <1>3, NothingPending
<1>8. faultless => Keys(sample) \cap Keys(held) = {}
  <2>1. faultless => PairApart(files["train"], held)
    BY <1>2, <1>7 DEF TrainingInv, FilesApart
  <2>2. files["train"] \notin {Missing, Torn} /\ held \notin {Missing, Torn}
    BY <1>2, <1>3 DEF Readable
  <2>3. Keys(sample) \subseteq Keys(files["train"])  BY <1>5 DEF Keys
  <2> QED  BY <2>1, <2>2, <2>3 DEF PairApart
<1>9. faultless => PairApart(sample, held)  BY <1>8 DEF PairApart
<1>10. /\ a \in Writes /\ a.to = "train" /\ a.content = sample
       /\ b \in Writes /\ b.to = "trainF" /\ b.content = sample
       /\ c \in Writes /\ c.to = "holdF" /\ c.content = held
  BY <1>2, <1>4, <1>6, ContentKinds, PendingWrites
<1>11. /\ d \in Writes /\ d.to = "current" /\ d.content = Torn
       /\ e \in Writes /\ e.to = "current" /\ e.content = model
       /\ faultless => ModelApart(model)
  <2>1. d \in Writes /\ e \in Writes /\ (faultless => ModelApart(model))
    BY <1>2, <1>4, <1>6, <1>8, ModelHolds
  <2> QED  BY <1>2, <2>1 DEF To
<1>12. ws \in Seq(Writes) /\ Listed(ws) = {a, b, c, d, e}
  <2>1. /\ <<a, b, c>> \o <<d, e>> \in Seq(Writes)
        /\ Listed(<<a, b, c>> \o <<d, e>>) = {a, b, c, d, e}
    BY <1>10, <1>11, FiveWrites
  <2>2. PICK both : both = <<a, b, c>> \o <<d, e>>  OBVIOUS
  <2>3. ws = both  BY <1>2, <2>2
  <2> QED  BY <2>1, <2>2, <2>3
<1>13. \A f, x : x \in Coming(f)' =>
         \/ \E w \in {a, b, c, d, e} : w.to = f /\ w.content = x
         \/ (\A w \in {a, b, c, d, e} : w.to # f) /\ x = files[f]
  BY <1>3, <1>12, ComingOf
<1>14. /\ \A x \in Coming("train")' : x = sample
       /\ \A x \in Coming("trainF")' : x = sample
       /\ \A x \in Coming("holdF")' : x = held
       /\ \A x \in Coming("holdout")' : x = held
       /\ \A x \in Coming("current")' : x \in {Torn, model}
  <2>1. \A x \in Coming("train")' : x = sample  BY <1>10, <1>11, <1>13
  <2>2. \A x \in Coming("trainF")' : x = sample  BY <1>10, <1>11, <1>13
  <2>3. \A x \in Coming("holdF")' : x = held  BY <1>10, <1>11, <1>13
  <2>4. \A x \in Coming("holdout")' : x = held
    <3>1. \A w \in {a, b, c, d, e} : w.to # "holdout"
      <4>1. /\ a.to # "holdout" /\ b.to # "holdout" /\ c.to # "holdout"
            /\ d.to # "holdout" /\ e.to # "holdout"
        BY <1>10, <1>11
      <4> QED  BY <4>1
    <3>2. \A x \in Coming("holdout")' : x = files["holdout"]  BY <1>13, <3>1
    <3> QED  BY <1>2, <3>2
  <2>5. \A x \in Coming("current")' : x \in {Torn, model}  BY <1>10, <1>11, <1>13
  <2> QED  BY <2>1, <2>2, <2>3, <2>4, <2>5
<1>15. ModelApart(Torn)  BY DEF ModelApart
<1> QED  BY <1>3, <1>9, <1>11, <1>12, <1>14, <1>15, BeginKeeps

\* The next file is written: nothing else is to come than before.
LEMMA WriteKeeps ==
  ASSUME TrainingInv, WriteNext
  PROVE  TrainingInv'
<1> DEFINE w == Head(writes)
<1>0. writes \in Seq(Writes) /\ writes # << >> /\ TrainingTypes
  BY DEF TrainingInv, TrainingTypes, WriteNext
<1>1. /\ w \in Writes /\ writes' \in Seq(Writes) /\ writes' = Tail(writes)
      /\ Len(writes') = Len(writes) - 1 /\ Len(writes) \in Nat \ {0} /\ w = writes[1]
      /\ \A i \in 1 .. Len(writes') : writes'[i] = writes[i + 1]
  BY <1>0, HeadTailProperties, EmptySeq DEF WriteNext
<1>2. DOMAIN writes = 1 .. Len(writes) /\ DOMAIN writes' = 1 .. Len(writes')
  BY <1>0, <1>1, LenProperties
<1>3. w.to \in FileNames /\ w.content \in ContentOf(w.to)  BY <1>1 DEF Writes
<1>4. /\ files' = [files EXCEPT ![w.to] = w.content]
      /\ UNCHANGED <<claims, served, faultless>>
  BY DEF WriteNext
<1>c. UNCHANGED <<Writes, ModelsOfRows>> /\ \A f : UNCHANGED ContentOf(f)
  BY DEF Writes, ModelsOfRows, ContentOf
<1>5. TrainingTypes'  BY <1>0, <1>1, <1>3, <1>4 DEF TrainingTypes
<1> HIDE DEF w
<1>6. \A f \in FileNames : Coming(f)' \subseteq Coming(f)
  <2> SUFFICES ASSUME NEW f \in FileNames, NEW c \in Coming(f)' PROVE c \in Coming(f)
    OBVIOUS
  <2>1. CASE \E i \in 1 .. Len(writes') : writes'[i].to = f /\ writes'[i].content = c
    <3>1. PICK i \in 1 .. Len(writes') : writes'[i].to = f /\ writes'[i].content = c
      BY <2>1
    <3>2. i + 1 \in DOMAIN writes /\ writes'[i] = writes[i + 1]  BY <1>1, <1>2
    <3> QED  BY <3>1, <3>2 DEF Coming
  <2>2. CASE (\A i \in 1 .. Len(writes') : writes'[i].to # f) /\ c = files'[f]
    <3>1. CASE w.to = f
      <4>1. files'[f] = w.content  BY <1>0, <1>4, <3>1 DEF TrainingTypes
      <4>2. 1 \in DOMAIN writes  BY <1>1, <1>2
      <4> QED  BY <1>1, <2>2, <3>1, <4>1, <4>2 DEF Coming
    <3>2. CASE w.to # f
      <4>1. files'[f] = files[f]  BY <1>0, <1>4, <3>2 DEF TrainingTypes
      <4>2. \A i \in DOMAIN writes : writes[i].to # f
        <5> SUFFICES ASSUME NEW i \in 1 .. Len(writes) PROVE writes[i].to # f
          BY <1>2
        <5>1. i = 1 \/ i - 1 \in 1 .. Len(writes')  BY <1>1
        <5>2. i - 1 \in 1 .. Len(writes') => writes'[i - 1] = writes[(i - 1) + 1]
          BY <1>1
        <5> QED  BY <1>1, <2>2, <3>2, <5>1, <5>2
      <4> QED  BY <2>2, <4>1, <4>2 DEF Coming
    <3> QED  BY <3>1, <3>2
  <2> QED  BY <1>2, <2>1, <2>2 DEF Coming
<1>7. files'["current"] \in Coming("current") \cup {files["current"]}
  <2>1. CASE w.to = "current"
    <3>1. files'["current"] = w.content  BY <1>0, <1>4, <2>1 DEF TrainingTypes, FileNames
    <3>2. 1 \in DOMAIN writes  BY <1>1, <1>2
    <3> QED  BY <1>1, <2>1, <3>1, <3>2 DEF Coming
  <2>2. CASE w.to # "current"
    BY <1>0, <1>4, <2>2 DEF TrainingTypes, FileNames
  <2> QED  BY <2>1, <2>2
<1>8. FilesApart'
  BY <1>4, <1>6, <1>7, ContentKinds DEF TrainingInv, FilesApart, PairApart, ModelApart
<1> QED  BY <1>5, <1>8 DEF TrainingInv

\* A script is cut short.
LEMMA InterruptedKeeps ==
  ASSUME TrainingInv, Interrupted
  PROVE  TrainingInv'
<1>1. writes \in Seq(Writes) /\ writes # << >> /\ TrainingTypes
  BY DEF TrainingInv, TrainingTypes, Interrupted
<1>2. Head(writes) \in Writes  BY <1>1, HeadTailProperties
<1>3. Head(writes).to \in FileNames  BY <1>2 DEF Writes
<1>4. /\ writes' = << >> /\ faultless' = FALSE /\ UNCHANGED <<claims, served>>
      /\ \/ files' = files \/ files' = [files EXCEPT ![Head(writes).to] = Torn]
  BY DEF Interrupted
<1>5. \A f \in FileNames : Torn \in ContentOf(f)  BY DEF ContentOf
<1>6. DOMAIN files' = FileNames /\ \A f \in FileNames : files'[f] \in ContentOf(f)
  BY <1>1, <1>3, <1>4, <1>5 DEF TrainingTypes
<1>7. writes' \in Seq(Writes)  BY <1>4
<1>8. TrainingTypes'  BY <1>1, <1>4, <1>6, <1>7 DEF TrainingTypes
<1>9. FilesApart'  BY <1>4 DEF FilesApart
<1> QED  BY <1>8, <1>9 DEF TrainingInv

\* Lists are replaced; the service starts.
LEMMA OthersKeep ==
  ASSUME TrainingInv, NewLists \/ ServiceStarts \/ UNCHANGED trainingVars
  PROVE  TrainingInv'
<1>1. UNCHANGED <<files, writes, faultless>>
  BY DEF NewLists, ServiceStarts, trainingVars
<1>2. claims' \in Listings
  BY DEF NewLists, ServiceStarts, trainingVars, TrainingInv, TrainingTypes
<1>3. served' \in {served, NoModel} \/ (Readable("current") /\ served' = files["current"])
  BY DEF NewLists, ServiceStarts, trainingVars
<1>4. Readable("current") => files["current"] \in ModelsOfRows
  BY ContentKinds DEF Readable, TrainingInv, TrainingTypes, ContentOf
<1>5. TrainingTypes'
  BY <1>1, <1>2, <1>3, <1>4 DEF TrainingInv, TrainingTypes
<1>6. \A f : Coming(f)' = Coming(f)  BY <1>1 DEF Coming
<1>7. ModelApart(NoModel)  BY DEF ModelApart
<1>8. FilesApart'
  BY <1>1, <1>3, <1>6, <1>7 DEF TrainingInv, FilesApart, PairApart, ModelApart
<1> QED  BY <1>5, <1>8 DEF TrainingInv

\* Whichever scripts run in whichever order, and wherever they are cut short,
\* the files and the models keep the inductive invariant.
THEOREM TrainingInvariance == TrainingSpec => []TrainingInv
<1>1. TrainingInit => TrainingInv
  <2> SUFFICES ASSUME TrainingInit PROVE TrainingInv  OBVIOUS
  <2>1. TrainingTypes
    <3>1. /\ claims \in Listings /\ writes = << >> /\ served = NoModel
          /\ DOMAIN files = FileNames /\ \A f \in FileNames : files[f] = Missing
      BY DEF TrainingInit
    <3>2. \A f \in FileNames : Missing \in ContentOf(f)  BY DEF ContentOf
    <3> QED  BY <3>1, <3>2 DEF TrainingTypes
  <2>2. writes = << >> /\ served = NoModel /\ \A f \in FileNames : files[f] = Missing
    BY DEF TrainingInit
  <2>3. \A f \in FileNames : Coming(f) = {Missing}  BY <2>2, NothingPending
  <2>4. FilesApart
    BY <2>2, <2>3, ContentKinds DEF FilesApart, PairApart, ModelApart
  <2> QED  BY <2>1, <2>4 DEF TrainingInv
<1>2. TrainingInv /\ [TrainingNext]_trainingVars => TrainingInv'
  BY CurateKeeps, SplitKeeps, BuildKeeps, RetrainKeeps, RetrainFullKeeps, WriteKeeps,
     InterruptedKeeps, OthersKeep DEF TrainingNext
<1> QED  BY <1>1, <1>2, PTL DEF TrainingSpec

LEMMA ModelsHold ==
  ASSUME TrainingInv, NEW m \in Models
  PROVE  m \in ModelsOfRows /\ (faultless => ModelApart(m))
         /\ m \notin {Missing, Torn, NoModel}
<1>1. m \in {files["current"], served} /\ m \notin {Missing, Torn, NoModel}  BY DEF Models
<1>2. files["current"] \in ModelsOfRows \cup {Missing, Torn} /\ served \in ModelsOfRows \cup {NoModel}
  BY ContentKinds DEF TrainingInv, TrainingTypes, ContentOf
<1> QED  BY <1>1, <1>2 DEF TrainingInv, FilesApart

\* A model was measured on rows it was not trained on, so long as no script
\* was cut short between its writes.
THEOREM MeasuredApart == TrainingSpec => []HeldOutApart
<1>1. TrainingInv => HeldOutApart
  BY ModelsHold DEF HeldOutApart, ModelApart, Keys
<1> QED  BY <1>1, TrainingInvariance, PTL

\* No row of two classes reaches a model, but for a verified human whom a
\* detector accuses, whatever else the lists say of that human.
THEOREM ConflictsAreSettled == TrainingSpec => []OnlyVerifiedCleared
<1>1. ASSUME TrainingInv PROVE OnlyVerifiedCleared
  <2>1. \A r \in UNION {m.on \cup m.measuredOn : m \in Models} : r \in CuratedRows
    BY <1>1, ModelsHold DEF ModelsOfRows, HeldRows
  <2>2. \A r \in CuratedRows : ClassHolds(r)  BY DEF CuratedRows
  <2>3. \A r \in UNION {m.on \cup m.measuredOn : m \in Models} :
          (r.sources \cap SybilTiers # {} /\ r.sources \cap GenuineTiers # {}) =>
            r.label = "genuine" /\ r.tier = "G1"
              /\ (r.sources \cap SybilTiers) \cap {"T4", "T5"} # {}
    BY <2>1, <2>2 DEF ClassHolds, SybilTiers
  <2> QED  BY <2>3 DEF OnlyVerifiedCleared
<1> QED  BY <1>1, TrainingInvariance, PTL

\* What a model is measured on as sybil is on a ground-truth list.
THEOREM GroundTruthOnly == TrainingSpec => []MeasuredOnGroundTruth
<1>1. TrainingInv => MeasuredOnGroundTruth
  BY ModelsHold DEF MeasuredOnGroundTruth, ModelsOfRows, HeldRows
<1> QED  BY <1>1, TrainingInvariance, PTL
=============================================================================
