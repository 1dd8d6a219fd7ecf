-------------------------- MODULE AnalysisContract --------------------------
(***************************************************************************)
(* What a client of the analyses API may rely on, without the queue, the   *)
(* worker or their failures: an analysis can be submitted once, worked on, *)
(* declared failed and worked on again; it is ready, and announced, only   *)
(* after its results can be read; results never go away.                   *)
(***************************************************************************)
CONSTANT Analyses

VARIABLES
  view,       \* what GET /v1/analyses/:id shows
  readable,   \* GET /v1/analyses/:id/results has something to show
  announced   \* the customer has been told that the analysis is complete

contractVars == <<view, readable, announced>>

Views == {"none", "waiting", "ready", "failed"}

Init ==
  /\ view = [a \in Analyses |-> "none"]
  /\ readable = [a \in Analyses |-> FALSE]
  /\ announced = [a \in Analyses |-> FALSE]

Submit(a) ==
  /\ view[a] = "none"
  /\ view' = [view EXCEPT ![a] = "waiting"]
  /\ UNCHANGED <<readable, announced>>

Work(a) ==
  /\ view[a] # "none"
  /\ view' = [view EXCEPT ![a] = "waiting"]
  /\ UNCHANGED <<readable, announced>>

Publish(a) ==
  /\ view[a] # "none"
  /\ readable' = [readable EXCEPT ![a] = TRUE]
  /\ UNCHANGED <<view, announced>>

Ready(a) ==
  /\ readable[a]
  /\ view' = [view EXCEPT ![a] = "ready"]
  /\ UNCHANGED <<readable, announced>>

Fail(a) ==
  /\ view[a] # "none"
  /\ view' = [view EXCEPT ![a] = "failed"]
  /\ UNCHANGED <<readable, announced>>

Announce(a) ==
  /\ readable[a]
  /\ announced' = [announced EXCEPT ![a] = TRUE]
  /\ UNCHANGED <<view, readable>>

Next ==
  \E a \in Analyses :
    Submit(a) \/ Work(a) \/ Publish(a) \/ Ready(a) \/ Fail(a) \/ Announce(a)

Spec == Init /\ [][Next]_contractVars
=============================================================================
