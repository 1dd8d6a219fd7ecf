------------------------------ MODULE Requests ------------------------------
(* The requests that the API has in progress (index.ts).  Fastify runs the *)
(* handlers of several requests at once and goes to another at every       *)
(* await; the rows they read stay in their local variables meanwhile.      *)
EXTENDS FiniteSets, Naturals

CONSTANTS Slots

ASSUME RequestsAssumption == IsFiniteSet(Slots)

VARIABLES requests

NoRequest == [op |-> "none", at |-> "idle", who |-> "none", locals |-> << >>]

\* Request s has reached the await or the reply "at" of the handler of op.
Reached(s, op, at) == requests[s].op = op /\ requests[s].at = at

Begins(s, op, who, locals) ==
  /\ requests[s] = NoRequest
  /\ requests' = [requests EXCEPT ![s] = [op |-> op, at |-> "begun", who |-> who,
                                          locals |-> locals]]
Continues(s, at, locals) ==
  requests' = [requests EXCEPT ![s] = [op |-> @.op, at |-> at, who |-> @.who,
                                       locals |-> locals]]
Ends(s) == requests' = [requests EXCEPT ![s] = NoRequest]

\* The process dies, or is deployed anew: what was in progress is gone.
AllLost ==
  /\ \E s \in Slots : requests[s] # NoRequest
  /\ requests' = [s \in Slots |-> NoRequest]

Quiet == \A s \in Slots : requests[s] = NoRequest
=============================================================================
