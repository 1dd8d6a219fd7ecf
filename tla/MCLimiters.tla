----------------------------- MODULE MCLimiters -----------------------------
(* Instances for TLC of the two limiters between a caller and Alchemy: the *)
(* ML service's, with its threads, and the API's reservation for first     *)
(* sight.  They share no state, so a behaviour is of one or of the other.  *)
EXTENDS MlService, FirstSightThrottle, TLC

CONSTANTS t1, t2

VARIABLE family

MCVars == <<family, vars, throttleVars>>

MCInit == family \in {"threads", "throttle"} /\ Init /\ ThrottleInit

MCNext ==
  /\ UNCHANGED family
  /\ \/ family = "threads" /\ Next /\ UNCHANGED throttleVars
     \/ family = "throttle" /\ ThrottleNext /\ UNCHANGED vars

MCSpec == MCInit /\ [][MCNext]_MCVars

\* Threads are interchangeable.
MCSymmetry == Permutations(Threads)
=============================================================================
