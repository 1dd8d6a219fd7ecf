------------------------ MODULE MCAnalysisLifecycle ------------------------
(* Instances of AnalysisLifecycle for TLC.                                 *)
EXTENDS AnalysisLifecycle, TLC

CONSTANTS a1, a2, c1

MCCustomerOf == [a \in Analyses |-> c1]
MCOneAtATime == [c \in Customers |-> 1]      \* the free plan

\* A list of each size, inline (which then wins) and in a file.
MCAllBodies ==
  {[inline |-> i, file |-> f] : i \in {"absent", "over"}, f \in {"absent", "over"}}
    \union {[inline |-> "fits", file |-> "over"], [inline |-> "empty", file |-> "fits"],
            [inline |-> "absent", file |-> "empty"]}
MCGoodBody == {[inline |-> "fits", file |-> "absent"]}
=============================================================================
