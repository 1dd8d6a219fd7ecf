---------------------------- MODULE MCFirstSight ----------------------------
(* Instances of FirstSight for TLC.                                        *)
EXTENDS FirstSight, TLC

CONSTANTS k1, k2, c1, c2, c3

\* Two callers race for one key while a third asks for another.
MCKeyOf == (c1 :> k1) @@ (c2 :> k1) @@ (c3 :> k2)
=============================================================================
