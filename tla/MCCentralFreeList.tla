------------------------- MODULE MCCentralFreeList -------------------------
(* Two size classes, one with ranges of two objects, that share two slots:   *)
(* both are with the other class at the start, where evictions have left     *)
(* them.                                                                     *)
EXTENDS CentralFreeList, TLC

CONSTANTS c1, c2

McBatch == c1 :> 2 @@ c2 :> 1
McInitial == c1 :> 0 @@ c2 :> 2
McMax == c1 :> 1 @@ c2 :> 2
=============================================================================
