-------------------------- MODULE MCCustomAllReduce --------------------------
(* Two devices and two AllReduces, of a tensor and of a pair that reuses it. *)
EXTENDS CustomAllReduce, TLC

CONSTANTS x, y, bench, hidden, benched

MCStream == <<<<x>>, <<x, y>>>>
MCShape == (x :> hidden) @@ (y :> hidden) @@ (bench :> benched)
==============================================================================
