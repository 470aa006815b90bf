-------------------------- MODULE MCTensorParallel --------------------------
(* Two callers, one of which may bring the two devices in the other order and  *)
(* so replace the workers.                                                    *)
EXTENDS TensorParallel, TLC

CONSTANTS d1, d2, c1, c2

MCKeys == (c1 :> {<<d1, d2>>}) @@ (c2 :> {<<d1, d2>>, <<d2, d1>>})
=============================================================================
