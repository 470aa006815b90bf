--------------------------- MODULE MCPrefixExport ---------------------------
(* A request of three chunks, the first restored and the last a checkpoint, *)
(* and one of a single chunk that may start over.                           *)
EXTENDS PrefixExport, TLC

CONSTANTS r1, r2

MCChunks == (r1 :> 3) @@ (r2 :> 1)
MCHot == (r1 :> 1) @@ (r2 :> 0)
MCMarks == (r1 :> {3}) @@ (r2 :> {1})
=============================================================================
