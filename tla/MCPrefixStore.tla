---------------------------- MODULE MCPrefixStore ----------------------------
(* A finite instance of PrefixStore: checkpoints that share a chunk. *)
EXTENDS PrefixStore, TLC

CONSTANTS k1, k2, h1, h2, h3

MCContent == (k1 :> {h1, h2}) @@ (k2 :> {h2, h3})

\* Processes are interchangeable.
Symmetric == Permutations(Proc)
=============================================================================
