----------------------------- MODULE MCPagePool -----------------------------
(***************************************************************************)
(* A finite instance of PagePool.  The prefixes are a chain of three pages *)
(* (deep enough for an idle inner node with idle and held descendants) and *)
(* a sibling that shares only the first page.                              *)
(***************************************************************************)
EXTENDS PagePool, Sequences, TLC

CONSTANTS a, b

MCPrefix == {<<a>>, <<a, a>>, <<a, a, a>>, <<a, b>>}

IsShorter(p, q) == Len(p) < Len(q) /\ p = SubSeq(q, 1, Len(p))

MCShorter == {pq \in MCPrefix \X MCPrefix : IsShorter(pq[1], pq[2])}

\* Pages and holders are interchangeable.
Symmetric == Permutations(Page) \cup Permutations(Holder)
=============================================================================
