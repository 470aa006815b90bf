------------------------ MODULE MCResponseScheduler ------------------------
(***************************************************************************)
(* Finite instances of ResponseScheduler.  c1 and c2 fetch in batches, c3  *)
(* polls; a prompt of 9 tokens is too long for the model.                  *)
(***************************************************************************)
EXTENDS ResponseScheduler, TLC

CONSTANTS c1, c2, c3

LastThree == [c \in Client |-> IF c = c3 THEN 3 ELSE 1]
OneTwo == [c \in Client |-> IF c = c1 THEN 1 ELSE 2]

\* c1 and c2 send the same requests.
Symmetric == Permutations({c1, c2})
=============================================================================
