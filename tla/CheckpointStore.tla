--------------------------- MODULE CheckpointStore ---------------------------
(***************************************************************************)
(* What DiskPrefixCache promises (include/utils/disk_prefix_cache.h:       *)
(* "complete atomic checkpoints"): a checkpoint appears whole, once, and   *)
(* goes only when it is the oldest one.  Crashes, restarts and rebuilt     *)
(* indexes are steps that change nothing.  PrefixStore implements this.    *)
(***************************************************************************)
EXTENDS Naturals

CONSTANT Key

VARIABLE created  \* when each checkpoint was made, 0 for none

Stored == {k \in Key : created[k] # 0}

Init == created = [k \in Key |-> 0]

\* A checkpoint that is stored is never replaced, so its age never changes,
\* and no two are of the same age.
Publish(k) ==
  /\ k \notin Stored
  /\ created'[k] \in Nat \ {0}
  /\ \A j \in Stored : created[j] # created'[k]
  /\ created' = [created EXCEPT ![k] = created'[k]]

\* Eviction is first in, first out.
Evict(k) ==
  /\ k \in Stored
  /\ \A j \in Stored : created[k] <= created[j]
  /\ created' = [created EXCEPT ![k] = 0]

Next == \E k \in Key : Publish(k) \/ Evict(k)

Spec == Init /\ [][Next]_created
=============================================================================
