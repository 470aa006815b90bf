----------------------------- MODULE PrefixStore -----------------------------
(***************************************************************************)
(* The SSD prefix cache DiskPrefixCache (src/utils/disk_prefix_cache.cpp): *)
(* processes that share one directory of blobs and commit files, and the   *)
(* SQLite index beside it.  Write sessions, read sessions, garbage         *)
(* collection and recovery, with processes killed and power lost between   *)
(* any two of their steps.                                                 *)
(*                                                                         *)
(* A chunk is its digest and the chunks of a checkpoint are fixed by its   *)
(* key.  flock and SQLite are taken as they are used: a lock goes with its *)
(* process; a statement or transaction is atomic and durable when it       *)
(* returns, and so is every earlier rename and unlink (an ordered journal);*)
(* the contents of a file are durable after its fsync.  A process runs one *)
(* session at a time.                                                      *)
(***************************************************************************)
EXTENDS Naturals, FiniteSets, FiniteSetsExt

CONSTANTS
  Proc,         \* processes that use the cache
  Key,          \* keys of checkpoints
  Hash,         \* digests of chunks
  Content,      \* Content[k]: the chunks the checkpoint k refers to
  Limit,        \* limitBytes
  BlobBytes,    \* bytes of a chunk file
  CommitBytes,  \* bytes of a commit file
  Allowance,    \* IndexAllowance
  Batch,        \* BatchChunks
  MaxStamp,     \* bound: commits of one behaviour
  RecoverKills, \* whether a process may be killed inside Recover
  NoKey

ASSUME StoreAssumption ==
  /\ IsFiniteSet(Proc) /\ IsFiniteSet(Key) /\ IsFiniteSet(Hash)
  /\ Content \in [Key -> SUBSET Hash]
  /\ Limit \in Nat /\ BlobBytes \in Nat /\ CommitBytes \in Nat /\ Allowance \in Nat
  /\ Batch \in Nat \ {0} /\ MaxStamp \in Nat
  /\ RecoverKills \in BOOLEAN
  /\ NoKey \notin Key

VARIABLES
  \* the directory
  blobs,      \* objects/: "none", "good", or "bad" when the contents were lost
  cached,     \* blobs whose contents are not on the disk yet
  commits,    \* commits/: the created_ns of each commit file, 0 for none
  leaked,     \* bytes of the staged files nobody will remove
  \* the index
  rows,       \* tables checkpoints and refs: created, 0 for no row
  objects,    \* table objects
  reserved,   \* table reservations: bytes of the session of each process
  abandoned,  \* the reservations of sessions that were killed
  intents,    \* table intents: the live sessions with one
  stale,      \* an intent of a session that is gone, or no index at all
  \* the processes
  pc,
  lease,      \* .lease: "none", "shared" or "exclusive"
  goal,       \* the checkpoints a write session still has to commit
  target,     \* the checkpoint being committed or read
  stamp,      \* its created_ns
  pending,    \* chunks staged, not yet renamed
  synced,     \* those of them fsynced
  renamed,    \* chunks of the batch already at their final name
  verified,   \* chunks the session stored or found
  todo,       \* what the holder of the exclusive lease has left to do
  tx,         \* the open transaction of Maintain: its rows and objects
  \* history
  clock,      \* commits so far
  acked       \* checkpoints whose Commit returned, not evicted since

disk == <<blobs, cached, commits, leaked>>
index == <<rows, objects, reserved, abandoned, intents, stale>>
batch == <<pending, synced, renamed>>
session == <<goal, target, stamp, batch, verified>>
collector == <<todo, tx>>
history == <<clock, acked>>
vars == <<disk, index, pc, lease, session, collector, history>>
-----------------------------------------------------------------------------
NoRows == [k \in Key |-> 0]

\* The checkpoints of a table of commits or of rows.
In(r) == {k \in Key : r[k] # 0}

\* The chunks they refer to.
Referenced(r) == UNION {Content[k] : k \in In(r)}

\* HeaderValid of every reference of k.
Complete(k) == \A h \in Content[k] : blobs[h] = "good"

Bytes(r, o) == BlobBytes * Cardinality(o) + CommitBytes * Cardinality(In(r))

\* Mutant of Used: the reservations of sessions that were killed do not count.
UsedForgets(r, o) == Bytes(r, o) + SumFunctionOnSet(reserved, Proc)

\* Used: what a state of the index says is taken.
Used(r, o) == Bytes(r, o) + abandoned + SumFunctionOnSet(reserved, Proc)

\* The chunk files, and the bytes each process has staged.
Present == {h \in Hash : blobs[h] # "none"}
Staged == [p \in Proc |-> BlobBytes * Cardinality(pending[p])]

\* What is really there.
OnDisk == Bytes(commits, Present) + leaked + SumFunctionOnSet(Staged, Proc)

\* What a caller reserves for a session: its chunks, its commits and a margin.
Estimate(g) ==
  BlobBytes * Cardinality(UNION {Content[k] : k \in g}) + CommitBytes * Cardinality(g) + Allowance

\* The index as IndexUsable and BeginWrite find it.
Dirty == stale \/ intents # {}

Leased == \E p \in Proc : lease[p] # "none"
Exclusive == \E p \in Proc : lease[p] = "exclusive"

\* .metadata and .commit-XX are held in these states across steps.
MetadataFree == \A p \in Proc : pc[p] \notin {"flushing", "publish", "index", "settle"}
Publishing(k) ==
  \E p \in Proc : target[p] = k /\ pc[p] \in {"stamped", "publish", "index", "settle"}

Recovering(p) == pc[p] \in {"wipe", "scan", "reclaim"}

Init ==
  /\ blobs = [h \in Hash |-> "none"]
  /\ cached = {}
  /\ commits = NoRows
  /\ leaked = 0
  /\ rows = NoRows
  /\ objects = {}
  /\ reserved = [p \in Proc |-> 0]
  /\ abandoned = 0
  /\ intents = {}
  /\ stale = TRUE
  /\ pc = [p \in Proc |-> "down"]
  /\ lease = [p \in Proc |-> "none"]
  /\ goal = [p \in Proc |-> {}]
  /\ target = [p \in Proc |-> NoKey]
  /\ stamp = [p \in Proc |-> 0]
  /\ pending = [p \in Proc |-> {}]
  /\ synced = [p \in Proc |-> {}]
  /\ renamed = [p \in Proc |-> {}]
  /\ verified = [p \in Proc |-> {}]
  /\ todo = {}
  /\ tx = [rows |-> NoRows, objects |-> {}]
  /\ clock = 0
  /\ acked = {}

Go(p, state) == pc' = [pc EXCEPT ![p] = state]
Take(p, mode) == lease' = [lease EXCEPT ![p] = mode]
-----------------------------------------------------------------------------
(* Write sessions *)

\* Reserve: tops the reservation of p up to n bytes if the quota allows it.
CanReserve(p, n) ==
  \/ reserved[p] >= n
  \/ Used(rows, objects) + (n - reserved[p]) <= Limit
Reserve(p, n) ==
  reserved' = IF reserved[p] >= n THEN reserved ELSE [reserved EXCEPT ![p] = n]

Consume(p, n) == reserved' = [reserved EXCEPT ![p] = @ - n]

\* One attempt of BeginWrite for the checkpoints g; a clean index and room in
\* the quota open the session, otherwise it ends in state failed.
BeginAttempt(p, g, failed) ==
  /\ ~Exclusive
  /\ MetadataFree
  /\ goal' = [goal EXCEPT ![p] = g]
  /\ IF ~Dirty /\ CanReserve(p, Estimate(g))
     THEN Reserve(p, Estimate(g)) /\ Take(p, "shared") /\ Go(p, "open")
     ELSE UNCHANGED <<reserved, lease>> /\ Go(p, failed)
  /\ UNCHANGED <<disk, rows, objects, abandoned, intents, stale, target, stamp, batch,
                 verified, collector, history>>

BeginWrite(p) ==
  /\ pc[p] = "idle"
  /\ \E g \in SUBSET Key \ {{}} :
       clock + Cardinality(g) <= MaxStamp /\ BeginAttempt(p, g, "maintain")

\* The second attempt, after Maintain made room.
BeginAgain(p) == pc[p] = "retry" /\ BeginAttempt(p, goal[p], "failed")

\* The caller gets the exception.
GiveUp(p) ==
  /\ pc[p] = "failed"
  /\ goal' = [goal EXCEPT ![p] = {}]
  /\ Go(p, "idle")
  /\ UNCHANGED <<disk, index, lease, target, stamp, batch, verified, collector, history>>

\* The chunks the session has still to store.
Wanted(p) == (UNION {Content[k] : k \in goal[p]}) \ verified[p]

\* FlushPending is due: the batch is full, or a commit waits for it.
FlushDue(p) ==
  /\ pending[p] # {}
  /\ \/ Cardinality(pending[p]) >= Batch
     \/ \E k \in goal[p] : Content[k] \subseteq verified[p]

\* StoreBytes of a chunk that is there already.
Dedup(p, h) ==
  /\ pc[p] = "open" /\ ~FlushDue(p)
  /\ h \in Wanted(p) /\ blobs[h] = "good"
  /\ verified' = [verified EXCEPT ![p] = @ \cup {h}]
  /\ UNCHANGED <<disk, index, pc, lease, goal, target, stamp, batch, collector, history>>

\* StoreBytes of a new chunk: reserve, then write the staged file.
Stage(p, h) ==
  /\ pc[p] = "open" /\ ~FlushDue(p) /\ MetadataFree
  /\ h \in Wanted(p) /\ blobs[h] # "good"
  /\ CanReserve(p, BlobBytes + Allowance)
  /\ Reserve(p, BlobBytes + Allowance)
  /\ pending' = [pending EXCEPT ![p] = @ \cup {h}]
  /\ verified' = [verified EXCEPT ![p] = @ \cup {h}]
  /\ UNCHANGED <<disk, rows, objects, abandoned, intents, stale, pc, lease, goal, target,
                 stamp, synced, renamed, collector, history>>

\* Mutant of FlushBegin: the staged files are renamed without an fsync.
FlushBeginUnsynced(p) ==
  /\ pc[p] = "open" /\ FlushDue(p) /\ MetadataFree
  /\ intents' = intents \cup {p}
  /\ Go(p, "flushing")
  /\ UNCHANGED <<disk, rows, objects, reserved, abandoned, stale, lease, goal, target, stamp,
                 pending, synced, renamed, verified, collector, history>>

\* FlushPending: the intent, then fsync of every staged file.
FlushBegin(p) ==
  /\ pc[p] = "open" /\ FlushDue(p) /\ MetadataFree
  /\ intents' = intents \cup {p}
  /\ synced' = [synced EXCEPT ![p] = pending[p]]
  /\ Go(p, "flushing")
  /\ UNCHANGED <<disk, rows, objects, reserved, abandoned, stale, lease, goal, target, stamp,
                 pending, renamed, verified, collector, history>>

FlushRename(p, h) ==
  /\ pc[p] = "flushing"
  /\ h \in pending[p]
  /\ blobs' = [blobs EXCEPT ![h] = "good"]
  /\ cached' = IF h \in synced[p] THEN cached \ {h} ELSE cached \cup {h}
  /\ pending' = [pending EXCEPT ![p] = @ \ {h}]
  /\ renamed' = [renamed EXCEPT ![p] = @ \cup {h}]
  /\ UNCHANGED <<commits, leaked, index, pc, lease, goal, target, stamp, synced, verified,
                 collector, history>>

\* The transaction of FlushPending commits: objects, Consume, no intent.
FlushCommit(p) ==
  /\ pc[p] = "flushing" /\ pending[p] = {}
  /\ BlobBytes * Cardinality(renamed[p]) <= reserved[p]
  /\ objects' = objects \cup renamed[p]
  /\ Consume(p, BlobBytes * Cardinality(renamed[p]))
  /\ intents' = intents \ {p}
  /\ renamed' = [renamed EXCEPT ![p] = {}]
  /\ synced' = [synced EXCEPT ![p] = {}]
  /\ Go(p, "open")
  /\ UNCHANGED <<disk, rows, abandoned, stale, lease, goal, target, stamp, pending, verified,
                 collector, history>>

\* Commit, first half: the publication lock, the look at an existing commit
\* (which is enough if it is healthy), and the time stamp.
CommitFound(p, k) ==
  /\ pc[p] = "open" /\ pending[p] = {}
  /\ k \in goal[p] /\ Content[k] \subseteq verified[p]
  /\ ~Publishing(k)
  /\ commits[k] # 0 /\ Complete(k)
  /\ goal' = [goal EXCEPT ![p] = @ \ {k}]
  /\ acked' = acked \cup {k}
  /\ UNCHANGED <<disk, index, pc, lease, target, stamp, batch, verified, collector, clock>>

CommitStamp(p, k) ==
  /\ pc[p] = "open" /\ pending[p] = {}
  /\ k \in goal[p] /\ Content[k] \subseteq verified[p]
  /\ ~Publishing(k)
  /\ ~(commits[k] # 0 /\ Complete(k))
  /\ clock < MaxStamp
  /\ clock' = clock + 1
  /\ target' = [target EXCEPT ![p] = k]
  /\ stamp' = [stamp EXCEPT ![p] = clock + 1]
  /\ Go(p, "stamped")
  /\ UNCHANGED <<disk, index, lease, goal, batch, verified, collector, acked>>

\* Commit, second half, under .metadata: Reserve and the intent ...
CommitIntent(p) ==
  /\ pc[p] = "stamped" /\ MetadataFree
  /\ CanReserve(p, CommitBytes + Allowance)
  /\ Reserve(p, CommitBytes + Allowance)
  /\ intents' = intents \cup {p}
  /\ Go(p, "publish")
  /\ UNCHANGED <<disk, rows, objects, abandoned, stale, lease, session, collector, history>>

\* ... AtomicWrite of the commit file ...
AtomicWrite(p) ==
  /\ pc[p] = "publish"
  /\ commits' = [commits EXCEPT ![target[p]] = stamp[p]]
  /\ Go(p, "index")
  /\ UNCHANGED <<blobs, cached, leaked, index, lease, session, collector, history>>

\* ... IndexRecord ...
IndexRecord(p) ==
  /\ pc[p] = "index"
  /\ rows' = [rows EXCEPT ![target[p]] = stamp[p]]
  /\ objects' = objects \cup Content[target[p]]
  /\ Go(p, "settle")
  /\ UNCHANGED <<disk, reserved, abandoned, intents, stale, lease, session, collector, history>>

\* ... Consume, and the intent goes.
CommitReturn(p) ==
  /\ pc[p] = "settle"
  /\ CommitBytes <= reserved[p]
  /\ Consume(p, CommitBytes)
  /\ intents' = intents \ {p}
  /\ goal' = [goal EXCEPT ![p] = @ \ {target[p]}]
  /\ acked' = acked \cup {target[p]}
  /\ target' = [target EXCEPT ![p] = NoKey]
  /\ stamp' = [stamp EXCEPT ![p] = 0]
  /\ Go(p, "open")
  /\ UNCHANGED <<disk, rows, objects, abandoned, stale, lease, batch, verified, collector, clock>>

\* Mutant of EndWrite: a session that fails takes its intent along.
EndWriteClean(p) ==
  /\ pc[p] \in {"open", "flushing", "stamped", "publish", "index", "settle"}
  /\ pending' = [pending EXCEPT ![p] = {}]
  /\ synced' = [synced EXCEPT ![p] = {}]
  /\ renamed' = [renamed EXCEPT ![p] = {}]
  /\ verified' = [verified EXCEPT ![p] = {}]
  /\ goal' = [goal EXCEPT ![p] = {}]
  /\ target' = [target EXCEPT ![p] = NoKey]
  /\ stamp' = [stamp EXCEPT ![p] = 0]
  /\ intents' = intents \ {p}
  /\ Go(p, "closing")
  /\ UNCHANGED <<disk, rows, objects, reserved, abandoned, stale, lease, collector, history>>

\* The session ends, done or by an exception (a failed transfer, fsync,
\* statement or reservation): ~State removes the staged files; an intent that
\* was written stays.
EndWrite(p) ==
  /\ pc[p] \in {"open", "flushing", "stamped", "publish", "index", "settle"}
  /\ pending' = [pending EXCEPT ![p] = {}]
  /\ synced' = [synced EXCEPT ![p] = {}]
  /\ renamed' = [renamed EXCEPT ![p] = {}]
  /\ verified' = [verified EXCEPT ![p] = {}]
  /\ goal' = [goal EXCEPT ![p] = {}]
  /\ target' = [target EXCEPT ![p] = NoKey]
  /\ stamp' = [stamp EXCEPT ![p] = 0]
  /\ stale' = (stale \/ p \in intents)
  /\ intents' = intents \ {p}
  /\ Go(p, "closing")
  /\ UNCHANGED <<disk, rows, objects, reserved, abandoned, lease, collector, history>>

\* ~State deletes the reservation, then the lease goes.
CloseWrite(p) ==
  /\ pc[p] = "closing" /\ MetadataFree
  /\ reserved' = [reserved EXCEPT ![p] = 0]
  /\ Take(p, "none")
  /\ Go(p, "idle")
  /\ UNCHANGED <<disk, rows, objects, abandoned, intents, stale, session, collector, history>>
-----------------------------------------------------------------------------
(* Read sessions *)

\* BeginRead and Load; a record that is missing or incomplete is a miss.
Load(p, k) ==
  /\ pc[p] = "idle" /\ ~Exclusive
  /\ commits[k] # 0 /\ Complete(k)
  /\ Take(p, "shared")
  /\ target' = [target EXCEPT ![p] = k]
  /\ Go(p, "reading")
  /\ UNCHANGED <<disk, index, goal, stamp, batch, verified, collector, history>>

EndRead(p) ==
  /\ pc[p] = "reading"
  /\ Take(p, "none")
  /\ target' = [target EXCEPT ![p] = NoKey]
  /\ Go(p, "idle")
  /\ UNCHANGED <<disk, index, goal, stamp, batch, verified, collector, history>>
-----------------------------------------------------------------------------
(* Maintain and Recover, under the exclusive lease *)

Begun(r, o) == tx' = [rows |-> r, objects |-> o]
NoTx == tx' = [rows |-> NoRows, objects |-> {}]

\* Maintain: LOCK_EX | LOCK_NB; Recover first when the index is dirty.
MaintainBusy(p) ==
  /\ pc[p] = "maintain" /\ Leased
  /\ Go(p, "failed")
  /\ UNCHANGED <<disk, index, lease, session, collector, history>>

\* Mutant of Maintain: only another exclusive lease keeps it out.
MaintainAnyway(p) ==
  /\ pc[p] = "maintain" /\ ~Exclusive
  /\ Take(p, "exclusive")
  /\ IF Dirty THEN Go(p, "wipe") /\ UNCHANGED tx ELSE Go(p, "gc") /\ Begun(rows, objects)
  /\ UNCHANGED <<disk, index, session, todo, history>>

Maintain(p) ==
  /\ pc[p] = "maintain" /\ ~Leased
  /\ Take(p, "exclusive")
  /\ IF Dirty THEN Go(p, "wipe") /\ UNCHANGED tx ELSE Go(p, "gc") /\ Begun(rows, objects)
  /\ UNCHANGED <<disk, index, session, todo, history>>

\* There is room for the session of p.
Fits(p) == Used(tx.rows, tx.objects) + Estimate(goal[p]) <= Limit

\* Mutant of Oldest: the newest checkpoint goes.
Newest(k) == k \in In(tx.rows) /\ \A j \in In(tx.rows) : tx.rows[k] >= tx.rows[j]

\* Checkpoints go oldest first.
Oldest(k) == k \in In(tx.rows) /\ \A j \in In(tx.rows) : tx.rows[k] <= tx.rows[j]

\* Mutant of GcWithdraw: every blob of the checkpoint goes, shared or not.
GcWithdrawAll(p, k) ==
  /\ pc[p] = "gc" /\ todo = {} /\ ~Fits(p)
  /\ Oldest(k)
  /\ commits' = [commits EXCEPT ![k] = 0]
  /\ acked' = acked \ {k}
  /\ todo' = Content[k] /\ Begun([tx.rows EXCEPT ![k] = 0], tx.objects)
  /\ UNCHANGED <<blobs, cached, leaked, index, pc, lease, session, clock>>

\* The commit file goes first, then the row; its blobs nobody else refers to follow.
GcWithdraw(p, k) ==
  /\ pc[p] = "gc" /\ todo = {} /\ ~Fits(p)
  /\ Oldest(k)
  /\ commits' = [commits EXCEPT ![k] = 0]
  /\ acked' = acked \ {k}
  /\ LET left == [tx.rows EXCEPT ![k] = 0]
     IN  todo' = Content[k] \ Referenced(left) /\ Begun(left, tx.objects)
  /\ UNCHANGED <<blobs, cached, leaked, index, pc, lease, session, clock>>

\* A blob nobody refers to goes, then its row.
GcRemove(p, h) ==
  /\ pc[p] \in {"gc", "sweep"}
  /\ h \in todo
  /\ blobs' = [blobs EXCEPT ![h] = "none"]
  /\ cached' = cached \ {h}
  /\ todo' = todo \ {h}
  /\ Begun(tx.rows, tx.objects \ {h})
  /\ UNCHANGED <<commits, leaked, index, pc, lease, session, history>>

\* With room made, the objects without a reference go too.
GcSweep(p) ==
  /\ pc[p] = "gc" /\ todo = {} /\ Fits(p)
  /\ todo' = tx.objects \ Referenced(tx.rows)
  /\ Go(p, "sweep")
  /\ UNCHANGED <<disk, index, lease, session, tx, history>>

\* COMMIT, and the caller tries again ...
GcCommit(p) ==
  /\ pc[p] = "sweep" /\ todo = {}
  /\ rows' = tx.rows /\ objects' = tx.objects
  /\ NoTx
  /\ Take(p, "none")
  /\ Go(p, "retry")
  /\ UNCHANGED <<disk, reserved, abandoned, intents, stale, session, todo, history>>

\* ... or COMMIT and no room, with no checkpoint left to evict.
GcRefuse(p) ==
  /\ pc[p] = "gc" /\ todo = {} /\ ~Fits(p) /\ In(tx.rows) = {}
  /\ rows' = tx.rows /\ objects' = tx.objects
  /\ NoTx
  /\ Take(p, "none")
  /\ Go(p, "failed")
  /\ UNCHANGED <<disk, reserved, abandoned, intents, stale, session, todo, history>>

\* ... or an exception: the transaction is rolled back, the files stay gone.
GcAbort(p) ==
  /\ pc[p] \in {"gc", "sweep"}
  /\ todo' = {} /\ NoTx
  /\ Take(p, "none")
  /\ Go(p, "failed")
  /\ UNCHANGED <<disk, index, session, history>>

\* RebuildIndex, whatever the index looks like.
RebuildIndex(p) ==
  /\ pc[p] = "idle" /\ ~Leased
  /\ Take(p, "exclusive")
  /\ Go(p, "wipe")
  /\ UNCHANGED <<disk, index, session, collector, history>>

\* A process starts: the constructor accepts an index that looks clean, and
\* recovers otherwise.
Open(p) ==
  /\ pc[p] = "down" /\ ~Leased
  /\ IF Dirty THEN Take(p, "exclusive") /\ Go(p, "wipe") ELSE UNCHANGED lease /\ Go(p, "idle")
  /\ UNCHANGED <<disk, index, session, collector, history>>

\* Recover: every table is emptied ...
RecoverWipe(p) ==
  /\ pc[p] = "wipe"
  /\ rows' = NoRows /\ objects' = {} /\ abandoned' = 0
  /\ reserved' = [q \in Proc |-> 0]
  /\ intents' = {} /\ stale' = FALSE
  /\ todo' = In(commits)
  /\ Go(p, "scan")
  /\ UNCHANGED <<disk, lease, session, tx, history>>

\* ... each commit is indexed again, or pruned if a blob is missing ...
RecoverIndex(p, k) ==
  /\ pc[p] = "scan" /\ k \in todo
  /\ IF Complete(k)
     THEN /\ rows' = [rows EXCEPT ![k] = commits[k]]
          /\ objects' = objects \cup Content[k]
          /\ UNCHANGED commits
     ELSE commits' = [commits EXCEPT ![k] = 0] /\ UNCHANGED <<rows, objects>>
  /\ todo' = todo \ {k}
  /\ UNCHANGED <<blobs, cached, leaked, reserved, abandoned, intents, stale, pc, lease, session,
                 tx, history>>

\* ... and everything no commit refers to is removed from the directory.
RecoverReclaim(p) ==
  /\ pc[p] = "scan" /\ todo = {}
  /\ blobs' = [h \in Hash |-> IF h \in objects THEN blobs[h] ELSE "none"]
  /\ cached' = cached \cap objects
  /\ leaked' = 0
  /\ IF goal[p] = {}
     THEN Take(p, "none") /\ Go(p, "idle") /\ UNCHANGED tx
     ELSE UNCHANGED lease /\ Go(p, "gc") /\ Begun(rows, objects)
  /\ UNCHANGED <<commits, index, session, todo, history>>
-----------------------------------------------------------------------------
(* Faults *)

\* The processes P are gone with their locks and their open transaction; what
\* they staged and what they reserved stays behind.
Killed(P) ==
  /\ RecoverKills \/ \A p \in P : pc[p] \notin {"wipe", "scan"}
  /\ leaked' = leaked + SumFunctionOnSet(Staged, P)
  /\ abandoned' = abandoned + SumFunctionOnSet(reserved, P)
  /\ reserved' = [p \in Proc |-> IF p \in P THEN 0 ELSE reserved[p]]
  /\ stale' = (stale \/ intents \cap P # {})
  /\ intents' = intents \ P
  /\ pc' = [p \in Proc |-> IF p \in P THEN "down" ELSE pc[p]]
  /\ lease' = [p \in Proc |-> IF p \in P THEN "none" ELSE lease[p]]
  /\ goal' = [p \in Proc |-> IF p \in P THEN {} ELSE goal[p]]
  /\ target' = [p \in Proc |-> IF p \in P THEN NoKey ELSE target[p]]
  /\ stamp' = [p \in Proc |-> IF p \in P THEN 0 ELSE stamp[p]]
  /\ pending' = [p \in Proc |-> IF p \in P THEN {} ELSE pending[p]]
  /\ synced' = [p \in Proc |-> IF p \in P THEN {} ELSE synced[p]]
  /\ renamed' = [p \in Proc |-> IF p \in P THEN {} ELSE renamed[p]]
  /\ verified' = [p \in Proc |-> IF p \in P THEN {} ELSE verified[p]]
  /\ IF \E p \in P : lease[p] = "exclusive"
     THEN todo' = {} /\ NoTx
     ELSE UNCHANGED collector
  /\ UNCHANGED <<commits, rows, objects, history>>

\* SIGKILL of one process.
Kill(p) ==
  /\ pc[p] # "down"
  /\ Killed({p})
  /\ UNCHANGED <<blobs, cached>>

\* The machine stops: contents that were not on the disk are lost.
PowerLoss ==
  /\ \E p \in Proc : pc[p] # "down"
  /\ Killed(Proc)
  /\ blobs' = [h \in Hash |-> IF h \in cached THEN "bad" ELSE blobs[h]]
  /\ cached' = {}

\* The index file is removed or found corrupt while nobody runs.
LoseIndex ==
  /\ \A p \in Proc : pc[p] = "down"
  /\ rows' = NoRows /\ objects' = {} /\ abandoned' = 0 /\ stale' = TRUE
  /\ UNCHANGED <<disk, reserved, intents, pc, lease, session, collector, history>>
-----------------------------------------------------------------------------
Step(p) ==
  \/ BeginWrite(p) \/ BeginAgain(p) \/ GiveUp(p)
  \/ \E h \in Hash : Dedup(p, h) \/ Stage(p, h) \/ FlushRename(p, h) \/ GcRemove(p, h)
  \/ FlushBegin(p) \/ FlushCommit(p)
  \/ \E k \in Key : CommitFound(p, k) \/ CommitStamp(p, k) \/ GcWithdraw(p, k)
                      \/ Load(p, k) \/ RecoverIndex(p, k)
  \/ CommitIntent(p) \/ AtomicWrite(p) \/ IndexRecord(p) \/ CommitReturn(p)
  \/ EndWrite(p) \/ CloseWrite(p) \/ EndRead(p)
  \/ MaintainBusy(p) \/ Maintain(p) \/ GcSweep(p) \/ GcCommit(p) \/ GcRefuse(p)
  \/ GcAbort(p)
  \/ RebuildIndex(p) \/ Open(p) \/ RecoverWipe(p) \/ RecoverReclaim(p)

Next == (\E p \in Proc : Step(p) \/ Kill(p)) \/ PowerLoss \/ LoseIndex

Spec == Init /\ [][Next]_vars
-----------------------------------------------------------------------------
\* A published checkpoint never points at a blob that is missing or lost.
NoDangling == \A k \in In(commits) : Complete(k)

\* A checkpoint whose Commit returned is there until it is evicted, through
\* kills, power loss, restarts and rebuilt indexes.
AckedKept == \A k \in acked : commits[k] # 0

\* An index that looks clean knows every published checkpoint and its blobs.
IndexComplete ==
  ~Dirty /\ ~(\E p \in Proc : Recovering(p)) =>
    \A k \in In(commits) : rows[k] = commits[k] /\ Content[k] \subseteq objects

\* The files of the cache never take more than the limit.
QuotaKept == OnDisk <= Limit

\* What a live session has loaded or verified stays on the disk.
SessionProtected ==
  \A p \in Proc :
    /\ pc[p] = "reading" => Complete(target[p])
    /\ \A h \in verified[p] \ pending[p] : blobs[h] = "good"

Store == INSTANCE CheckpointStore WITH created <- commits
ImplementsStore == Store!Spec
=============================================================================
