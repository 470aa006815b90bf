---------------------------- MODULE PrefixExport ----------------------------
(***************************************************************************)
(* The export pipeline of Qwen35PersistentCache                            *)
(* (src/models/qwen3_5_persistent.inc): the scheduler thread captures what *)
(* a prefill has computed as leases on GPU pages, and one worker thread    *)
(* copies the pages of each job out and commits checkpoints to the store   *)
(* that PrefixStore models.  They share a bounded queue, budgets and a     *)
(* condition variable, which Wait sleeps on as well.                       *)
(*                                                                         *)
(* Lengths are counted in prefill chunks, each one page and one bundle on  *)
(* every rank; one attention layer.  A critical section under mutex is one *)
(* step.  A condition variable is the set of threads asleep on it.         *)
(***************************************************************************)
EXTENDS Naturals, Sequences, FiniteSets, FiniteSetsExt

CONSTANTS
  Request,
  RankCount,        \* devices, exported in this order
  Chunks,           \* Chunks[r]: chunks of the prompt of r
  Hot,              \* Hot[r]: chunks of it restored from GPU pages, cacheLen
  Marks,            \* Marks[r]: lengths that are checkpoints
  Waiter,           \* threads that call Wait
  Worker,           \* the worker thread, as a sleeper
  QueueLimit,       \* 16
  CheckpointLimit,  \* 2
  HostLimit,
  StateBytes,       \* size of a snapshot, and of an image
  Budget,           \* gpuBudget, in pages of a rank
  Images,           \* bound: images saved
  Evictable,        \* bound: requests that start over, once each
  NoRequest

ASSUME ExportAssumption ==
  /\ NoRequest \notin Request /\ Worker \notin Waiter
  /\ RankCount \in Nat \ {0}
  /\ Chunks \in [Request -> Nat] /\ Hot \in [Request -> Nat]
  /\ \A r \in Request : Hot[r] <= Chunks[r] /\ Marks[r] \subseteq 1..Chunks[r]
  /\ {QueueLimit, CheckpointLimit, HostLimit, StateBytes, Budget} \subseteq Nat
  /\ Images \in Nat /\ Evictable \subseteq Request

VARIABLES
  \* the requests
  live,       \* requests in the scheduler
  cacheLen,   \* what each restored
  computed,   \* chunks whose pages each holds
  capture,    \* the request whose Capture waits for mutex
  \* the ExportState of each request
  issued, failed, writer, inherited, kv,
  \* the pipeline
  queue, job, stopping,
  pinned,           \* pinnedGpuBytes, in pages of each rank
  queuedStateBytes, checkpointJobs,
  \* threads
  worker,     \* where the worker thread is
  wait,       \* where each waiter is
  asleep,     \* who sleeps on changed
  stop,       \* progress of Stop
  \* history
  images, evicted,
  committed   \* checkpoints committed

requests == <<live, cacheLen, computed, capture>>
state == <<issued, failed, writer, inherited, kv>>
budgets == <<pinned, queuedStateBytes, checkpointJobs>>
pipeline == <<queue, job, stopping, budgets>>
sleepers == <<wait, asleep, stop>>
history == <<images, evicted, committed>>
vars == <<requests, state, pipeline, worker, sleepers, history>>
-----------------------------------------------------------------------------
Rank == 1..RankCount

NoJob == [of |-> NoRequest, length |-> 0, mark |-> FALSE, bytes |-> 0,
          left |-> [k \in Rank |-> {}], out |-> <<>>]

\* A job with the pages of chunks first + 1 .. length leased on every rank.
CaptureJob(r, first, length) ==
  [of |-> r, length |-> length, mark |-> length \in Marks[r],
   bytes |-> IF length \in Marks[r] THEN StateBytes ELSE 0,
   left |-> [k \in Rank |-> first + 1..length], out |-> <<>>]

ImageJob == [NoJob EXCEPT !.bytes = StateBytes]

NoKv == [k \in Rank |-> <<>>]

Init ==
  /\ live = Request /\ cacheLen = Hot /\ computed = Hot /\ capture = NoRequest
  /\ issued = [r \in Request |-> 0]
  /\ failed = [r \in Request |-> FALSE]
  /\ writer = [r \in Request |-> FALSE]
  /\ inherited = [r \in Request |-> FALSE]
  /\ kv = [r \in Request |-> NoKv]
  /\ queue = <<>> /\ job = NoJob /\ stopping = FALSE
  /\ pinned = [k \in Rank |-> 0] /\ queuedStateBytes = 0 /\ checkpointJobs = 0
  /\ worker = "loop"
  /\ wait = [w \in Waiter |-> "out"] /\ asleep = {} /\ stop = "no"
  /\ images = 0 /\ evicted = {} /\ committed = {}

Working == worker \in {"begin", "opened", "copy", "copied", "store", "commit", "settle"}

\* The jobs whose leases and bytes are charged.
Charged == {queue[n] : n \in DOMAIN queue} \cup (IF Working THEN {job} ELSE {})

\* A page of chunk i keeps its contents: its request or a lease holds it.
Held(r, k, i) ==
  \/ r \in live /\ i <= computed[r]
  \/ \E j \in Charged : j.of = r /\ i \in j.left[k]

\* notify_one
NotifyOne == IF asleep = {} THEN UNCHANGED asleep ELSE \E t \in asleep : asleep' = asleep \ {t}

\* The last reference to the state of r goes: its sessions end with it.
Dropped(r) ==
  /\ writer' = [writer EXCEPT ![r] = FALSE]
  /\ inherited' = [inherited EXCEPT ![r] = FALSE]
  /\ kv' = [kv EXCEPT ![r] = NoKv]
-----------------------------------------------------------------------------
(* The scheduler thread *)

\* The first capture of a request that was restored from GPU pages takes over
\* the references of their checkpoint, if there is one.
Adopted(r) ==
  /\ issued[r] = 0 /\ cacheLen[r] > 0
  /\ issued' = [issued EXCEPT ![r] = cacheLen[r]]
  /\ inherited' = [inherited EXCEPT ![r] = TRUE]
  /\ kv' = [kv EXCEPT ![r] = [k \in Rank |-> [i \in 1..cacheLen[r] |-> i]]]
  /\ UNCHANGED <<failed, writer>>

\* A chunk of a prompt is computed.  If a snapshot is recorded, Capture tests
\* failed and goes on to the queue with what was not issued yet.
Prefill(r) ==
  /\ capture = NoRequest
  /\ r \in live /\ computed[r] < Chunks[r]
  /\ computed' = [computed EXCEPT ![r] = @ + 1]
  /\ \/ capture' = NoRequest /\ UNCHANGED state
     \/ /\ ~failed[r]
        /\ Adopted(r) \/ UNCHANGED state
        /\ capture' = IF computed[r] + 1 > issued'[r] THEN r ELSE NoRequest
  /\ UNCHANGED <<live, cacheLen, pipeline, worker, sleepers, history>>

\* The queue and the budgets have room for the capture of r.
Admitted(r) ==
  LET j == CaptureJob(r, issued[r], computed[r])
  IN  /\ ~stopping /\ Len(queue) < QueueLimit
      /\ j.mark => checkpointJobs < CheckpointLimit /\ j.bytes <= HostLimit - queuedStateBytes
      /\ \A k \in Rank : Cardinality(j.left[k]) + pinned[k] <= Budget

Enqueue(r) ==
  /\ capture = r /\ Admitted(r)
  /\ LET j == CaptureJob(r, issued[r], computed[r])
     IN  /\ queue' = Append(queue, j)
         /\ pinned' = [k \in Rank |-> pinned[k] + Cardinality(j.left[k])]
         /\ queuedStateBytes' = queuedStateBytes + j.bytes
         /\ checkpointJobs' = checkpointJobs + (IF j.mark THEN 1 ELSE 0)
  /\ issued' = [issued EXCEPT ![r] = computed[r]]
  /\ capture' = NoRequest
  /\ NotifyOne
  /\ UNCHANGED <<live, cacheLen, computed, failed, writer, inherited, kv, job, stopping, worker,
                 wait, stop, history>>

\* Mutant of CaptureSkipped: what was skipped counts as issued.
CaptureSkippedIssued(r) ==
  /\ capture = r
  /\ issued' = [issued EXCEPT ![r] = computed[r]]
  /\ capture' = NoRequest
  /\ UNCHANGED <<live, cacheLen, computed, failed, writer, inherited, kv, pipeline, worker,
                 sleepers, history>>

\* There is no room, or an event or its record on a rank fails: the leases
\* taken so far go, and a later capture starts from the same place.
CaptureSkipped(r) ==
  /\ capture = r
  /\ capture' = NoRequest
  /\ UNCHANGED <<live, cacheLen, computed, state, pipeline, worker, sleepers, history>>

\* Pages run short while it decodes: the request gives its own back and starts over.
Evict(r) ==
  /\ capture = NoRequest
  /\ r \in live /\ computed[r] = Chunks[r]
  /\ r \in Evictable \ evicted
  /\ evicted' = evicted \cup {r}
  /\ computed' = [computed EXCEPT ![r] = 0]
  /\ cacheLen' = [cacheLen EXCEPT ![r] = 0]
  /\ UNCHANGED <<live, capture, state, pipeline, worker, sleepers, images, committed>>

\* The request ends: Removed, and its pages go.
Removed(r) ==
  /\ r \in live \ {capture}
  /\ live' = live \ {r}
  /\ IF \E j \in Charged : j.of = r THEN UNCHANGED <<writer, inherited, kv>> ELSE Dropped(r)
  /\ UNCHANGED <<cacheLen, computed, capture, issued, failed, pipeline, worker, sleepers, history>>

\* The features of an image are queued under the same limits.
SaveImage ==
  /\ images < Images /\ ~stopping
  /\ Len(queue) < QueueLimit /\ StateBytes <= HostLimit - queuedStateBytes
  /\ images' = images + 1
  /\ queue' = Append(queue, ImageJob)
  /\ queuedStateBytes' = queuedStateBytes + StateBytes
  /\ NotifyOne
  /\ UNCHANGED <<requests, state, job, stopping, pinned, checkpointJobs, worker, wait, stop,
                 evicted, committed>>
-----------------------------------------------------------------------------
(* The worker thread: Work and Export *)

Go(place) == worker' = place

Rest ==
  /\ worker = "loop" /\ Worker \notin asleep /\ queue = <<>>
  /\ IF stopping THEN Go("exited") /\ UNCHANGED asleep
     ELSE UNCHANGED worker /\ asleep' = asleep \cup {Worker}
  /\ UNCHANGED <<requests, state, pipeline, wait, stop, history>>

Take ==
  /\ worker = "loop" /\ Worker \notin asleep /\ queue # <<>>
  /\ job' = Head(queue) /\ queue' = Tail(queue)
  /\ Go("begin")
  /\ UNCHANGED <<requests, state, stopping, budgets, sleepers, history>>

\* An exception anywhere in Export: no later job of the request is exported.
ExportFails ==
  /\ Working /\ worker # "settle"
  /\ failed' = IF job.of = NoRequest THEN failed ELSE [failed EXCEPT ![job.of] = TRUE]
  /\ Go("settle")
  /\ UNCHANGED <<requests, issued, writer, inherited, kv, pipeline, sleepers, history>>

\* An image is stored and committed; the job of a failed request is left alone.
ExportOther ==
  /\ worker = "begin"
  /\ job.of # NoRequest => failed[job.of]
  /\ Go("settle")
  /\ UNCHANGED <<requests, state, pipeline, sleepers, history>>

\* Mutant of BeginWrite: the read session ends before the write session begins.
BeginWriteAfter ==
  /\ worker = "begin" /\ job.of # NoRequest /\ ~failed[job.of]
  /\ inherited' = [inherited EXCEPT ![job.of] = FALSE]
  /\ Go("opened")
  /\ UNCHANGED <<requests, issued, failed, writer, kv, pipeline, sleepers, history>>

\* The session that all jobs of a request write to.
BeginWrite ==
  /\ worker = "begin" /\ job.of # NoRequest /\ ~failed[job.of]
  /\ writer' = [writer EXCEPT ![job.of] = TRUE]
  /\ Go("opened")
  /\ UNCHANGED <<requests, issued, failed, inherited, kv, pipeline, sleepers, history>>

ResetInherited ==
  /\ worker = "opened"
  /\ inherited' = [inherited EXCEPT ![job.of] = FALSE]
  /\ Go("copy")
  /\ UNCHANGED <<requests, issued, failed, writer, kv, pipeline, sleepers, history>>

LeftRanks == {k \in Rank : job.left[k] # {}}

\* A bundle is what was in the page when the copy ended, 0 for another's data.
CopyBundle ==
  /\ worker = "copy" /\ LeftRanks # {}
  /\ LET k == Min(LeftRanks)
         i == Min(job.left[k])
     IN  job' = [job EXCEPT !.out = <<k, i, IF Held(job.of, k, i) THEN i ELSE 0>>]
  /\ Go("copied")
  /\ UNCHANGED <<requests, state, queue, stopping, budgets, sleepers, history>>

\* The page goes back before the bundle is written to the disk.
ReleasePages ==
  /\ worker = "copied"
  /\ job' = [job EXCEPT !.left[job.out[1]] = @ \ {job.out[2]}]
  /\ pinned' = [pinned EXCEPT ![job.out[1]] = @ - 1]
  /\ Go("store")
  /\ UNCHANGED <<requests, state, queue, stopping, queuedStateBytes, checkpointJobs, sleepers,
                 history>>

StoreBytes ==
  /\ worker = "store"
  /\ kv' = [kv EXCEPT ![job.of][job.out[1]] = Append(@, job.out[3])]
  /\ job' = [job EXCEPT !.out = <<>>]
  /\ Go("copy")
  /\ UNCHANGED <<requests, issued, failed, writer, inherited, queue, stopping, budgets, sleepers,
                 history>>

Exported ==
  /\ worker = "copy" /\ LeftRanks = {}
  /\ Go(IF job.mark THEN "commit" ELSE "settle")
  /\ UNCHANGED <<requests, state, pipeline, sleepers, history>>

Commit ==
  /\ worker = "commit"
  /\ committed' = committed \cup {[length |-> job.length, kv |-> kv[job.of]]}
  /\ Go("settle")
  /\ UNCHANGED <<requests, state, pipeline, sleepers, images, evicted>>

Uncharged(p) ==
  /\ pinned' = p
  /\ queuedStateBytes' = queuedStateBytes - job.bytes
  /\ checkpointJobs' = checkpointJobs - (IF job.mark THEN 1 ELSE 0)

\* The job goes, and with it perhaps the last reference to its state.
JobDone ==
  /\ job' = NoJob
  /\ IF job.of \in live \cup {NoRequest} \/ (\E n \in DOMAIN queue : queue[n].of = job.of)
     THEN UNCHANGED <<writer, inherited, kv>> ELSE Dropped(job.of)
  /\ Go("notify")
  /\ UNCHANGED <<requests, issued, failed, queue, stopping, sleepers, history>>

\* Mutant of Settle: the pages a failed job did not copy stay charged.
SettleForgets ==
  /\ worker = "settle"
  /\ Uncharged(pinned)
  /\ JobDone

\* What was not copied is unpinned, and the leases go before working does.
Settle ==
  /\ worker = "settle"
  /\ Uncharged([k \in Rank |-> pinned[k] - Cardinality(job.left[k])])
  /\ JobDone

\* Mutant of NotifyAll: nobody is told that a job is done.
NotifyNobody ==
  /\ worker = "notify"
  /\ Go("loop")
  /\ UNCHANGED <<requests, state, pipeline, sleepers, history>>

NotifyAll ==
  /\ worker = "notify"
  /\ asleep' = {}
  /\ Go("loop")
  /\ UNCHANGED <<requests, state, pipeline, wait, stop, history>>

WorkerStep ==
  \/ Rest \/ Take \/ ExportFails \/ ExportOther \/ BeginWrite \/ ResetInherited
  \/ CopyBundle \/ ReleasePages \/ StoreBytes \/ Exported \/ Commit \/ Settle \/ NotifyAll
-----------------------------------------------------------------------------
(* Wait and Stop *)

WaitCall(w) ==
  /\ wait[w] = "out" /\ stop # "done"
  /\ wait' = [wait EXCEPT ![w] = "test"]
  /\ UNCHANGED <<requests, state, pipeline, worker, asleep, stop, history>>

\* The predicate of wait_for: the queue is drained.
WaitTest(w) ==
  /\ wait[w] = "test" /\ w \notin asleep
  /\ IF queue = <<>> /\ ~Working
     THEN wait' = [wait EXCEPT ![w] = "out"] /\ UNCHANGED asleep
     ELSE asleep' = asleep \cup {w} /\ UNCHANGED wait
  /\ UNCHANGED <<requests, state, pipeline, worker, stop, history>>

WaitTimeout(w) ==
  /\ w \in asleep
  /\ wait' = [wait EXCEPT ![w] = "out"]
  /\ asleep' = asleep \ {w}
  /\ UNCHANGED <<requests, state, pipeline, worker, stop, history>>

\* The destructor of the model calls Stop when no request is left.
StopFlag ==
  /\ stop = "no" /\ live = {}
  /\ stopping' = TRUE
  /\ stop' = "flagged"
  /\ UNCHANGED <<requests, state, queue, job, budgets, worker, wait, asleep, history>>

StopNotify ==
  /\ stop = "flagged"
  /\ asleep' = {}
  /\ stop' = "joining"
  /\ UNCHANGED <<requests, state, pipeline, worker, wait, history>>

StopJoin ==
  /\ stop = "joining" /\ worker = "exited"
  /\ stop' = "done"
  /\ UNCHANGED <<requests, state, pipeline, worker, wait, asleep, history>>

Next ==
  \/ \E r \in Request : Prefill(r) \/ Enqueue(r) \/ CaptureSkipped(r) \/ Evict(r) \/ Removed(r)
  \/ SaveImage
  \/ WorkerStep
  \/ \E w \in Waiter : WaitCall(w) \/ WaitTest(w) \/ WaitTimeout(w)
  \/ StopFlag \/ StopNotify \/ StopJoin

\* The worker, a woken waiter and Stop go on as long as they can; nobody is
\* obliged to submit more work, and no timeout is obliged to come.
Spec ==
  /\ Init /\ [][Next]_vars
  /\ WF_vars(WorkerStep)
  /\ \A w \in Waiter : WF_vars(WaitTest(w))
  /\ WF_vars(StopNotify) /\ WF_vars(StopJoin)
-----------------------------------------------------------------------------
\* A committed checkpoint holds every chunk of its length, on every rank, once
\* and in order, as its request computed it, whatever was skipped, adopted,
\* evicted or failed before.
WholeCheckpoints ==
  \A c \in committed : c.kv = [k \in Rank |-> [i \in 1..c.length |-> i]]

\* The queued jobs: their leases on pages of rank k, those with a state, the checkpoints.
Leases(k) == UNION {{n} \X queue[n].left[k] : n \in DOMAIN queue}
WithState == {n \in DOMAIN queue : queue[n].bytes # 0}
Marked == {n \in DOMAIN queue : queue[n].mark}

\* n of the job that is being exported.
Current(n) == IF Working THEN n ELSE 0

\* What is charged is what the jobs that are queued or exported still hold, and
\* within the budgets.
Accounted ==
  /\ \A k \in Rank :
       /\ pinned[k] = Cardinality(Leases(k)) + Current(Cardinality(job.left[k]))
       /\ pinned[k] <= Budget
  /\ queuedStateBytes = StateBytes * Cardinality(WithState) + Current(job.bytes)
  /\ queuedStateBytes <= HostLimit
  /\ checkpointJobs = Cardinality(Marked) + Current(IF job.mark THEN 1 ELSE 0)
  /\ checkpointJobs <= CheckpointLimit

\* References that a later commit will publish are under a shared lease of the
\* store, of the read session they came from or the write session they go to.
RefsLeased == \A r \in Request : kv[r] # NoKv => writer[r] \/ inherited[r]

\* Every queued job is exported or given up and the queue drains, although Wait
\* sleeps on the same condition variable; and Stop returns.
Drains ==
  /\ (queue # <<>> \/ Working) ~> (queue = <<>> /\ ~Working)
  /\ stop = "flagged" ~> stop = "done"
=============================================================================
