# A TLA+ model of the FastLLM serving core

FastLLM is an inference engine for large language models. This directory holds
TLA+ modules of the parts of it that are concurrent and stateful: the request
scheduler of `basellm`, the paged KV cache below it, the prefix cache on disk
beside it, and the threads that run one forward pass on several devices. TLC
checks the modules on small instances; TLAPS proves theorems about eleven of
them for every instance.

Paths are relative to the repository's `src/` and `include/`: `basellm.cpp` is
`src/models/basellm.cpp`, `fastllm.cpp` is `src/fastllm.cpp`. Every definition of a
module is tied to its source lines in the `map` of `PROJECT.json`.

## The system

| Component | Where | State it keeps | Operations | Meets others through |
|---|---|---|---|---|
| Request scheduler, new engine | `basellm.cpp`, `RunNewMainLoop` and the calls around it | `responseContextDict`, the contexts (tokens, flags, queues), `isFree`, burst and interleave state | `LaunchResponseTokens`, `FetchResponseTokens[Batch]`, `FetchResponseLogits`, `CanFetchResponse`, `AbortResponse`, `ShutdownRuntime`, the loop | `dictLocker`, `dictCV`, `forwardLocker`, raw context pointers |
| Prefix recording and restore | `basellm.cpp`, `TryRecordPagedCache` and the selection loop | `pastKeyValues`, `cacheLen`, page keys | restore, record (after a chunk, a prefill, a step, at the end, at an abort), evict | runs inside the loop; calls the page manager |
| Paged KV cache manager | `fastllm.cpp`, `PagedCacheManager` | two vectors of available pages with their sets, reference counts, timestamps, a trie of hashed pages, back pointers | `SetMaxPages`, `GetUnusedPageIndex`, `Record`, `Query`, `Pick`, `ReleasePageIndex(es)` | `pageIndexLocker`; page tables inside requests and snapshots |
| Prefix store on disk | `utils/disk_prefix_cache.cpp`, `DiskPrefixCache` | blobs and commit files, a SQLite index of commits, objects, references and intents, lock files | `Open`, `BeginWrite`, `PutChunk`, `Commit`, `BeginRead`, `LoadObject`, maintenance, recovery | the directory, `flock`, processes of their own |
| Prefix export | `models/qwen3_5_persistent.inc`, `Qwen35PersistentCache` | a bounded queue of jobs, budgets of pinned pages, bytes and checkpoints, an export state per request | `Capture`, `SaveImage`, `Removed`, the worker, `Wait`, `Stop` | the scheduler thread, the worker thread, GPU page leases, sessions of the store |
| Persistent worker group | `utils/persistent_worker_group.h` | task generation, completion count, workers | `Run`, `RunWithCaller`, `Stop` | a mutex for calls, a mutex and two condition variables for work |
| NCCL submit rendezvous | `devices/multicuda/ncclsubmitrendezvous.h` | an epoch, arrivals, the expected operation, a sticky error | `Wait` in two phases, `Abort`, `Error`, called by `FastllmNcclAllReduceImpl` | a mutex, a condition variable, atomics; NCCL |
| Custom AllReduce | `devices/multicuda/fastllm-custom-allreduce.cu`, `fastllm-multicuda.cu` | group state, leases, registered tensors, selection mode | the calls, collective registration, automatic selection, `Reset`, `FastllmInitNccl` | `state.mutex`, `g_ncclMutex`, kernels that meet on the devices |
| Old engine loop | `basellm.cpp`, the lambda in `LaunchResponseTokens` | as the new engine | as the new engine | the same locks |
| History KV cache | `basellm.cpp`, `PastKVCacheManager` | saved prompts with their KV data, LRU times | `Record`, `Get`, `Remove` | `dictLocker`, `forwardLocker` for the copies |
| Model-specific schedulers | `models/qwen3_5.cpp`, `deepseekv4.cpp` | as the scheduler, with draft tokens | speculative loops | the same locks |
| Image embedding cache | `utils/image_embedding_cache.h` | an LRU list limited in bytes | look up, insert, evict | one mutex |
| CPU thread pool | `devices/cpu/alivethreadpool.h` | per-thread operation slots | push, wait | atomics, spinning |
| MoE decode scheduler | `devices/moe_decode_scheduler.h` | measured costs, LRU links | measure, place | called by one thread |
| Kernels, model graphs, executor | `devices`, `models`, `executor.cpp`, `graph.cpp` | tensors | arithmetic | called by the loop |
| Tokenizer, templates | `tokenizer.cpp`, `template.cpp` | vocabulary | text processing | none |
| Server, WebUI, launcher, desktop | `tools/fastllm_pytools`, `desktop` | HTTP sessions | launch, fetch and abort requests | the C interface |
| Operations scripts, examples, vendored code | `ops`, `example`, `third_party` | none of its own | none | none |

A request: a client thread calls `LaunchResponseTokens`, which puts a context into
the table under the lowest free handle and notifies the loop. The loop sweeps the
table, restores what the prefix cache has of the prompt, selects a batch, releases
`dictLocker`, runs the forward pass under `forwardLocker`, takes `dictLocker` again,
records the pages, queues the tokens and wakes everybody. The client fetches until
it is told the end, which removes the context, or aborts. On several GPUs the forward
pass is a task that the persistent worker group runs once per device, and the devices
meet in AllReduces: through the custom kernels when the message is eligible,
through NCCL and its rendezvous otherwise. While a Qwen 3.5 request is computed
its pages are captured for the disk: leased, queued, copied by the export worker
into a write session of the store and published as a checkpoint.

What is hard in it: context pointers used while the table is unlocked; handles that
are reused; one condition variable for clients and loop, with `notify_one`; flags
read without a lock; two mutexes; pages shared between requests and a trie that is
evicted under them; tokens that are known before their KV rows are computed; worker
threads that use the stack frame of a call; ranks that must submit the same operation
in the same order; state that a setup frees under calls; processes that are killed,
machines that lose power, and a budget for what is pinned meanwhile. The hazards are
listed, each at its line, in `PROJECT.json`.

What makes each component correct:

- scheduler: a context in the forward pass stays alive; every client gets its own
  tokens, all of them, once, in order; every request ends; nobody sleeps while there
  is work;
- recording and restore: a request attends only to rows that were computed, and
  always has a token to compute;
- page manager: a page is never rewritten while a request or the trie points to it;
  no page leaks or is freed twice; a lookup never returns pages of other content;
- prefix store: a published checkpoint is whole, stays until it is the oldest when
  room is needed, and survives kills and power loss; the quota holds; what a session
  relies on is not collected;
- prefix export: a checkpoint has every chunk of its prompt once, in order, on every
  rank, and never the data of another request; budgets are exact; the queue drains;
- worker group: no worker uses a task or an error vector after its call; a call
  returns only with the outcome of every rank, and it returns;
- rendezvous: ranks submit the same AllReduce together, none runs ahead;
- custom AllReduce: nothing a call or a kernel uses is freed; the ranks of a round
  decide alike; everything returns.

## The modules

| Module | What it is | Stands for |
|---|---|---|
| `PagePool` | abstract page pool: sets of pages, a trie as a map from prefixes | `PagedCacheManager` |
| `PagedCacheManager` | the manager with its vectors, sets, hashes and timestamps; refines `PagePool` | `fastllm.cpp:5874-6213` |
| `PrefixRecording` | when pages are published, and what a restore finds | `TryRecordPagedCache`, restore and publish in `RunNewMainLoop` |
| `ResponseScheduler` | clients, the loop, shutdown around `dictLocker` and `dictCV` | `basellm.cpp:905-946, 1691-2778, 3278-3446` |
| `SchedulerLocks` | the two mutexes inside those sections | `basellm.cpp:2556-2686, 3280-3332, 3479-3505` |
| `CheckpointStore` | abstract store: checkpoints in the order of their commits, the oldest goes first | what `disk_prefix_cache.h:16-19` promises |
| `PrefixStore` | sessions, collection, recovery, kills and power loss; refines `CheckpointStore` | `disk_prefix_cache.cpp:43-929` |
| `PrefixExport` | capture and export of checkpoints | `qwen3_5_persistent.inc:9-610` |
| `WorkerGroup` | calls, workers, stop and rebuild | `persistent_worker_group.h:31-278` |
| `SubmitRendezvous` | the meetings before and after an NCCL submission | `ncclsubmitrendezvous.h:20-121`, `fastllm-multicuda.cu:3500-3615` |
| `TensorParallel` | `WorkerGroup` and `SubmitRendezvous` composed | `qwen3.cpp`, `Qwen3Model::ForwardGPU` |
| `CustomAllReduce` | leases, registration, selection, setup and `Reset` | `fastllm-custom-allreduce.cu:867-2583`, `fastllm-multicuda.cu:2415-3605` |
| `...Proofs` | theorems and their proofs about the module of that name (`TensorParallelProofs` also about its two parts, `ResponseSchedulerProofs` also about `SchedulerLocks`) | |
| `MC...` | finite instances | |

### PagePool and PagedCacheManager

Every method of the manager locks `pageIndexLocker` for its whole body, so each is
one action. `PagedCacheManager` keeps the data structures of the code: `freePages`
and `triePages` are sequences (their backs are popped), each with its set; a trie
node is named by the path of edge hashes that leads to it; `Record` iterates the loop
body over the pages. `PagePool` keeps what they mean: two sets, and a function
from prefixes to pages. A forward pass that fills a page is `FillPage` / `Fill`; a
page table (`Data::pageIndex`) is a holder. `content` is a history variable: the
prefix whose KV a page holds. It is what the properties are about, no action reads it.

The constant `Shorter` relates a prefix to its extensions; the proofs use only that
it is a strict order. `ImplementsPool` states that each step of the manager is a
step of the pool under a mapping that reads a trie path as the prompt it spells.

Left out: peeking at a page without picking it (`GetUnusedPageIndex(false)`), a
second `SetMaxPages`, copy-on-write of shared pages in some model families, and
callers that record a page before it is full (that is what `PrefixRecording` is
about). Text pages are taken to have distinct hashes, since the code compares no
tokens; media keys, which it does compare, may collide.

### PrefixRecording

All requests are prefixes of one text, so the published trie is a sequence. A
context has its tokens (`all`), the rows its pages hold (`rows`) and its page chain;
`filled` counts the rows of each page that a forward pass computed. `Recordable` is
the two branches of `TryRecordPagedCache`: with page keys the record is cut at the
computed rows (and the keys cover the prompt only, `qwen3_5_persistent.inc:298`),
without them it follows `allTokens`. A chunked prefill holds the loop between its
chunks, hence `Between`. A batch prefill is taken one request after the other.

### ResponseScheduler

A section under `dictLocker` is one action; what happens after the unlock is an
action of its own: the notification after a launch or a removal (`Notify`), the
forward pass (between `Select...` and `FinishForward`), the test of `isFree`
(`CheckFree`), the notification and the join of a shutdown. `waiting` is the wait set
of `dictCV`: `notify_one` removes any member, `notify_all` all. A wait with a deadline
may end at any time. `FetchResponseTokens` (the clients in `Polling`) keeps its
context pointer over its unlock: `FetchGone` is not for it, and `HandleOwned` is what
makes that safe.

One iteration of the loop up to its unlock is one of `CollectBurst`, `SelectPrefill`,
`SelectDecode` and `Rest`; all of them first sweep (`Kept`) and reject prompts that
are too long (`Swept`). Pages are not counted: with `Throttled` any of the candidates
may be passed over, as by the page and token budgets, and `Evictions` bounds the
evictions for recompute, longest context first. A token is the pair of the client
it was generated for and its number, so `OwnStream` sees mixed-up, lost and repeated
tokens.

Left out: logits (`FetchResponseLogits` is the polling fetch with a second queue),
statistics, multimodal batches, launches after a shutdown, spurious wake-ups.

### SchedulerLocks

`dictLocker` and `forwardLocker` as variables that hold their owner. A launch with a
history-cache hit locks the second with the first held; the loop in a chunked prefill
does the reverse.

### PrefixStore and CheckpointStore

A process has a program counter; the directory (blobs, commit files, half-written
files), the index (commits, references, intents) and the leases are shared. Each file
operation and each SQLite transaction is a step, and between any two of them a process
may be killed (`Kill`) or the power may go (`PowerLoss`), which loses the files that
were not synced. A step may also fail. The constant `RecoverKills` says whether a
process can be killed between the two transactions of `Recover`.

Taken as given, and said in the header: a `flock` goes with its process; a SQLite
transaction is atomic and durable when it returns, and so are the renames and unlinks
before it (an ordered journal); contents are durable after `fsync`; `AtomicWrite` (write,
sync, rename) is one step; the bytes of a session are what its caller estimated; a
process has one session at a time. Outside the model: `ListCheckpoints`, the forced
recovery by environment variable (the loss of the index stands for it), the transport of
a chunk. A reservation of a process that was killed is given back only by a
full recovery, which is what the code does.

### PrefixExport

A step is a critical section of the pipeline's mutex, or what the worker does between
two of them. Lengths are counted in chunks of one page; a bundle is the number of the
chunk it was copied from, or 0 when nothing held the page any more. A request may be
restored from GPU pages (`Adopted`), skipped for lack of room, evicted, removed; an
export may fail at each step. `Wait` sleeps on the condition variable of the worker.

Outside the model: `Prepare` and `Import` (the restore from disk), the capture in
`Restored`, and the cost profile that decides what is worth restoring.

### WorkerGroup, SubmitRendezvous and TensorParallel

`WorkerGroup` follows a call through `submitMutex`, the check of size and keys, stop,
join and creation of threads (which may fail part of the way), posting, the caller's own
share in `RunWithCaller`, the wait for the count, and the collection of the first
error. Condition variables are the sets of those who sleep on them. Nobody calls
`Stop` from inside a task.

`SubmitRendezvous` has the meeting before and after each submission, with its deadline,
a rank that disagrees on count or type, and a submission that fails. A failure is sticky:
the code never clears it, and neither does the model. Ranks that spin and ranks that sleep
are one wait. Inside stream capture the code bypasses the rendezvous.

`TensorParallel` lets them run side by side: a rank is in an AllReduce only while its
task runs.

### CustomAllReduce

Threads are the callers of each rank and, during the automatic selection, the threads
that measure candidates with the same rendezvous. `FastllmInitNccl` goes through
teardown, setup and selection; `Reset` bars new leases, waits for those that are out,
drains the devices and frees. A message may be misaligned or inside a capture on one
rank only; then all ranks must fall back together. The kernel of a rank ends when every
rank has launched its own.

One path stands for the six; the fall-back to NCCL is one step that returns (what it does
is `SubmitRendezvous`). Outside: kernel launches that fail, the push, WHT6 and TP2 variants,
the pipelined MLP, and the queries `Enabled` and `CanRun`. Every rank issues every
AllReduce of its stream; see the remarks for a rank that does not.

## What is checked

State counts are distinct states of the run.

| Run | Bounds | States | Shows |
|---|---|---|---|
| `page_pool` | 5 pages, 3 holders, 4 prefixes in a tree of depth 3 | 15,934 | the seven properties of the pool; deep enough for an idle inner node with idle and with held descendants, short enough of pages for every kind of eviction |
| `paged_cache_manager` | 5 pages, 2 holders, the same depth, a hash collision between text and media | about 14,200 | `Query` is exact; refinement of `PagePool` |
| `prefix_recording` | 3 requests, prompts of 1, 3 and 4 tokens, pages of 2, chunks of 1, 1 eviction, page keys, a record at every step | 349,172 | only computed rows are attended to; input is left; prompts are published |
| `scheduler_safety` | 3 clients (one polling), 1 request each, prompts that fit or not, limits of 1 to 3 tokens, batch of 2, 2 handles, bursts, interleaving, throttling, 1 eviction, a shutdown at any time | 1,426,979 | contexts in flight stay alive, handles and tokens are their client's, no context goes undelivered |
| `scheduler_service` | 2 clients (one polling) that launch forever, 3 handles, a batch of 2, outputs of 1 and 2 tokens, interleaving | 52,244 | no lost wake-up; service, the sweep of aborted requests, decode progress, and no deadlock at all |
| `scheduler_locks` | 3 launches, 1 prompt-cache warm-up, prompts of up to 3 chunks | 4,086 | copies exclude forward passes; every call returns unless the two mutexes are wanted in opposite orders |
| `prefix_store` | 2 processes, 2 checkpoints of two blobs each that share one, room for less than both and their slack, kills anywhere but in a recovery | 415,179 | no dangling checkpoint, durability, a complete index, the quota, sessions; refinement of `CheckpointStore` |
| `prefix_export` | 2 requests (3 chunks, one restored; 1 chunk, may start over), 2 ranks, a queue of 2, a budget of 3 pages, 1 checkpoint at a time, 1 image, 1 `Wait`, `Stop` | 400,740 | whole checkpoints, exact budgets, leased references; the queue drains and `Stop` returns |
| `tensor_parallel` | 2 callers with a call each, 2 devices in either order, 2 buffers, 1 AllReduce in a pass | 247,365 | ranks meet around each submission; no worker outlives its call; every call returns, with every outcome |
| `custom_allreduce` | 2 devices, a stream of a single and a two-tensor message, messages that are usable, misaligned or captured, 2 setups | 122,851 | nothing in use is freed; rounds agree; everything returns unless a setup splits the leases of a call |

In `scheduler_service` every client finds a place in the batch and all prompts have one
length: the selection takes the longest prompt first without aging, so with longer
prompts arriving forever a short one is not promised its turn. `HandleCount` is a
bound: in `scheduler_safety` the third client launches when a handle is free again,
which is what makes handles be reused.

Why the bounds are enough to meet the interesting cases: three clients make every pair
of roles meet with a third to disturb them; a batch of one or two is full at once; three
positions let a request prefill, decode and reach the limit. Two processes are a writer
and a collector, or a reader and a recovery; two checkpoints that share a blob are the
smallest directory in which collecting one could hurt the other. Two ranks and three
chunks give a job with several bundles on several ranks, jobs queued behind it, and one
that is skipped. Two callers with devices in either order make the group be reused,
stopped and rebuilt. Two setups are a replacement of a group that is in use. All bounds on
rounds, handles, evictions, calls, images and setups are guards or constants with these names.

Symmetry is used only without liveness: pages and holders in `page_pool`; pages and
holders in `paged_cache_manager`, with a view that keeps of the timestamps only which agree; the two
batch-fetching clients in `scheduler_safety`; processes in `prefix_store`.

`CHECK_DEADLOCK FALSE` is set where clients, processes or calls are bounded in number and
the system rests after them.

A type invariant is checked by a run for `PagePool` only; in the proofs of the other modules
the types are the first part of the inductive invariant.

### Disagreements

Two runs show disagreements between the code and what is said of it; each is a
counterexample of a few steps and a finding in `PROJECT.json`:

| Run | What happens |
|---|---|
| `prefix_recording_keyless` | without page keys, a request that ends when its last sampled token completes a page publishes a row nobody computed |
| `prefix_store_recover_killed` | a process killed between the two transactions of `Recover` leaves an index that looks clean and misses commits; a later collection removes a blob that one of them shares |

`prefix_recording` holds with page keys and `prefix_store` without kills in `Recover`:
each of these conditions is exactly what its violation run drops.

### Behaviour that was met on the way

Known from the models, and not stated as properties:

- A launch with a history-cache hit holds `dictLocker` and takes `forwardLocker`
  (`basellm.cpp:3280, 3305`); the loop in a chunked prefill holds the second and takes the
  first (2557, 2581, 2637). `ReturnsUnlessInverted` names this inversion as its only exception.
- `isFree` is tested outside the lock (1723) before an untimed wait (2774): a shutdown in
  between is not noticed. The return of `ShutdownRuntime` is therefore not a property.
- A prompt that is too long ends its context without a notification (1950), so
  `NoLostWakeup` is stated for prompts that fit.
- A `FetchResponseTokensBatch` (3441) that sleeps while another thread aborts its request
  finds whichever request reused the handle; in the model a client aborts between its fetches.
- A failure of the rendezvous is never cleared: later AllReduces of the group fail at once.
- A maintenance that a caller runs while its own read session is open cannot take the
  lease (`LOCK_NB`) and fails without harm.
- `Reset` of the custom AllReduce (`fastllm-custom-allreduce.cu:2288-2295`) waits for leases.
  When a setup comes between the leases of two ranks for one AllReduce, the one that has its
  lease waits for the other in the rendezvous (1245), the other was refused, and `Reset` waits
  for the first. `ReductionsEnd` excepts exactly this (`Split`).
- `rankCallSequence` (1177) is to refuse "a desynchronised call stream" (1196). It counts the
  rounds a rank took part in, and a round takes one arrival of each rank, so the counters
  agree even when a rank left a call out, as `FastllmNcclAllReduceImpl` does for `count <= 0`
  (`fastllm-multicuda.cu:3503`). The model has every rank issue every AllReduce.

### Fairness

| Specification | Fair | Justified by |
|---|---|---|
| `ResponseScheduler` | the loop's steps and the end of its timed waits; a client goes on fetching what it launched; a shutdown that was begun | a thread of the process; waits with a deadline; a client reads its answer |
| `SchedulerLocks` | the loop and every caller | each calls once, so weak fairness on taking a mutex means one that stays unlocked is taken |
| `PrefixExport` | the worker, a woken waiter, the steps of `Stop` | threads of the process; no timeout of `Wait` is needed |
| `TensorParallel` | some step of the system, while one is possible (`Progress`) | the threads do not all stop; a wait in an AllReduce has a timeout |
| `CustomAllReduce` | the steps of a setup, the end of kernels, a call in progress, the next AllReduce of a rank | every rank issues every AllReduce of its pass; kernels end when all ranks launched |

Launching, aborting, capturing, failing and setting up are not fair: nobody is obliged to.
Weak fairness is enough everywhere; no lock is assumed to be fair under endless contention.

## What is proved

Eight modules hold theorems, for every value of the constants that satisfies the
assumption named in the module they are about:

| Module | Theorems (property) | Inductive invariant |
|---|---|---|
| `PagePoolProofs` | all properties of `page_pool` | `IInv` |
| `PagedCacheManagerProofs` | `QueryExact`, `ImplementsPool` | `Linked`: `Stacks`, `Chains`, `Nodes` and the pool's `IInv` |
| `PrefixRecordingProofs` | `InputLeft`, `PromptPublished`, and `AttendsComputed` with page keys (`Keyed`) | `Typed`, `Placed`, `Sound` |
| `ResponseSchedulerProofs` | `InFlightLive`, `HandleOwned`, `OwnStream`, `LeavesDelivered`, `NoLostWakeup`; `CopiesExcluded` of `SchedulerLocks` | `IInv`, then `Asleep`; `LockInv` |
| `PrefixStoreProofs` | `NoDangling`, `AckedKept`, `IndexComplete`, `SessionProtected`, `ImplementsStore`, `QuotaKept`, each if nobody is killed in `Recover` | `StoreInv`, then `QuotaInv` |
| `PrefixExportProofs` | `WholeCheckpoints`, `RefsLeased`, `Accounted` | `ExportInv`, then `AccountInv` |
| `TensorParallelProofs` | `BorrowedAlive`, `ReturnsComplete`, `NoneAhead`, `SubmitTogether`, of the parts and in the whole pass; refinement of `WorkerGroup` and of `SubmitRendezvous` | `PoolInv`, `GateInv`, `Tasked` |
| `CustomAllReduceProofs` | `InUseAlive`, `RoundsAgree` | `CallInv` |

Each proof has one lemma per action. The arguments:

- **Page pool.** That a page is not rewritten under a reader (`CacheCoherent`) needs that
  only available pages are handed out, that available means unused (`Partition`), and that
  eviction unpublishes what it takes, for which the back pointers must be exact
  (`TrieInverse`); `Partition` needs the counts (`RefCounted`), these need that a request's
  tail page is its own; and `Record` keeps `TrieInverse` only if two holders never hold one
  page for different prefixes, which is `CacheCoherent` again. So `IInv` is their
  conjunction with one more part, that the full pages of a holder form a chain.
- **Manager.** `Linked` says that the vectors list the sets beside them (`Stacks`), that a
  page chain has the pages of its blocks (`Chains`), that some prompt spells every node, by
  hashes and by media keys, and that a node has the timestamp of its page (`Nodes`); and
  that the pool these structures mean has `PagePool`'s invariant. Hash and key together
  identify a block, so a node has one prompt, and each call is a step of the pool. The
  pool's invariant is carried over by that step, not proved again. For `Record` a second
  invariant, over the iterations of its loop (`StateAt`), says what each structure is after
  `k` pages and that a collision stops it between two pages. `QueryExact` follows: `Passes`
  and `Spells` agree on every node, because no node is left with an old timestamp.
- **Recording.** `Placed` ties the phase of a request to its rows and its page chain: what a
  restore takes are full pages of the published chain and fewer rows than tokens. `Sound`
  says that a page which a request did not fill itself in its present run is full. Without
  page keys `Sound` is not inductive, which is the disagreement of `prefix_recording_keyless`.
- **Locks.** `LockInv` says where the owner of each of the two mutexes can be.
- **Scheduler.** A live client and its context point at each other, and the tokens fetched,
  queued and generated are one sequence; four properties follow. On top of it, for prompts that
  fit, `Asleep` says that a loop in an untimed wait is the only waiter, so that no
  `notify_one` can miss it.
- **Prefix store.** The shared and the exclusive lease keep sessions and the collector
  apart (`Leases`, `Apart`). A session vouches for the blobs it verified and the commit it
  publishes (`Session`, `Publication`). A commit file that the index does not list is known
  to an intent, or is ahead of the scan of a recovery (`Indexed`, `Scanned`), and a
  collection removes only blobs no other listed commit refers to (`Collected`). The refinement
  follows from the same invariant: a commit file appears in one step and goes in one step.
- **Quota.** On top of it, a session claims what it has reserved and not turned into files
  yet (`Claim`). Files and claims together stay within the limit (`Taken`): a session pays
  for a file out of its claim, which is never topped up, because the reservation covers what
  the session has still to do (`Ledger`), and the claim goes down in the same step as the
  file appears although the reservation goes down only when the transaction commits. When a
  session begins, what the index counts is at least what is there, because an index without
  a dead intent lists every chunk file (`Listed`) and counts the reservations of killed
  sessions, which cover what they staged. The sums over processes need lemmas of their own
  about the fold of `FiniteSetsExt`: they are in the same module.
- **Export.** The jobs of a request that did not fail follow each other without a gap: the
  first begins where the stored references end, or where the job in hand will end, each
  further one where the one before it ended, and the last ends at `issued` (`Chain`). What
  is left of the job in hand is what is not stored of it (`InHand`), so a job that reaches
  its commit has stored everything. A page is copied while its job holds it, so no bundle is
  another's data.
- **Budgets.** On top of it, the leases, snapshots and checkpoints of the queued jobs are
  counted by position in the queue (`Spread`, `Chosen`), with the job in hand beside them.
  An append adds one job to these sets and a take moves one job from the queue to the
  worker; taking the head shifts all positions, so the counts are compared by a bijection. A
  page released before its bundle is stored is one the job still held (`InHand`), so
  `Settle` gives back exactly the rest.
- **Worker group.** For every place of the caller that holds `submitMutex`, `Stage` says
  what workers may do then: nothing unless a task is posted, and with a posted task each
  worker has it ahead, in hand, or behind it, which `finishedCount` counts.
- **Rendezvous.** The meetings a rank has come to determine its submissions and its place;
  the counts survive a failure because a failure freezes the epoch.
- **Tensor parallelism.** A pass is a behaviour of both parts at once. The step of a rank is a
  step of the rendezvous because a running task belongs to the call in progress and so
  has a device (`Tasked`).
- **Custom AllReduce.** A lease keeps the state it was granted on. Leases are all of requests
  or all of the selection, so a rank has at most one and a full round contains every
  thread with a lease; nobody is still to learn the result of an earlier round.

Every invariant that a passing run checks is also proved. Only model-checked: the liveness
properties, since the prover treats neither fairness nor `ENABLED`.

## Not modelled, and why

- **Old engine loop**: the same table, locks and notifications as the new engine, with
  admission by token counts; what it adds (reading the first context without the lock,
  `basellm.cpp:3157`) is a hazard without a property.
- **History KV cache**: a small map with an LRU limit under `dictLocker`; its locks are in
  `SchedulerLocks`.
- **Admission by pages** (`canAddPrefill`, `pagesLimit`): `PagePool` and
  `ResponseScheduler` are not composed; `Throttled` over-approximates admission for safety, and
  liveness is checked with room for everybody.
- **Model-specific schedulers**: `qwen3_5.cpp` and `deepseekv4.cpp` mix their loops with
  tensors and kernels at every step.
- **Image embedding cache** and **MoE decode scheduler**: plain LRU structures, each operation
  one critical section or one caller, which unit tests reach.
- **AliveThreadPool**: one slot per worker with one producer, handed over by two counters.
- **Kernels, model graphs, executor, graph**: tensor arithmetic, nothing a small state space
  says about them. They are most of the lines of the repository.
- **Text processing, server, user interfaces, scripts, vendored code**: no shared state of
  their own, or not part of the engine. A client of the server is taken to abort between
  two fetches.

## Plan

Done: the twelve modules above with their runs, and the eight proof modules. In this order
if the project grows:

1. `Prepare` and `Import` of the persistent cache, composed with `PrefixStore`: a restore
   that races an eviction.
2. `PagePool` composed with the selection loop, for `pagesLimit`, `canAddPrefill` and
   eviction for recompute: can a pending request stay unscheduled?
3. The old engine loop as a second implementation of the scheduler's properties.
