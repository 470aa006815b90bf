----------------------------- MODULE WorkerGroup -----------------------------
(***************************************************************************)
(* PersistentWorkerGroup (include/utils/persistent_worker_group.h): the    *)
(* threads that run one task per device.  Callers hold submitMutex for a   *)
(* whole call; what callers and workers share is under mutex, and each     *)
(* critical section of it is one step, with the notification right after   *)
(* it.  The condition variables are modelled by who sleeps on them, so     *)
(* that a notification can be missed.                                      *)
(* A task body is its state: it starts, and ends with or without an        *)
(* exception.                                                              *)
(***************************************************************************)
EXTENDS Naturals, Sequences, FiniteSets

CONSTANTS
  Caller,    \* threads that use the group
  Keys,      \* Keys[c]: workerKeys c may call with, one device for each worker
  MaxCalls,  \* bound: calls of one caller
  NoCaller

CallerAssumption ==
  /\ NoCaller \notin Caller /\ MaxCalls \in Nat
  /\ \A c \in Caller : \A ks \in Keys[c] : Len(ks) \in Nat \ {0}

VARIABLES
  \* the group
  submitter,      \* holder of submitMutex
  workers,        \* how many threads are in workers
  keys,
  stop,
  taskId,
  current,        \* currentTask and currentErrors: those of this caller
  activeCount,
  finishedCount,
  skipped,        \* whether skippedWorkerRank is 0
  doneAsleep,     \* the submitter sleeps on doneCv
  \* callers
  at,             \* where each caller is
  request,        \* its call
  called,         \* its calls so far
  errors,         \* its errors
  \* workers
  thread,         \* where each worker is, "none" if there is no such thread
  last,           \* lastTaskId
  job,            \* its copy of currentTask and currentErrors
  skip,           \* its skipTask
  body,           \* the task of each rank: "idle", "running", "ok" or "failed"
  ran             \* history: how often each rank ran the current task

shared == <<workers, keys, stop, taskId, current, activeCount, finishedCount, skipped>>
callers == <<at, request, called, errors>>
threads == <<thread, last, job, skip>>
tasks == <<body, ran>>
poolVars == <<submitter, shared, doneAsleep, callers, threads, tasks>>

Sizes == {Len(ks) : ks \in UNION {Keys[c] : c \in Caller}}
Ranks == UNION {0..n - 1 : n \in Sizes}

NoCall == [op |-> "none", keys |-> <<>>]
Calls(c) ==
  [op : {"Run", "RunWithCaller"}, keys : Keys[c]] \cup {[op |-> "Stop", keys |-> <<>>]}

\* The ranks of the call of c.
Team(c) == 0..Len(request[c].keys) - 1

PoolInit ==
  /\ submitter = NoCaller
  /\ workers = 0 /\ keys = <<>> /\ stop = FALSE /\ taskId = 0
  /\ current = NoCaller /\ activeCount = 0 /\ finishedCount = 0 /\ skipped = FALSE
  /\ doneAsleep = FALSE
  /\ at = [c \in Caller |-> "out"]
  /\ request = [c \in Caller |-> NoCall]
  /\ called = [c \in Caller |-> 0]
  /\ errors = [c \in Caller |-> [r \in Ranks |-> "idle"]]
  /\ thread = [r \in Ranks |-> "none"]
  /\ last = [r \in Ranks |-> 0]
  /\ job = [r \in Ranks |-> NoCaller]
  /\ skip = [r \in Ranks |-> FALSE]
  /\ body = [r \in Ranks |-> "idle"]
  /\ ran = [r \in Ranks |-> 0]

Go(c, place) == at' = [at EXCEPT ![c] = place]

\* cv.notify_all()
NotifyAll == thread' = [r \in Ranks |-> IF thread[r] = "asleep" THEN "loop" ELSE thread[r]]
-----------------------------------------------------------------------------
(* Calls *)

Call(c) ==
  /\ at[c] = "out" /\ called[c] < MaxCalls
  /\ called' = [called EXCEPT ![c] = @ + 1]
  /\ \E q \in Calls(c) : request' = [request EXCEPT ![c] = q]
  /\ Go(c, "submit")
  /\ UNCHANGED <<submitter, shared, doneAsleep, errors, threads, tasks>>

\* The workers are the right ones.
Fitting(c) == ~stop /\ keys = request[c].keys /\ workers = Len(request[c].keys)

\* submitMutex, and what EnsureLocked finds: the workers do, or all are replaced.
LockSubmit(c) ==
  /\ at[c] = "submit" /\ submitter = NoCaller
  /\ submitter' = c
  /\ Go(c, IF request[c].op # "Stop" /\ Fitting(c) THEN "post" ELSE "stopping")
  /\ UNCHANGED <<shared, doneAsleep, request, called, errors, threads, tasks>>

\* The call returns, or throws.
CallReturns(c) ==
  /\ submitter' = NoCaller
  /\ request' = [request EXCEPT ![c] = NoCall]
  /\ errors' = [errors EXCEPT ![c] = [r \in Ranks |-> "idle"]]
  /\ Go(c, "out")
  /\ UNCHANGED called

\* Mutant of Cleared: the task count goes on.
ClearedCounting ==
  /\ stop' = FALSE /\ current' = NoCaller /\ UNCHANGED taskId
  /\ activeCount' = 0 /\ finishedCount' = 0 /\ skipped' = FALSE

Cleared ==
  /\ stop' = FALSE /\ taskId' = 0 /\ current' = NoCaller
  /\ activeCount' = 0 /\ finishedCount' = 0 /\ skipped' = FALSE

\* StopLocked ends; EnsureLocked goes on with the new keys.  The workers it
\* creates start with lastTaskId 0.
Stopped(c) ==
  /\ Cleared
  /\ keys' = request[c].keys /\ workers' = 0
  /\ IF request[c].op = "Stop" THEN CallReturns(c)
     ELSE Go(c, "create") /\ UNCHANGED <<submitter, request, called, errors>>

NothingToStop(c) ==
  /\ at[c] = "stopping" /\ workers = 0
  /\ Stopped(c)
  /\ UNCHANGED <<doneAsleep, threads, tasks>>

StopLocked(c) ==
  /\ at[c] = "stopping" /\ workers > 0
  /\ stop' = TRUE
  /\ keys' = <<>>
  /\ NotifyAll
  /\ Go(c, "join")
  /\ UNCHANGED <<submitter, workers, taskId, current, activeCount, finishedCount, skipped,
                 doneAsleep, request, called, errors, last, job, skip, tasks>>

\* Every thread is joined, then the state is cleared.
AllGone == \A r \in Ranks : thread[r] \in {"none", "exited"}

Joined(c) ==
  /\ at[c] = "join" /\ AllGone
  /\ thread' = [r \in Ranks |-> "none"]
  /\ Stopped(c)
  /\ UNCHANGED <<doneAsleep, last, job, skip, tasks>>

CreateThread(c, r) ==
  /\ at[c] = "create"
  /\ r \in Team(c) /\ thread[r] = "none" /\ \A s \in 0..r - 1 : thread[s] # "none"
  /\ thread' = [thread EXCEPT ![r] = "loop"]
  /\ last' = [last EXCEPT ![r] = 0]
  /\ UNCHANGED <<submitter, shared, doneAsleep, callers, job, skip, tasks>>

\* std::thread throws: those that started are stopped and joined.
CreateFails(c) ==
  /\ at[c] = "create"
  /\ \E r \in Team(c) : thread[r] = "none"
  /\ stop' = TRUE
  /\ NotifyAll
  /\ Go(c, "unwind")
  /\ UNCHANGED <<submitter, workers, keys, taskId, current, activeCount, finishedCount, skipped,
                 doneAsleep, request, called, errors, last, job, skip, tasks>>

Unwound(c) ==
  /\ at[c] = "unwind" /\ AllGone
  /\ thread' = [r \in Ranks |-> "none"]
  /\ stop' = FALSE /\ keys' = <<>>
  /\ CallReturns(c)
  /\ UNCHANGED <<workers, taskId, current, activeCount, finishedCount, skipped, doneAsleep,
                 last, job, skip, tasks>>

Created(c) ==
  /\ at[c] = "create"
  /\ \A r \in Team(c) : thread[r] # "none"
  /\ workers' = Cardinality(Team(c))
  /\ Go(c, "post")
  /\ UNCHANGED <<submitter, keys, stop, taskId, current, activeCount, finishedCount, skipped,
                 doneAsleep, request, called, errors, threads, tasks>>

\* Mutant of Post: a caller that runs rank 0 itself does not wait for worker 0.
PostOneLess(c) ==
  /\ at[c] = "post"
  /\ current' = c
  /\ activeCount' = Len(request[c].keys) - (IF request[c].op = "RunWithCaller" THEN 1 ELSE 0)
  /\ finishedCount' = 0
  /\ skipped' = (request[c].op = "RunWithCaller")
  /\ taskId' = taskId + 1
  /\ ran' = [r \in Ranks |-> 0]
  /\ NotifyAll
  /\ Go(c, IF request[c].op = "RunWithCaller" THEN "self" ELSE "collect")
  /\ UNCHANGED <<submitter, workers, keys, stop, doneAsleep, request, called, errors,
                 last, job, skip, body>>

\* The task is handed over ..
Post(c) ==
  /\ at[c] = "post"
  /\ current' = c
  /\ activeCount' = Len(request[c].keys)
  /\ finishedCount' = 0
  /\ skipped' = (request[c].op = "RunWithCaller")
  /\ taskId' = taskId + 1
  /\ ran' = [r \in Ranks |-> 0]
  /\ NotifyAll
  /\ Go(c, IF request[c].op = "RunWithCaller" THEN "self" ELSE "collect")
  /\ UNCHANGED <<submitter, workers, keys, stop, doneAsleep, request, called, errors,
                 last, job, skip, body>>

Start(r) == body' = [body EXCEPT ![r] = "running"] /\ ran' = [ran EXCEPT ![r] = @ + 1]

\* .. the caller runs rank 0 itself ..
RunSelf(c) ==
  /\ at[c] = "self"
  /\ Start(0)
  /\ Go(c, "running")
  /\ UNCHANGED <<submitter, shared, doneAsleep, request, called, errors, threads>>

SelfDone(c) ==
  /\ at[c] = "running" /\ body[0] \in {"ok", "failed"}
  /\ errors' = [errors EXCEPT ![c][0] = body[0]]
  /\ body' = [body EXCEPT ![0] = "idle"]
  /\ Go(c, "collect")
  /\ UNCHANGED <<submitter, shared, doneAsleep, request, called, threads, ran>>

\* .. and waits for the others.
Collect(c) ==
  /\ at[c] = "collect" /\ ~doneAsleep
  /\ finishedCount < activeCount
  /\ doneAsleep' = TRUE
  /\ UNCHANGED <<submitter, shared, callers, threads, tasks>>

Settle(c) ==
  /\ at[c] = "collect" /\ ~doneAsleep
  /\ finishedCount >= activeCount
  /\ current' = NoCaller /\ activeCount' = 0 /\ finishedCount' = 0 /\ skipped' = FALSE
  /\ CallReturns(c)
  /\ UNCHANGED <<workers, keys, stop, taskId, doneAsleep, threads, tasks>>
-----------------------------------------------------------------------------
(* WorkerLoop *)

Sleep(r) ==
  /\ thread[r] = "loop" /\ ~stop /\ taskId = last[r]
  /\ thread' = [thread EXCEPT ![r] = "asleep"]
  /\ UNCHANGED <<submitter, shared, doneAsleep, callers, last, job, skip, tasks>>

Exit(r) ==
  /\ thread[r] = "loop" /\ stop
  /\ thread' = [thread EXCEPT ![r] = "exited"]
  /\ UNCHANGED <<submitter, shared, doneAsleep, callers, last, job, skip, tasks>>

\* The worker copies the task and what comes with it; a skipped one only counts.
Accept(r) ==
  /\ thread[r] = "loop" /\ ~stop /\ taskId # last[r]
  /\ last' = [last EXCEPT ![r] = taskId]
  /\ job' = [job EXCEPT ![r] = current]
  /\ skip' = [skip EXCEPT ![r] = skipped /\ r = 0]
  /\ thread' = [thread EXCEPT ![r] = "busy"]
  /\ IF skipped /\ r = 0 THEN UNCHANGED tasks ELSE Start(r)
  /\ UNCHANGED <<submitter, shared, doneAsleep, callers>>

\* The worker stores its exception and counts; the last one wakes the caller.
Report(r) ==
  /\ thread[r] = "busy"
  /\ skip[r] \/ body[r] \in {"ok", "failed"}
  /\ thread' = [thread EXCEPT ![r] = "loop"]
  /\ finishedCount' = finishedCount + 1
  /\ doneAsleep' = (doneAsleep /\ finishedCount + 1 < activeCount)
  /\ IF ~skip[r] /\ job[r] # NoCaller
     THEN errors' = [errors EXCEPT ![job[r]][r] = body[r]]
     ELSE UNCHANGED errors
  /\ body' = IF skip[r] THEN body ELSE [body EXCEPT ![r] = "idle"]
  /\ job' = [job EXCEPT ![r] = NoCaller]
  /\ skip' = [skip EXCEPT ![r] = FALSE]
  /\ UNCHANGED <<submitter, workers, keys, stop, taskId, current, activeCount, skipped, at,
                 request, called, last, ran>>

Worker(r) == Sleep(r) \/ Exit(r) \/ Accept(r) \/ Report(r)

\* The task of r ends.
End(r, outcome) ==
  /\ body[r] = "running"
  /\ body' = [body EXCEPT ![r] = outcome]
  /\ UNCHANGED <<submitter, shared, doneAsleep, callers, threads, ran>>

\* What a caller inside a call does next.
InCall(c) ==
  \/ LockSubmit(c) \/ NothingToStop(c) \/ StopLocked(c) \/ Joined(c)
  \/ \E r \in Ranks : CreateThread(c, r)
  \/ Unwound(c) \/ Created(c) \/ Post(c)
  \/ RunSelf(c) \/ SelfDone(c) \/ Collect(c) \/ Settle(c)

PoolStep ==
  \/ \E c \in Caller : Call(c) \/ InCall(c) \/ CreateFails(c)
  \/ \E r \in Ranks : Worker(r)

PoolNext == PoolStep \/ \E r \in Ranks : \E outcome \in {"ok", "failed"} : End(r, outcome)

PoolSpec == PoolInit /\ [][PoolNext]_poolVars
-----------------------------------------------------------------------------
Busy(r) == thread[r] = "busy"

\* A worker uses the task and the errors of a caller, both of which live on the
\* stack of the caller, only while the call lasts.
BorrowedAlive ==
  \A r \in Ranks : Busy(r) =>
    /\ job[r] # NoCaller
    /\ submitter = job[r] /\ at[job[r]] \in {"self", "running", "collect"}

\* A call that ran a task returns when every rank has run it, with the outcome of each.
ReturnsComplete ==
  [][\A c \in Caller : Settle(c) =>
       \A r \in Team(c) : ran[r] = 1 /\ errors[c][r] \in {"ok", "failed"}]_poolVars
=============================================================================
