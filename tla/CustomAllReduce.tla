--------------------------- MODULE CustomAllReduce ---------------------------
(***************************************************************************)
(* The graph-safe custom AllReduce                                         *)
(* (src/devices/multicuda/fastllm-custom-allreduce.cu) and FastllmInitNccl *)
(* that sets it up and tears it down (fastllm-multicuda.cu): the leases of *)
(* the calls, the rendezvous in which the ranks register their tensors and *)
(* agree to launch or to fall back to NCCL, the private calls of the       *)
(* automatic selection, and Reset, which drains the devices and frees what *)
(* the kernels use.                                                        *)
(*                                                                         *)
(* A critical section of state.mutex is one step.  The kernel of a rank    *)
(* ends when every rank has launched its own: they meet on the devices.    *)
(* All messages are of one path, of one data type and size class.          *)
(***************************************************************************)
EXTENDS Integers, Sequences, FiniteSets

CONSTANTS
  Rank,       \* the devices
  Stream,     \* Stream[k]: the tensors the k-th AllReduce of a pass reduces together
  Bench,      \* the tensor of the automatic selection
  Shape,      \* Shape[x]: count and type of tensor x
  Kinds,      \* what an arriving rank may find, of AllKinds
  MaxSetups,  \* bound: calls of FastllmInitNccl
  NoTensor

\* Its pointers are usable, misaligned or null; its stream is captured, or the
\* query for that fails.
AllKinds == {"usable", "misaligned", "capturing", "unknown"}

ASSUME CustomAssumption ==
  /\ IsFiniteSet(Rank) /\ Rank # {}
  /\ Kinds \subseteq AllKinds
  /\ MaxSetups \in Nat
  /\ NoTensor \notin DOMAIN Shape

VARIABLES
  ncclGeneration,  \* g_ncclGeneration
  setup,           \* where FastllmInitNccl is
  setups,          \* calls of it so far
  \* CustomArState
  resetting, initializing, initAttempted, initialized,
  enabled,         \* runtimeEnabled and enabledPaths
  ownGeneration,   \* its ncclGeneration
  memory,          \* its allocations: "none", "live" or, detached, "draining"
  activeCalls,
  registrations,   \* tuples of tensors, one of each rank
  generation, arrived,
  pendingShape, pendingMismatch,
  pending,         \* pendingInputs, pendingAligned, pendingCapturing and pendingSequences
  rankCallSequence,
  lastOk,          \* lastRegistrationOk
  \* threads
  pc, call, part, waitGeneration,
  verdict,         \* of the last round each of them left in its call
  \* devices
  launched,        \* kernels launched by each rank
  finished         \* kernels that have ended, on every rank

group == <<ncclGeneration, setup, setups>>
life == <<resetting, initializing, initAttempted, initialized, enabled, ownGeneration, memory>>
round == <<generation, arrived, pendingShape, pendingMismatch, pending, rankCallSequence, lastOk>>
threads == <<pc, call, part, waitGeneration, verdict>>
device == <<launched, finished>>
vars == <<group, life, activeCalls, registrations, round, threads, device>>

\* A rank has a thread that serves requests and one of the automatic selection.
Thread == [rank : Rank, private : BOOLEAN]
Public == {t \in Thread : ~t.private}
Private == Thread \ Public

StreamOf(t) == IF t.private THEN <<<<Bench>>>> ELSE Stream
Inputs(t) == StreamOf(t)[call[t]]
Tensor(t) == Inputs(t)[part[t]]

NoEntry == [tensor |-> NoTensor, kind |-> "usable", sequence |-> 0]
NoPending == [r \in Rank |-> NoEntry]

Init ==
  /\ ncclGeneration = 0 /\ setup = "idle" /\ setups = 0
  /\ resetting = FALSE /\ initializing = FALSE /\ initAttempted = FALSE
  /\ initialized = FALSE /\ enabled = FALSE /\ ownGeneration = 0 /\ memory = "none"
  /\ activeCalls = 0 /\ registrations = {}
  /\ generation = 0 /\ arrived = 0 /\ pendingShape = NoTensor /\ pendingMismatch = FALSE
  /\ pending = NoPending /\ rankCallSequence = [r \in Rank |-> 0] /\ lastOk = FALSE
  /\ pc = [t \in Thread |-> "out"]
  /\ call = [t \in Thread |-> 0] /\ part = [t \in Thread |-> 1]
  /\ waitGeneration = [t \in Thread |-> 0] /\ verdict = [t \in Thread |-> "none"]
  /\ launched = [r \in Rank |-> 0] /\ finished = 0

Go(t, place) == pc' = [pc EXCEPT ![t] = place]
Drained == \A r \in Rank : launched[r] = finished
-----------------------------------------------------------------------------
(* A call *)

AllReduce(t) ==
  /\ pc[t] = "out" /\ call[t] < Len(StreamOf(t))
  /\ t.private => setup = "tuning"
  /\ call' = [call EXCEPT ![t] = @ + 1]
  /\ part' = [part EXCEPT ![t] = 1]
  /\ verdict' = [verdict EXCEPT ![t] = "none"]
  /\ Go(t, "acquire")
  /\ UNCHANGED <<group, life, activeCalls, registrations, round, waitGeneration, device>>

\* CustomArCallLease::Acquire
Granted(t) ==
  /\ ~resetting /\ initialized /\ ownGeneration = ncclGeneration
  /\ t.private \/ enabled

Acquire(t) ==
  /\ pc[t] = "acquire"
  /\ IF Granted(t) THEN activeCalls' = activeCalls + 1 /\ Go(t, "arrive")
     ELSE Go(t, "nccl") /\ UNCHANGED activeCalls
  /\ UNCHANGED <<group, life, registrations, round, call, part, waitGeneration, verdict, device>>

\* The caller of a refused call reduces with NCCL.
Nccl(t) ==
  /\ pc[t] = "nccl"
  /\ Go(t, "out")
  /\ UNCHANGED <<group, life, activeCalls, registrations, round, call, part, waitGeneration,
                 verdict, device>>

\* t learns the result of its round.
Result(t, ok) ==
  /\ verdict' = [verdict EXCEPT ![t] = IF ok THEN "launch" ELSE "fallback"]
  /\ part' = [part EXCEPT ![t] = IF ok /\ @ < Len(Inputs(t)) THEN @ + 1 ELSE @]
  /\ Go(t, IF ~ok THEN "release" ELSE IF part[t] < Len(Inputs(t)) THEN "arrive" ELSE "launch")

Open(ok) ==
  /\ lastOk' = ok
  /\ arrived' = 0
  /\ generation' = generation + 1

\* The registry as the last rank of a round finds it, p being what is pending then.
Key(p) == [r \in Rank |-> p[r].tensor]
Capturing(p) == \E r \in Rank : p[r].kind = "capturing"

Valid(p, mismatch) ==
  /\ ~mismatch
  /\ \A r \in Rank : p[r].tensor # NoTensor /\ p[r].kind # "misaligned"
  /\ \A r, q \in Rank : p[r].sequence = p[q].sequence

\* FindOrRegisterCustomArPointers.  The first rank of a round clears what is
\* pending; the last one decides for all, or registers the tensors without the lock.
Arrive(t, kind) ==
  LET r == t.rank
      first == arrived = 0
      before == IF first THEN NoPending ELSE pending
      twice == before[r].tensor # NoTensor
      entry == [tensor |-> Tensor(t), kind |-> kind, sequence |-> rankCallSequence[r]]
      now == IF twice THEN before ELSE [before EXCEPT ![r] = entry]
      mismatch == \/ ~first /\ (pendingMismatch \/ pendingShape # Shape[Tensor(t)])
                  \/ twice \/ kind = "unknown"
      known == Key(now) \in registrations
  IN
  /\ pc[t] = "arrive"
  /\ waitGeneration' = [waitGeneration EXCEPT ![t] = generation]
  /\ pendingShape' = IF first THEN Shape[Tensor(t)] ELSE pendingShape
  /\ pending' = now
  /\ pendingMismatch' = mismatch
  /\ rankCallSequence' = IF twice THEN rankCallSequence ELSE [rankCallSequence EXCEPT ![r] = @ + 1]
  /\ \/ /\ arrived + 1 # Cardinality(Rank)
        /\ arrived' = arrived + 1
        /\ Go(t, "wait")
        /\ verdict' = [verdict EXCEPT ![t] = "none"]
        /\ UNCHANGED <<generation, lastOk, part>>
     \/ /\ arrived + 1 = Cardinality(Rank)
        /\ Valid(now, mismatch) /\ ~known /\ ~Capturing(now)
        /\ arrived' = arrived + 1
        /\ Go(t, "build")
        /\ verdict' = [verdict EXCEPT ![t] = "none"]
        /\ UNCHANGED <<generation, lastOk, part>>
     \/ /\ arrived + 1 = Cardinality(Rank)
        /\ ~Valid(now, mismatch) \/ known \/ Capturing(now)
        /\ LET ok == Valid(now, mismatch) /\ known IN Open(ok) /\ Result(t, ok)
  /\ UNCHANGED <<group, life, activeCalls, registrations, call, device>>

\* BuildCustomArRegistration, which drains the devices, succeeds or fails.
Build(t, ok) ==
  /\ pc[t] = "build" /\ Drained
  /\ registrations' = IF ok THEN registrations \cup {Key(pending)} ELSE registrations
  /\ Open(ok)
  /\ Result(t, ok)
  /\ UNCHANGED <<group, life, activeCalls, pendingShape, pendingMismatch, pending,
                 rankCallSequence, call, waitGeneration, device>>

\* Mutant of Leave: a rank that is being captured falls back by itself.
LeaveAlone(t) ==
  /\ pc[t] = "wait" /\ generation # waitGeneration[t]
  /\ Result(t, lastOk /\ pending[t.rank].kind # "capturing")
  /\ UNCHANGED <<group, life, activeCalls, registrations, round, call, waitGeneration, device>>

Leave(t) ==
  /\ pc[t] = "wait" /\ generation # waitGeneration[t]
  /\ Result(t, lastOk)
  /\ UNCHANGED <<group, life, activeCalls, registrations, round, call, waitGeneration, device>>

Launch(t) ==
  /\ pc[t] = "launch"
  /\ launched' = [launched EXCEPT ![t.rank] = @ + 1]
  /\ Go(t, "release")
  /\ UNCHANGED <<group, life, activeCalls, registrations, round, call, part, waitGeneration,
                 verdict, finished>>

\* Mutant of Release: a call that falls back keeps its lease.
ReleaseLaunched(t) ==
  /\ pc[t] = "release"
  /\ activeCalls' = IF verdict[t] = "launch" THEN activeCalls - 1 ELSE activeCalls
  /\ Go(t, IF verdict[t] = "launch" THEN "out" ELSE "nccl")
  /\ UNCHANGED <<group, life, registrations, round, call, part, waitGeneration, verdict, device>>

\* The lease ends with the call.
Release(t) ==
  /\ pc[t] = "release"
  /\ activeCalls' = activeCalls - 1
  /\ Go(t, IF verdict[t] = "launch" THEN "out" ELSE "nccl")
  /\ UNCHANGED <<group, life, registrations, round, call, part, waitGeneration, verdict, device>>

InCall(t) ==
  \/ Acquire(t) \/ Nccl(t) \/ Leave(t) \/ Launch(t) \/ Release(t)
  \/ \E kind \in Kinds : Arrive(t, kind)
  \/ \E ok \in BOOLEAN : Build(t, ok)

\* The kernels the ranks launched next have met.
Finish ==
  /\ \A r \in Rank : launched[r] > finished
  /\ finished' = finished + 1
  /\ UNCHANGED <<group, life, activeCalls, registrations, round, threads, launched>>
-----------------------------------------------------------------------------
(* FastllmInitNccl *)

\* For other devices than those of the communicators: a new generation.
NewGroup ==
  /\ setup = "idle" /\ setups < MaxSetups
  /\ setups' = setups + 1
  /\ ncclGeneration' = ncclGeneration + 1
  /\ setup' = "reset"
  /\ UNCHANGED <<life, activeCalls, registrations, round, threads, device>>

\* For the same ones.
SameGroup ==
  /\ setup = "idle" /\ setups < MaxSetups /\ ncclGeneration > 0
  /\ setups' = setups + 1
  /\ setup' = "init"
  /\ UNCHANGED <<ncclGeneration, life, activeCalls, registrations, round, threads, device>>

\* FastllmCudaCustomAllReduceReset
Reset ==
  /\ setup = "reset"
  /\ enabled' = FALSE
  /\ resetting' = TRUE
  /\ setup' = "quiesce"
  /\ UNCHANGED <<ncclGeneration, setups, initializing, initAttempted, initialized, ownGeneration,
                 memory, activeCalls, registrations, round, threads, device>>

\* DetachCustomArAllocationsLocked
Detach ==
  /\ memory' = IF memory = "live" THEN "draining" ELSE memory
  /\ registrations' = {}

Quiesce ==
  /\ setup = "quiesce" /\ ~initializing /\ activeCalls = 0
  /\ Detach
  /\ initialized' = FALSE /\ initAttempted' = FALSE /\ ownGeneration' = 0
  /\ arrived' = 0 /\ pendingShape' = NoTensor /\ pendingMismatch' = FALSE
  /\ pending' = NoPending /\ rankCallSequence' = [r \in Rank |-> 0] /\ lastOk' = FALSE
  /\ generation' = generation + 1
  /\ setup' = "drain"
  /\ UNCHANGED <<ncclGeneration, setups, resetting, initializing, enabled, activeCalls, threads,
                 device>>

\* Mutant of Freed: the devices are not drained.
FreedAtOnce == memory' = "none"

\* DrainAndReleaseCustomArAllocations
Freed == Drained /\ memory' = "none"

ResetEnd ==
  /\ setup = "drain"
  /\ Freed
  /\ resetting' = FALSE
  /\ setup' = "init"
  /\ UNCHANGED <<ncclGeneration, setups, initializing, initAttempted, initialized, enabled,
                 ownGeneration, activeCalls, registrations, round, threads, device>>

\* FastllmCudaCustomAllReduceInit, when there is nothing to do.
InitKnown ==
  /\ setup = "init" /\ ~resetting /\ ~initializing
  /\ initialized \/ initAttempted
  /\ setup' = "idle"
  /\ UNCHANGED <<ncclGeneration, setups, life, activeCalls, registrations, round, threads, device>>

\* Everything is allocated, and the automatic selection begins; nothing is public yet.
Initialize ==
  /\ setup = "init" /\ ~resetting /\ ~initializing /\ ~initialized /\ ~initAttempted
  /\ initAttempted' = TRUE /\ initializing' = TRUE /\ initialized' = TRUE
  /\ ownGeneration' = ncclGeneration
  /\ memory' = "live"
  /\ enabled' = FALSE
  /\ call' = [t \in Thread |-> IF t.private THEN 0 ELSE call[t]]
  /\ setup' = "tuning"
  /\ UNCHANGED <<ncclGeneration, setups, resetting, activeCalls, registrations, round, pc, part,
                 waitGeneration, verdict, device>>

\* A device has no peer access or no memory: what was allocated goes.
InitializeFails ==
  /\ setup = "init" /\ ~resetting /\ ~initializing /\ ~initialized /\ ~initAttempted
  /\ initAttempted' = TRUE /\ initializing' = TRUE
  /\ enabled' = FALSE /\ ownGeneration' = 0
  /\ memory' = "draining" /\ registrations' = {}
  /\ setup' = "undo"
  /\ UNCHANGED <<ncclGeneration, setups, resetting, initialized, activeCalls, round, threads, device>>

Undo ==
  /\ setup = "undo"
  /\ Freed
  /\ initializing' = FALSE
  /\ setup' = "idle"
  /\ UNCHANGED <<ncclGeneration, setups, resetting, initAttempted, initialized, enabled,
                 ownGeneration, activeCalls, registrations, round, threads, device>>

\* publishPolicy, once the threads of the selection are joined and their events
\* have ended.  Forced mode publishes at once.
Publish(faster) ==
  /\ setup = "tuning" /\ Drained
  /\ \A t \in Private : pc[t] = "out" /\ call[t] = Len(StreamOf(t))
  /\ enabled' = (faster /\ ~resetting /\ initialized /\ ownGeneration = ncclGeneration)
  /\ initializing' = FALSE
  /\ setup' = "idle"
  /\ UNCHANGED <<ncclGeneration, setups, resetting, initAttempted, initialized, ownGeneration,
                 memory, activeCalls, registrations, round, threads, device>>

SetupStep ==
  \/ Reset \/ Quiesce \/ ResetEnd
  \/ InitKnown \/ Initialize \/ InitializeFails \/ Undo
  \/ \E faster \in BOOLEAN : Publish(faster)

Next ==
  \/ NewGroup \/ SameGroup \/ SetupStep \/ Finish
  \/ \E t \in Thread : AllReduce(t) \/ InCall(t)

Spec == Init /\ [][Next]_vars

\* Threads that can go on do; every rank runs all AllReduces of its pass, and a
\* thread of the selection its call.
FairSpec ==
  /\ Spec
  /\ WF_vars(SetupStep) /\ WF_vars(Finish)
  /\ \A t \in Thread : WF_vars(InCall(t)) /\ WF_vars(AllReduce(t))
-----------------------------------------------------------------------------
InRound(t) == pc[t] \in {"wait", "build"} \/ verdict[t] # "none"
SameRound(t, u) == InRound(t) /\ InRound(u) /\ waitGeneration[t] = waitGeneration[u]
HasLease(t) == pc[t] \in {"arrive", "wait", "build", "launch", "release"}

\* What a call between its lease and its launch relies on, and what a kernel still
\* uses after it, is freed by nobody: "the device drain below keeps their
\* GPU-side state alive until completion".
InUseAlive ==
  /\ (\E t \in Thread : HasLease(t)) => memory = "live" /\ initialized
  /\ ~Drained => memory # "none"

\* "The rendezvous makes the launch-or-fall-back decision collective", and
\* "concurrent callers safely retain NCCL until selection ends": the threads of a
\* round all launch or all fall back, and are all of requests or all of the
\* selection.
RoundsAgree ==
  \A t, u \in Thread : SameRound(t, u) =>
    /\ t.private = u.private
    /\ verdict[t] # "none" /\ verdict[u] # "none" => verdict[t] = verdict[u]

\* A rank is with its lease in a call for which another was refused one.
Refused(u, k) ==
  call[u] > k \/ (call[u] = k /\ pc[u] \in {"nccl", "out"} /\ verdict[u] = "none")
Undecided(t) == pc[t] \in {"arrive", "build"} \/ (pc[t] = "wait" /\ waitGeneration[t] = generation)
Split == \E t, u \in Public : Undecided(t) /\ Refused(u, call[t])

\* Kernels end, and every AllReduce and every setup returns, unless a setup came
\* between the leases of two ranks for the same AllReduce.
ReductionsEnd ==
  \/ <>Split
  \/ /\ (~Drained) ~> Drained
     /\ \A t \in Public : pc[t] = "acquire" ~> pc[t] = "out"
     /\ setup = "reset" ~> setup = "idle"
=============================================================================
