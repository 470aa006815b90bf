--------------------------- MODULE TensorParallel ---------------------------
(***************************************************************************)
(* A tensor-parallel forward pass (Qwen3Model::ForwardGPU,                 *)
(* src/models/qwen3.cpp): a worker group runs the pass on one thread per   *)
(* device, and the passes meet in their AllReduces.  WorkerGroup and       *)
(* SubmitRendezvous run side by side; a rank is inside an AllReduce only   *)
(* while its task runs, and its task ends only outside.                    *)
(***************************************************************************)
EXTENDS SubmitRendezvous, WorkerGroup

CONSTANT Reduces  \* AllReduces of one pass

VARIABLE left  \* AllReduces each device has still to do in the pass

TensorAssumption ==
  /\ CallerAssumption
  /\ Reduces \in Nat
  /\ \A c \in Caller : \A ks \in Keys[c] :
       ks \in Seq(Rank) /\ Len(ks) = Cardinality(Rank) /\ {ks[i] : i \in DOMAIN ks} = Rank

ASSUME KeysAssumption == TensorAssumption

vars == <<gateVars, poolVars, left>>

Init ==
  /\ GateInit
  /\ PoolInit
  /\ left = [d \in Rank |-> Reduces]

\* The device of worker r.
Device(r) == request[submitter].keys[r + 1]

\* All devices reduce the same tensors in the same order, of the sizes of the pass.
Reduce(r, b) ==
  /\ body[r] = "running" /\ left[Device(r)] > 0
  /\ AllReduce(Device(r), b)
  /\ left' = [left EXCEPT ![Device(r)] = @ - 1]
  /\ UNCHANGED poolVars

\* A failed AllReduce sets the thread error and the pass goes on.
InReduce(r) ==
  /\ body[r] = "running"
  /\ Inside(Device(r))
  /\ UNCHANGED <<poolVars, left>>

\* The pass of r is through, or throws anywhere outside an AllReduce.
PassEnds(r, outcome) ==
  /\ body[r] = "running" /\ pc[Device(r)] = "out"
  /\ outcome = "ok" => left[Device(r)] = 0
  /\ End(r, outcome)
  /\ left' = [left EXCEPT ![Device(r)] = Reduces]
  /\ UNCHANGED gateVars

Pass(r) ==
  \/ \E b \in Buffer : Reduce(r, b)
  \/ InReduce(r)
  \/ \E outcome \in {"ok", "failed"} : PassEnds(r, outcome)

GroupStep == PoolStep /\ UNCHANGED <<gateVars, left>>

Next == GroupStep \/ \E r \in Ranks : Pass(r)

\* The threads of the system do not all stop while one of them can go on; a wait
\* in an AllReduce can, because it has a timeout.
Progress ==
  \/ /\ \/ \E c \in Caller : InCall(c)
        \/ \E r \in Ranks : Worker(r)
     /\ UNCHANGED <<gateVars, left>>
  \/ \E r \in Ranks : Pass(r)

Spec == Init /\ [][Next]_vars /\ WF_vars(Progress)
-----------------------------------------------------------------------------
\* Whatever fails on whichever rank, every call of the group returns.
CallsReturn == \A c \in Caller : at[c] = "submit" ~> at[c] = "out"
=============================================================================
