-------------------------- MODULE SubmitRendezvous --------------------------
(***************************************************************************)
(* NcclSubmitRendezvous (include/devices/multicuda/                        *)
(* ncclsubmitrendezvous.h) and its only caller, FastllmNcclAllReduceImpl   *)
(* (src/devices/multicuda/fastllm-multicuda.cu): the host threads of a     *)
(* tensor-parallel group meet before and after each of them submits an     *)
(* AllReduce, outside stream capture.                                      *)
(*                                                                         *)
(* completedEpoch and aborted are stored in the critical section that      *)
(* changes epoch and error, so a rank that spins reads what one that       *)
(* sleeps on cv would: the two waits are one, which may time out at any    *)
(* moment.                                                                 *)
(***************************************************************************)
EXTENDS Naturals, FiniteSets

CONSTANTS
  Rank,    \* ranks of the communicator
  Buffer   \* what a rank asks for: count and data type

ASSUME RankAssumption == IsFiniteSet(Rank) /\ Rank # {} /\ Buffer # {}

VARIABLES
  epoch,      \* completed meetings: even before, odd after a submission
  nextPhase,  \* meetings each rank has come to
  arrived,    \* ranks that have come to the current one
  expected,   \* expectedCount and expectedDataType
  error,      \* error is set, and aborted
  pc,         \* where each rank is in its AllReduce
  buffer,     \* what it asks for
  submitted,  \* history: ncclAllReduce calls of each rank that succeeded
  passed      \* history: AllReduce calls of each rank that returned without error

gate == <<epoch, nextPhase, arrived, expected, error>>
ranks == <<pc, buffer>>
calls == <<submitted, passed>>
gateVars == <<gate, ranks, calls>>

Before == 0
After == 1

\* The phase a rank waits in or is about to wait in.
Phase(r) == IF pc[r] \in {"before", "beforeWait"} THEN Before ELSE After

NoBuffer == CHOOSE b \in Buffer : TRUE

GateInit ==
  /\ epoch = 0
  /\ nextPhase = [r \in Rank |-> 0]
  /\ arrived = 0
  /\ expected = NoBuffer
  /\ error = FALSE
  /\ pc = [r \in Rank |-> "out"]
  /\ buffer = [r \in Rank |-> NoBuffer]
  /\ submitted = [r \in Rank |-> 0]
  /\ passed = [r \in Rank |-> 0]

\* The AllReduce of r returns with an error.
GiveUp(r) ==
  /\ pc' = [pc EXCEPT ![r] = "out"]
  /\ buffer' = [buffer EXCEPT ![r] = NoBuffer]
  /\ UNCHANGED calls

\* Wait returned true: r submits, or is through.
Proceed(r) ==
  IF Phase(r) = Before
  THEN pc' = [pc EXCEPT ![r] = "submit"] /\ UNCHANGED <<buffer, calls>>
  ELSE /\ pc' = [pc EXCEPT ![r] = "out"]
       /\ passed' = [passed EXCEPT ![r] = @ + 1]
       /\ buffer' = [buffer EXCEPT ![r] = NoBuffer]
       /\ UNCHANGED submitted

\* FailLocked.
Fail == error' = TRUE /\ UNCHANGED <<epoch, nextPhase, arrived, expected>>
-----------------------------------------------------------------------------
AllReduce(r, b) ==
  /\ pc[r] = "out"
  /\ pc' = [pc EXCEPT ![r] = "before"]
  /\ buffer' = [buffer EXCEPT ![r] = b]
  /\ UNCHANGED <<gate, calls>>

\* No communicator for the device: an error, but nobody is told.
NoComm(r) ==
  /\ pc[r] = "before"
  /\ GiveUp(r)
  /\ UNCHANGED gate

\* An unsupported type, or a stream that cannot be asked for its capture.
AbortBefore(r) ==
  /\ pc[r] = "before"
  /\ Fail
  /\ GiveUp(r)

\* The tests at the head of Wait.
InTurn(r) == nextPhase[r] = epoch /\ epoch % 2 = Phase(r)

\* Mutant of Agreed: only the first meeting of all compares.
AgreedOnce(r) == epoch > 0 \/ arrived = 0 \/ buffer[r] = expected

Agreed(r) == (arrived = 0 /\ Phase(r) = Before) \/ buffer[r] = expected

Arriving(r) == pc[r] \in {"before", "after"}
Waiting(r) == pc[r] \in {"beforeWait", "afterWait"}

Refused(r) ==
  /\ Arriving(r)
  /\ error \/ ~InTurn(r) \/ ~Agreed(r)
  /\ Fail
  /\ GiveUp(r)

Joins(r) ==
  /\ Arriving(r) /\ ~error /\ InTurn(r) /\ Agreed(r)
  /\ nextPhase' = [nextPhase EXCEPT ![r] = @ + 1]
  /\ expected' = IF Phase(r) = Before /\ arrived = 0 THEN buffer[r] ELSE expected
  /\ UNCHANGED error

\* A rank that is not the last one waits ..
Join(r) ==
  /\ Joins(r)
  /\ arrived + 1 < Cardinality(Rank)
  /\ arrived' = arrived + 1
  /\ pc' = [pc EXCEPT ![r] = IF Phase(r) = Before THEN "beforeWait" ELSE "afterWait"]
  /\ UNCHANGED <<epoch, buffer, calls>>

\* Mutant of Complete: the last rank does not wait for the others.
CompleteEarly(r) ==
  /\ Joins(r)
  /\ arrived + 2 >= Cardinality(Rank)
  /\ arrived' = 0
  /\ epoch' = epoch + 1
  /\ Proceed(r)

\* .. and the last one opens the meeting.
Complete(r) ==
  /\ Joins(r)
  /\ arrived + 1 = Cardinality(Rank)
  /\ arrived' = 0
  /\ epoch' = epoch + 1
  /\ Proceed(r)

\* The meeting r waits for is over: a rank that waits has come to it already.
Met(r) == epoch = nextPhase[r]

\* A spinning rank sees completedEpoch or aborted change, a sleeping one is
\* notified; either way a failure wins.
Return(r) ==
  /\ Waiting(r)
  /\ Met(r) \/ error
  /\ IF error THEN GiveUp(r) ELSE Proceed(r)
  /\ UNCHANGED gate

\* Mutant of Timeout: a rank waits until its peers come or report a failure.
TimeoutNever(r) ==
  /\ Waiting(r)
  /\ ~Met(r) /\ error
  /\ Fail
  /\ GiveUp(r)

Timeout(r) ==
  /\ Waiting(r)
  /\ ~Met(r) /\ ~error
  /\ Fail
  /\ GiveUp(r)

\* ncclAllReduce returns.
Submit(r) ==
  /\ pc[r] = "submit"
  /\ pc' = [pc EXCEPT ![r] = "after"]
  /\ submitted' = [submitted EXCEPT ![r] = @ + 1]
  /\ UNCHANGED <<gate, buffer, passed>>

SubmitFails(r) ==
  /\ pc[r] = "submit"
  /\ Fail
  /\ GiveUp(r)

\* A step of a rank inside its AllReduce.
Inside(r) ==
  \/ NoComm(r) \/ AbortBefore(r)
  \/ Refused(r) \/ Join(r) \/ Complete(r)
  \/ Return(r) \/ Timeout(r)
  \/ Submit(r) \/ SubmitFails(r)

GateNext == \E r \in Rank : Inside(r) \/ \E b \in Buffer : AllReduce(r, b)

GateSpec == GateInit /\ [][GateNext]_gateVars
-----------------------------------------------------------------------------
Places ==
  {"out", "before", "beforeWait", "submit", "after", "afterWait"}

GateTypeOK ==
  /\ epoch \in Nat
  /\ nextPhase \in [Rank -> Nat]
  /\ arrived \in 0..Cardinality(Rank)
  /\ expected \in Buffer
  /\ error \in BOOLEAN
  /\ pc \in [Rank -> Places]
  /\ buffer \in [Rank -> Buffer]
  /\ submitted \in [Rank -> Nat]
  /\ passed \in [Rank -> Nat]

\* "A rank entering the next GEMM while peers are still in NCCL submission can
\* deadlock": nobody is through with an AllReduce before all have submitted it.
NoneAhead == \A r, q \in Rank : passed[r] <= submitted[q]

\* Nobody submits an AllReduce before all have come to it, and those who submit
\* together submit the same one, of the same count and type.
SubmitTogether ==
  \A r, q \in Rank :
    pc[r] = "submit" =>
      /\ nextPhase[q] > 2 * submitted[r]
      /\ pc[q] = "submit" => submitted[q] = submitted[r] /\ buffer[q] = buffer[r]
=============================================================================
