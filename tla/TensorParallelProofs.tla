------------------------- MODULE TensorParallelProofs -------------------------
(***************************************************************************)
(* Proofs about the rendezvous, the worker group and the tensor-parallel   *)
(* pass that composes them, in this order, for any number of ranks, any    *)
(* callers and any groups of devices.  A pass is a behaviour of the worker *)
(* group and of the rendezvous at once, so what is proved of each of them  *)
(* holds of the whole.                                                     *)
(***************************************************************************)
EXTENDS TensorParallel, FiniteSetTheorems, TLAPS

(***************************************************************************)
(* SubmitRendezvous.  GateInv ties the meetings a rank has come to with    *)
(* its submissions and its place in the AllReduce; the counts survive a    *)
(* failure, because a failure freezes epoch and nextPhase and sends the    *)
(* ranks out.                                                              *)
(***************************************************************************)
\* The ranks that have come to the current meeting.
Come == {r \in Rank : nextPhase[r] = epoch + 1}

Phases ==
  /\ \A r \in Rank : nextPhase[r] \in {epoch, epoch + 1}
  /\ arrived = Cardinality(Come)

\* What its place says about the meetings, submissions and returns of a rank.
Place(r) ==
  /\ pc[r] \in {"out", "before"} /\ ~error =>
       nextPhase[r] = 2 * submitted[r] /\ passed[r] = submitted[r]
  /\ pc[r] = "beforeWait" => nextPhase[r] = 2 * submitted[r] + 1 /\ passed[r] = submitted[r]
  /\ pc[r] = "submit" =>
       /\ nextPhase[r] = 2 * submitted[r] + 1 /\ passed[r] = submitted[r]
       /\ nextPhase[r] = epoch
  /\ pc[r] = "after" =>
       /\ nextPhase[r] + 1 = 2 * submitted[r] /\ passed[r] + 1 = submitted[r]
       /\ nextPhase[r] = epoch
  /\ pc[r] = "afterWait" => nextPhase[r] = 2 * submitted[r] /\ passed[r] + 1 = submitted[r]

\* The counts of a rank that has failed too.
Behind ==
  \A r \in Rank : 2 * passed[r] <= epoch /\ nextPhase[r] <= 2 * submitted[r] + 1

\* Whoever is in the current AllReduce asks for what is expected.
Expecting ==
  \A r \in Rank :
    \/ pc[r] \in {"beforeWait", "submit", "after"}
    \/ pc[r] = "afterWait" /\ nextPhase[r] = epoch + 1
    => buffer[r] = expected

GateInv == GateTypeOK /\ Phases /\ (\A r \in Rank : Place(r)) /\ Behind /\ Expecting
-----------------------------------------------------------------------------
LEMMA ComeFinite == IsFiniteSet(Come) /\ Come \subseteq Rank
<1>1. Come \in SUBSET Rank
  BY DEF Come
<1> QED
  BY <1>1, FS_Subset, RankAssumption

LEMMA InitGate == GateInit => GateInv
<1> SUFFICES ASSUME GateInit PROVE GateInv
  OBVIOUS
<1>1. NoBuffer \in Buffer
  BY RankAssumption DEF NoBuffer
<1>2. Cardinality(Rank) \in Nat
  BY FS_CardinalityType, RankAssumption
<1>3. GateTypeOK
  <2>1. arrived \in 0..Cardinality(Rank)
    BY <1>2 DEF GateInit
  <2>2. /\ epoch \in Nat /\ nextPhase \in [Rank -> Nat]
        /\ submitted \in [Rank -> Nat] /\ passed \in [Rank -> Nat]
    BY DEF GateInit
  <2>3. expected \in Buffer /\ buffer \in [Rank -> Buffer] /\ pc \in [Rank -> Places]
    BY <1>1 DEF GateInit, Places
  <2>4. error \in BOOLEAN
    BY DEF GateInit
  <2> QED
    BY <2>1, <2>2, <2>3, <2>4 DEF GateTypeOK
<1>4. Come = {}
  BY DEF GateInit, Come
<1>5. Phases
  BY <1>4, FS_EmptySet DEF GateInit, Phases
<1>6. (\A r \in Rank : Place(r)) /\ Behind /\ Expecting
  BY DEF GateInit, Place, Behind, Expecting
<1> QED
  BY <1>3, <1>5, <1>6 DEF GateInv

\* A rank calls AllReduce, or gives up; whoever fails the gate does too.
LEMMA OutsideInv ==
  ASSUME GateInv, NEW r \in Rank, NEW b \in Buffer, NEW place \in {"out", "before"},
         UNCHANGED <<epoch, nextPhase, arrived, expected, submitted, passed>>,
         error' \in BOOLEAN, error => error',
         error' \/ pc[r] \in {"out", "before"},
         pc' = [pc EXCEPT ![r] = place], buffer' = [buffer EXCEPT ![r] = b]
  PROVE  GateInv'
<1>1. /\ pc'[r] = place /\ buffer'[r] = b
      /\ \A q \in Rank \ {r} : pc'[q] = pc[q] /\ buffer'[q] = buffer[q]
  BY DEF GateInv, GateTypeOK
<1>2. GateTypeOK'
  BY DEF GateInv, GateTypeOK, Places
<1>3. Phases'
  BY DEF GateInv, Phases, Come
<1>4. ASSUME NEW q \in Rank PROVE Place(q)'
  <2>1. CASE q = r
    BY <1>1, <2>1 DEF GateInv, Place
  <2>2. CASE q # r
    BY <1>1, <2>2 DEF GateInv, Place
  <2> QED
    BY <2>1, <2>2
<1>5. Behind' /\ Expecting'
  BY <1>1 DEF GateInv, Behind, Expecting
<1> QED
  BY <1>2, <1>3, <1>4, <1>5 DEF GateInv

\* A rank that waited for a meeting that took place goes on.
LEMMA ProceedInv ==
  ASSUME GateInv, NEW r \in Rank, Waiting(r), Met(r), Proceed(r), UNCHANGED gate
  PROVE  GateInv'
<1>1. UNCHANGED <<epoch, nextPhase, arrived, expected, error>> /\ epoch = nextPhase[r]
  BY DEF gate, Met
<1>2. CASE pc[r] = "beforeWait"
  <2>1. pc' = [pc EXCEPT ![r] = "submit"] /\ UNCHANGED <<buffer, submitted, passed>>
    BY <1>2 DEF Proceed, Phase, calls, Before
  <2>2. pc'[r] = "submit" /\ \A q \in Rank \ {r} : pc'[q] = pc[q]
    BY <2>1 DEF GateInv, GateTypeOK
  <2>3. GateTypeOK' /\ Phases'
    BY <1>1, <2>1 DEF GateInv, GateTypeOK, Places, Phases, Come
  <2>4. \A q \in Rank : Place(q)'
    BY <1>1, <1>2, <2>1, <2>2 DEF GateInv, Place
  <2>5. Behind' /\ Expecting'
    BY <1>1, <1>2, <2>1, <2>2 DEF GateInv, Behind, Expecting
  <2> QED
    BY <2>3, <2>4, <2>5 DEF GateInv
<1>3. CASE pc[r] = "afterWait"
  <2>1. /\ pc' = [pc EXCEPT ![r] = "out"]
        /\ passed' = [passed EXCEPT ![r] = @ + 1]
        /\ buffer' = [buffer EXCEPT ![r] = NoBuffer]
        /\ UNCHANGED submitted
    BY <1>3 DEF Proceed, Phase, Before, After
  <2>2. /\ pc'[r] = "out" /\ passed'[r] = passed[r] + 1
        /\ \A q \in Rank \ {r} :
             pc'[q] = pc[q] /\ passed'[q] = passed[q] /\ buffer'[q] = buffer[q]
    BY <2>1 DEF GateInv, GateTypeOK
  <2>3. GateTypeOK' /\ Phases'
    BY <1>1, <2>1, RankAssumption DEF GateInv, GateTypeOK, Places, Phases, Come, NoBuffer
  <2>4. nextPhase[r] = 2 * submitted[r] /\ passed[r] + 1 = submitted[r]
    BY <1>3 DEF GateInv, Place
  <2>5. \A q \in Rank : Place(q)'
    BY <1>1, <2>1, <2>2, <2>4 DEF GateInv, Place
  <2>6. Behind'
    <3>1. 2 * passed'[r] <= epoch /\ nextPhase[r] <= 2 * submitted[r] + 1
      BY <1>1, <2>2, <2>4 DEF GateInv, GateTypeOK
    <3> QED
      BY <1>1, <2>1, <2>2, <3>1 DEF GateInv, Behind
  <2>7. Expecting'
    BY <1>1, <2>1, <2>2 DEF GateInv, Expecting
  <2> QED
    BY <2>3, <2>5, <2>6, <2>7 DEF GateInv
<1> QED
  BY <1>2, <1>3 DEF Waiting

\* A rank joins a meeting: it was not in it, and is even on the way in.
LEMMA JoinsFacts ==
  ASSUME GateInv, NEW r \in Rank, Joins(r)
  PROVE  /\ ~error /\ error' = error /\ nextPhase[r] = epoch
         /\ nextPhase' = [nextPhase EXCEPT ![r] = epoch + 1]
         /\ nextPhase'[r] = epoch + 1
         /\ \A q \in Rank \ {r} : nextPhase'[q] = nextPhase[q]
         /\ Cardinality(Come \cup {r}) = arrived + 1
         /\ pc[r] \in {"before", "after"}
         /\ pc[r] = "before" =>
              /\ nextPhase[r] = 2 * submitted[r] /\ passed[r] = submitted[r]
              /\ buffer[r] = expected'
              /\ arrived > 0 => expected' = expected
         /\ pc[r] = "after" =>
              /\ nextPhase[r] + 1 = 2 * submitted[r] /\ passed[r] + 1 = submitted[r]
              /\ buffer[r] = expected /\ expected' = expected
<1>1. /\ pc[r] \in {"before", "after"} /\ ~error /\ error' = error
      /\ nextPhase[r] = epoch
  BY DEF Joins, Arriving, InTurn
<1>2. nextPhase' = [nextPhase EXCEPT ![r] = nextPhase[r] + 1]
  BY DEF Joins
<1>3. /\ nextPhase' = [nextPhase EXCEPT ![r] = epoch + 1]
      /\ nextPhase'[r] = epoch + 1
      /\ \A q \in Rank \ {r} : nextPhase'[q] = nextPhase[q]
  BY <1>1, <1>2 DEF GateInv, GateTypeOK
<1>4. r \notin Come
  BY <1>1 DEF Come, GateInv, GateTypeOK
<1>5. Cardinality(Come \cup {r}) = arrived + 1
  BY <1>4, ComeFinite, FS_AddElement DEF GateInv, Phases
<1>6. CASE pc[r] = "before"
  <2>1. nextPhase[r] = 2 * submitted[r] /\ passed[r] = submitted[r]
    BY <1>1, <1>6 DEF GateInv, Place
  <2>2. /\ expected' = IF arrived = 0 THEN buffer[r] ELSE expected
        /\ arrived = 0 \/ buffer[r] = expected
    BY <1>6 DEF Joins, Agreed, Phase, Before
  <2>3. arrived \in Nat
    BY FS_CardinalityType, RankAssumption DEF GateInv, GateTypeOK
  <2> QED
    BY <1>1, <1>3, <1>5, <1>6, <2>1, <2>2, <2>3
<1>7. CASE pc[r] = "after"
  <2>1. nextPhase[r] + 1 = 2 * submitted[r] /\ passed[r] + 1 = submitted[r]
    BY <1>7 DEF GateInv, Place
  <2>2. buffer[r] = expected /\ expected' = expected
    BY <1>7 DEF Joins, Agreed, Phase, Before, After
  <2> QED
    BY <1>1, <1>3, <1>5, <1>7, <2>1, <2>2
<1> QED
  BY <1>1, <1>6, <1>7

\* While somebody comes to the meeting before a submission, nobody is inside.
LEMMA NobodyInside ==
  ASSUME GateInv, NEW r \in Rank, Joins(r), pc[r] = "before", NEW q \in Rank
  PROVE  /\ pc[q] \notin {"submit", "after"}
         /\ pc[q] = "afterWait" => nextPhase[q] = epoch
         /\ pc[q] = "beforeWait" => nextPhase[q] = epoch + 1 /\ arrived > 0
<1>1. epoch = 2 * submitted[r]
  BY JoinsFacts
<1>2. /\ epoch \in Nat /\ submitted[r] \in Nat /\ submitted[q] \in Nat /\ nextPhase[q] \in Nat
      /\ nextPhase[q] \in {epoch, epoch + 1}
  BY DEF GateInv, GateTypeOK, Phases
<1>3. pc[q] \notin {"submit", "after"}
  BY <1>1, <1>2 DEF GateInv, Place
<1>4. pc[q] = "afterWait" => nextPhase[q] = epoch
  BY <1>1, <1>2 DEF GateInv, Place
<1>5. ASSUME pc[q] = "beforeWait" PROVE nextPhase[q] = epoch + 1 /\ arrived > 0
  <2>1. nextPhase[q] = epoch + 1
    BY <1>1, <1>2, <1>5 DEF GateInv, Place
  <2>2. Come # {}
    BY <2>1 DEF Come
  <2>3. arrived # 0
    BY <2>2, ComeFinite, FS_EmptySet DEF GateInv, Phases
  <2> QED
    BY <2>1, <2>3, FS_CardinalityType, RankAssumption DEF GateInv, GateTypeOK
<1> QED
  BY <1>3, <1>4, <1>5

LEMMA JoinInv ==
  ASSUME GateInv, NEW r \in Rank, Join(r)
  PROVE  GateInv'
<1>1. /\ Joins(r) /\ arrived + 1 < Cardinality(Rank) /\ arrived' = arrived + 1
      /\ UNCHANGED <<epoch, buffer, submitted, passed>>
  BY DEF Join, calls
<1>2. pc[r] \in {"before", "after"} /\ error' = error /\ ~error
  BY <1>1, JoinsFacts
<1>3. /\ nextPhase[r] = epoch /\ nextPhase'[r] = epoch + 1
      /\ nextPhase' = [nextPhase EXCEPT ![r] = epoch + 1]
  BY <1>1, JoinsFacts
<1>4. \A q \in Rank \ {r} : nextPhase'[q] = nextPhase[q]
  BY <1>1, JoinsFacts
<1>5. /\ epoch \in Nat /\ arrived \in Nat /\ Cardinality(Rank) \in Nat
      /\ nextPhase \in [Rank -> Nat] /\ submitted \in [Rank -> Nat] /\ passed \in [Rank -> Nat]
  BY FS_CardinalityType, RankAssumption DEF GateInv, GateTypeOK
<1>6. PICK p \in {"beforeWait", "afterWait"} :
        /\ pc' = [pc EXCEPT ![r] = p]
        /\ pc[r] = "before" <=> p = "beforeWait"
  <2>1. CASE pc[r] = "before"
    BY <2>1 DEF Join, Phase, Before
  <2>2. CASE pc[r] = "after"
    BY <2>2 DEF Join, Phase, Before, After
  <2> QED
    BY <1>2, <2>1, <2>2
<1>7. pc'[r] = p /\ \A q \in Rank \ {r} : pc'[q] = pc[q]
  BY <1>6 DEF GateInv, GateTypeOK
<1>8. GateTypeOK'
  <2>1. nextPhase' \in [Rank -> Nat]
    BY <1>3, <1>5
  <2>2. pc' \in [Rank -> Places]
    BY <1>6 DEF GateInv, GateTypeOK, Places
  <2>3. arrived' \in 0..Cardinality(Rank)
    BY <1>1, <1>5
  <2>4. expected' \in Buffer
    BY <1>1 DEF Joins, GateInv, GateTypeOK
  <2>5. error' \in BOOLEAN
    BY <1>2 DEF GateInv, GateTypeOK
  <2> QED
    BY <1>1, <2>1, <2>2, <2>3, <2>4, <2>5 DEF GateInv, GateTypeOK
<1>9. Phases'
  <2>1. Come' = Come \cup {r}
    BY <1>1, <1>3, <1>4 DEF Come
  <2>2. arrived' = Cardinality(Come')
    BY <1>1, <2>1, JoinsFacts
  <2>3. \A q \in Rank : nextPhase'[q] \in {epoch, epoch + 1}
    BY <1>3, <1>4 DEF GateInv, Phases
  <2> QED
    BY <1>1, <2>2, <2>3 DEF Phases
<1>10. ASSUME NEW q \in Rank PROVE Place(q)'
  <2>1. CASE q = r /\ pc[r] = "before"
    <3>1. nextPhase[r] = 2 * submitted[r] /\ passed[r] = submitted[r]
      BY <1>1, <2>1, JoinsFacts
    <3>2. pc'[q] = "beforeWait"
      BY <1>6, <1>7, <2>1
    <3> QED
      BY <1>1, <1>3, <2>1, <3>1, <3>2 DEF Place
  <2>2. CASE q = r /\ pc[r] = "after"
    <3>1. nextPhase[r] + 1 = 2 * submitted[r] /\ passed[r] + 1 = submitted[r]
      BY <1>1, <2>2, JoinsFacts
    <3>2. pc'[q] = "afterWait"
      BY <1>6, <1>7, <2>2
    <3> QED
      BY <1>1, <1>3, <2>2, <3>1, <3>2 DEF Place
  <2>3. CASE q # r
    <3>1. pc'[q] = pc[q] /\ nextPhase'[q] = nextPhase[q]
      BY <1>4, <1>7, <2>3
    <3> QED
      BY <1>1, <1>2, <3>1 DEF Place, GateInv
  <2> QED
    BY <1>2, <2>1, <2>2, <2>3
<1>11. Behind'
  <2>1. nextPhase'[r] <= 2 * submitted[r] + 1
    <3>1. nextPhase[r] = 2 * submitted[r] \/ nextPhase[r] + 1 = 2 * submitted[r]
      BY <1>1, <1>2, JoinsFacts
    <3> QED
      BY <1>3, <1>5, <3>1
  <2>2. ASSUME NEW q \in Rank
        PROVE  2 * passed[q] <= epoch /\ nextPhase'[q] <= 2 * submitted[q] + 1
    BY <1>4, <2>1 DEF GateInv, Behind
  <2> QED
    BY <1>1, <2>2 DEF Behind
<1>12. Expecting'
  <2>1. buffer[r] = expected'
    BY <1>1, <1>2, JoinsFacts
  <2>2. CASE pc[r] = "after"
    <3>1. expected' = expected
      BY <1>1, <2>2, JoinsFacts
    <3> QED
      BY <1>1, <1>4, <1>7, <2>1, <3>1 DEF GateInv, Expecting
  <2>3. CASE pc[r] = "before"
    <3>1. ASSUME NEW q \in Rank \ {r}, pc[q] = "beforeWait" PROVE buffer[q] = expected'
      <4>1. expected' = expected
        BY <1>1, <2>3, <3>1, JoinsFacts, NobodyInside
      <4> QED
        BY <3>1, <4>1 DEF GateInv, Expecting
    <3>2. ASSUME NEW q \in Rank \ {r}, pc[q] \in {"submit", "after", "afterWait"}
          PROVE  pc[q] = "afterWait" /\ nextPhase[q] # epoch + 1
      BY <1>1, <1>5, <2>3, <3>2, NobodyInside
    <3> QED
      BY <1>1, <1>4, <1>7, <2>1, <3>1, <3>2 DEF Expecting
  <2> QED
    BY <1>2, <2>2, <2>3
<1> QED
  BY <1>8, <1>9, <1>10, <1>11, <1>12 DEF GateInv

LEMMA CompleteInv ==
  ASSUME GateInv, NEW r \in Rank, Complete(r)
  PROVE  GateInv'
<1>1. /\ Joins(r) /\ arrived + 1 = Cardinality(Rank) /\ arrived' = 0
      /\ epoch' = epoch + 1 /\ Proceed(r)
  BY DEF Complete
<1>2. pc[r] \in {"before", "after"} /\ error' = error /\ ~error
  BY <1>1, JoinsFacts
<1>3. /\ nextPhase[r] = epoch /\ nextPhase'[r] = epoch + 1
      /\ nextPhase' = [nextPhase EXCEPT ![r] = epoch + 1]
  BY <1>1, JoinsFacts
<1>4. \A q \in Rank \ {r} : nextPhase'[q] = nextPhase[q]
  BY <1>1, JoinsFacts
<1>5. /\ epoch \in Nat /\ Cardinality(Rank) \in Nat
      /\ nextPhase \in [Rank -> Nat] /\ submitted \in [Rank -> Nat] /\ passed \in [Rank -> Nat]
  BY FS_CardinalityType, RankAssumption DEF GateInv, GateTypeOK
<1>6. Come \cup {r} = Rank
  <2>1. Come \cup {r} \in SUBSET Rank
    BY ComeFinite
  <2>2. Cardinality(Come \cup {r}) = Cardinality(Rank)
    BY <1>1, JoinsFacts
  <2> QED
    BY <2>1, <2>2, FS_Subset, RankAssumption
<1>7. ASSUME NEW q \in Rank \ {r}
      PROVE  nextPhase[q] = epoch + 1 /\ pc[q] \notin {"submit", "after"}
  <2>1. nextPhase[q] = epoch + 1
    BY <1>6 DEF Come
  <2> QED
    BY <1>5, <2>1 DEF GateInv, Place
<1>8. \A q \in Rank : nextPhase'[q] = epoch'
  BY <1>1, <1>3, <1>4, <1>7
<1>9. Phases'
  <2>1. Come' = {}
    BY <1>1, <1>5, <1>8 DEF Come
  <2> QED
    BY <1>1, <1>8, <2>1, FS_EmptySet DEF Phases
<1>10. /\ nextPhase' \in [Rank -> Nat] /\ epoch' \in Nat
       /\ arrived' \in 0..Cardinality(Rank) /\ expected' \in Buffer /\ error' \in BOOLEAN
  <2>1. nextPhase' \in [Rank -> Nat]
    BY <1>3, <1>5
  <2>2. epoch' \in Nat /\ arrived' \in 0..Cardinality(Rank)
    BY <1>1, <1>5
  <2>3. expected' \in Buffer
    BY <1>1 DEF Joins, GateInv, GateTypeOK
  <2>4. error' \in BOOLEAN
    BY <1>2 DEF GateInv, GateTypeOK
  <2> QED
    BY <2>1, <2>2, <2>3, <2>4
<1>11. \A q \in Rank : nextPhase'[q] # epoch' + 1
  BY <1>1, <1>5, <1>8
<1>12. CASE pc[r] = "before"
  <2>1. pc' = [pc EXCEPT ![r] = "submit"] /\ UNCHANGED <<buffer, submitted, passed>>
    BY <1>1, <1>12 DEF Proceed, Phase, calls, Before
  <2>2. pc'[r] = "submit" /\ \A q \in Rank \ {r} : pc'[q] = pc[q]
    BY <2>1 DEF GateInv, GateTypeOK
  <2>3. nextPhase[r] = 2 * submitted[r] /\ passed[r] = submitted[r] /\ buffer[r] = expected'
    BY <1>1, <1>12, JoinsFacts
  <2>4. GateTypeOK'
    <3>1. pc' \in [Rank -> Places]
      BY <2>1 DEF GateInv, GateTypeOK, Places
    <3> QED
      BY <1>10, <2>1, <3>1 DEF GateInv, GateTypeOK
  <2>5. ASSUME NEW q \in Rank PROVE Place(q)'
    <3>1. CASE q = r
      BY <1>1, <1>3, <2>1, <2>2, <2>3, <3>1 DEF Place
    <3>2. CASE q # r
      <4>1. pc'[q] = pc[q] /\ nextPhase'[q] = nextPhase[q] /\ pc[q] \notin {"submit", "after"}
        BY <1>4, <1>7, <2>2, <3>2
      <4> QED
        BY <1>2, <2>1, <4>1 DEF Place, GateInv
    <3> QED
      BY <3>1, <3>2
  <2>6. Behind'
    <3>1. ASSUME NEW q \in Rank
          PROVE  2 * passed[q] <= epoch + 1 /\ nextPhase'[q] <= 2 * submitted[q] + 1
      <4>1. 2 * passed[q] <= epoch /\ nextPhase[q] <= 2 * submitted[q] + 1
        BY DEF GateInv, Behind
      <4>2. 2 * passed[q] <= epoch + 1
        BY <1>5, <4>1
      <4>3. nextPhase'[q] <= 2 * submitted[q] + 1
        BY <1>3, <1>4, <1>5, <2>3, <4>1
      <4> QED
        BY <4>2, <4>3
    <3> QED
      BY <1>1, <2>1, <3>1 DEF Behind
  <2>7. Expecting'
    <3>1. ASSUME NEW q \in Rank \ {r}, pc[q] = "beforeWait" PROVE buffer[q] = expected'
      <4>1. expected' = expected
        BY <1>1, <1>12, <3>1, JoinsFacts, NobodyInside
      <4> QED
        BY <3>1, <4>1 DEF GateInv, Expecting
    <3> QED
      BY <1>7, <1>11, <2>1, <2>2, <2>3, <3>1 DEF Expecting
  <2> QED
    BY <1>9, <2>4, <2>5, <2>6, <2>7 DEF GateInv
<1>13. CASE pc[r] = "after"
  <2>1. /\ pc' = [pc EXCEPT ![r] = "out"]
        /\ passed' = [passed EXCEPT ![r] = @ + 1]
        /\ buffer' = [buffer EXCEPT ![r] = NoBuffer]
        /\ UNCHANGED submitted
    BY <1>1, <1>13 DEF Proceed, Phase, Before, After
  <2>2. /\ pc'[r] = "out" /\ passed'[r] = passed[r] + 1
        /\ \A q \in Rank \ {r} :
             pc'[q] = pc[q] /\ passed'[q] = passed[q] /\ buffer'[q] = buffer[q]
    BY <2>1 DEF GateInv, GateTypeOK
  <2>3. /\ nextPhase[r] + 1 = 2 * submitted[r] /\ passed[r] + 1 = submitted[r]
        /\ expected' = expected
    BY <1>1, <1>13, JoinsFacts
  <2>4. /\ nextPhase'[r] = 2 * submitted[r] /\ passed'[r] = submitted[r]
    BY <1>3, <2>2, <2>3
  <2>5. GateTypeOK'
    <3>1. pc' \in [Rank -> Places] /\ buffer' \in [Rank -> Buffer]
      BY <2>1, RankAssumption DEF GateInv, GateTypeOK, Places, NoBuffer
    <3>2. passed' \in [Rank -> Nat] /\ submitted' \in [Rank -> Nat]
      BY <1>5, <2>1
    <3> QED
      BY <1>10, <3>1, <3>2 DEF GateInv, GateTypeOK
  <2>6. ASSUME NEW q \in Rank PROVE Place(q)'
    <3>1. CASE q = r
      BY <2>1, <2>2, <2>4, <3>1 DEF Place
    <3>2. CASE q # r
      <4>1. /\ pc'[q] = pc[q] /\ nextPhase'[q] = nextPhase[q] /\ passed'[q] = passed[q]
            /\ pc[q] \notin {"submit", "after"}
        BY <1>4, <1>7, <2>2, <3>2
      <4> QED
        BY <1>2, <2>1, <4>1 DEF Place, GateInv
    <3> QED
      BY <3>1, <3>2
  <2>7. Behind'
    <3>1. ASSUME NEW q \in Rank
          PROVE  2 * passed'[q] <= epoch + 1 /\ nextPhase'[q] <= 2 * submitted[q] + 1
      <4>1. 2 * passed[q] <= epoch /\ nextPhase[q] <= 2 * submitted[q] + 1
        BY DEF GateInv, Behind
      <4>2. CASE q = r
        BY <1>3, <1>5, <2>4, <4>2
      <4>3. CASE q # r
        <5>1. passed'[q] = passed[q] /\ nextPhase'[q] = nextPhase[q]
          BY <1>4, <2>2, <4>3
        <5> QED
          BY <1>5, <4>1, <5>1
      <4> QED
        BY <4>2, <4>3
    <3> QED
      BY <1>1, <2>1, <3>1 DEF Behind
  <2>8. Expecting'
    BY <1>7, <1>11, <2>1, <2>2, <2>3 DEF GateInv, Expecting
  <2> QED
    BY <1>9, <2>5, <2>6, <2>7, <2>8 DEF GateInv
<1> QED
  BY <1>2, <1>12, <1>13

LEMMA SubmitInv ==
  ASSUME GateInv, NEW r \in Rank, Submit(r)
  PROVE  GateInv'
<1>1. /\ pc[r] = "submit" /\ pc' = [pc EXCEPT ![r] = "after"]
      /\ submitted' = [submitted EXCEPT ![r] = @ + 1]
      /\ UNCHANGED <<epoch, nextPhase, arrived, expected, error, buffer, passed>>
  BY DEF Submit, gate
<1>2. /\ pc'[r] = "after" /\ submitted'[r] = submitted[r] + 1
      /\ \A q \in Rank \ {r} : pc'[q] = pc[q] /\ submitted'[q] = submitted[q]
  BY <1>1 DEF GateInv, GateTypeOK
<1>3. GateTypeOK' /\ Phases'
  BY <1>1 DEF GateInv, GateTypeOK, Places, Phases, Come
<1>4. ASSUME NEW q \in Rank PROVE Place(q)'
  <2>1. CASE q = r
    BY <1>1, <1>2, <2>1 DEF GateInv, GateTypeOK, Place
  <2>2. CASE q # r
    BY <1>1, <1>2, <2>2 DEF GateInv, Place
  <2> QED
    BY <2>1, <2>2
<1>5. Behind'
  <2>1. nextPhase[r] <= 2 * (submitted[r] + 1) + 1
    BY DEF GateInv, GateTypeOK, Behind
  <2> QED
    BY <1>1, <1>2, <2>1 DEF GateInv, Behind
<1>6. Expecting'
  BY <1>1, <1>2 DEF GateInv, Expecting
<1> QED
  BY <1>3, <1>4, <1>5, <1>6 DEF GateInv

LEMMA InsideInv ==
  ASSUME GateInv, NEW r \in Rank, Inside(r)
  PROVE  GateInv'
<1>1. NoBuffer \in Buffer
  BY RankAssumption DEF NoBuffer
<1>2. error \in BOOLEAN
  BY DEF GateInv, GateTypeOK
<1>3. ASSUME Fail, GiveUp(r) PROVE GateInv'
  BY <1>1, <1>3, OutsideInv DEF Fail, GiveUp, calls
<1>4. CASE NoComm(r)
  BY <1>1, <1>2, <1>4, OutsideInv DEF NoComm, GiveUp, gate, calls
<1>5. CASE AbortBefore(r) \/ Refused(r) \/ Timeout(r) \/ SubmitFails(r)
  BY <1>3, <1>5 DEF AbortBefore, Refused, Timeout, SubmitFails
<1>6. CASE Return(r)
  <2>1. CASE error
    BY <1>1, <1>2, <1>6, <2>1, OutsideInv DEF Return, GiveUp, gate, calls
  <2>2. CASE ~error
    BY <1>6, <2>2, ProceedInv DEF Return
  <2> QED
    BY <2>1, <2>2
<1> QED
  BY <1>4, <1>5, <1>6, JoinInv, CompleteInv, SubmitInv DEF Inside

LEMMA StepGate == GateInv /\ [GateNext]_gateVars => GateInv'
<1> SUFFICES ASSUME GateInv, [GateNext]_gateVars PROVE GateInv'
  OBVIOUS
<1>1. ASSUME NEW r \in Rank, NEW b \in Buffer, AllReduce(r, b) PROVE GateInv'
  <2>1. error \in BOOLEAN
    BY DEF GateInv, GateTypeOK
  <2> QED
    BY <1>1, <2>1, OutsideInv DEF AllReduce, gate, calls
<1>2. CASE UNCHANGED gateVars
  <2>1. UNCHANGED <<epoch, nextPhase, arrived, expected, error, pc, buffer, submitted, passed>>
    BY <1>2 DEF gateVars, gate, ranks, calls
  <2>2. GateTypeOK' /\ Phases'
    BY <2>1 DEF GateInv, GateTypeOK, Phases, Come
  <2>3. (\A q \in Rank : Place(q)') /\ Behind' /\ Expecting'
    BY <2>1 DEF GateInv, Place, Behind, Expecting
  <2> QED
    BY <2>2, <2>3 DEF GateInv
<1> QED
  BY <1>1, <1>2, InsideInv DEF GateNext

\* The inductive invariant holds in every reachable state of the rendezvous.
THEOREM GateInvariance == GateSpec => []GateInv
BY InitGate, StepGate, PTL DEF GateSpec
-----------------------------------------------------------------------------
\* Nobody has completed more meetings than any peer has come to, and a rank
\* comes to the meeting behind a submission after submitting.
LEMMA InvNoneAhead == GateInv => NoneAhead
<1> SUFFICES ASSUME GateInv, NEW r \in Rank, NEW q \in Rank
             PROVE  passed[r] <= submitted[q]
  BY DEF NoneAhead
<1>1. /\ epoch \in Nat /\ passed[r] \in Nat /\ submitted[q] \in Nat /\ nextPhase[q] \in Nat
      /\ nextPhase[q] \in {epoch, epoch + 1}
  BY DEF GateInv, GateTypeOK, Phases
<1>2. 2 * passed[r] <= epoch /\ nextPhase[q] <= 2 * submitted[q] + 1
  BY DEF GateInv, Behind
<1> QED
  BY <1>1, <1>2

LEMMA InvSubmitTogether == GateInv => SubmitTogether
<1> SUFFICES ASSUME GateInv, NEW r \in Rank, NEW q \in Rank, pc[r] = "submit"
             PROVE  /\ nextPhase[q] > 2 * submitted[r]
                    /\ pc[q] = "submit" => submitted[q] = submitted[r] /\ buffer[q] = buffer[r]
  BY DEF SubmitTogether
<1>1. /\ epoch \in Nat /\ submitted[r] \in Nat /\ submitted[q] \in Nat
      /\ nextPhase[r] \in Nat /\ nextPhase[q] \in Nat
      /\ nextPhase[q] \in {epoch, epoch + 1}
  BY DEF GateInv, GateTypeOK, Phases
<1>2. nextPhase[r] = 2 * submitted[r] + 1 /\ nextPhase[r] = epoch
  BY DEF GateInv, Place
<1>3. ASSUME pc[q] = "submit" PROVE submitted[q] = submitted[r] /\ buffer[q] = buffer[r]
  <2>1. nextPhase[q] = 2 * submitted[q] + 1 /\ nextPhase[q] = epoch
    BY <1>3 DEF GateInv, Place
  <2>2. buffer[q] = expected /\ buffer[r] = expected
    BY <1>3 DEF GateInv, Expecting
  <2> QED
    BY <1>1, <1>2, <2>1, <2>2
<1> QED
  BY <1>1, <1>2, <1>3

\* However many ranks meet and whatever fails on the way, none is through with an
\* AllReduce that another has not submitted (the two meetings around ncclAllReduce
\* in FastllmNcclAllReduceImpl).
THEOREM GateNoneAhead == GateSpec => []NoneAhead
BY GateInvariance, InvNoneAhead, PTL

\* .. and the ranks that submit at the same time submit the same AllReduce, after
\* every rank has come to it (NcclSubmitRendezvous::Wait).
THEOREM GateSubmitTogether == GateSpec => []SubmitTogether
BY GateInvariance, InvSubmitTogether, PTL
-----------------------------------------------------------------------------
(***************************************************************************)
(* WorkerGroup.  PoolInv says, for every place of the caller that holds    *)
(* submitMutex, what the workers may be doing then: nothing unless a task  *)
(* is posted, and with a posted task each worker has it ahead, in hand or  *)
(* behind it, which finishedCount counts.                                  *)
(***************************************************************************)
PoolPlaces == {"out", "submit", "stopping", "join", "create", "unwind", "post", "self",
           "running", "collect"}
Posts == {"self", "running", "collect"}
Outcome == {"idle", "ok", "failed"}
AllKeys == UNION {Keys[c] : c \in Caller}

PoolTypeOK ==
  /\ submitter \in Caller \cup {NoCaller} /\ current \in Caller \cup {NoCaller}
  /\ workers \in Nat /\ taskId \in Nat /\ activeCount \in Nat /\ finishedCount \in Nat
  /\ stop \in BOOLEAN /\ skipped \in BOOLEAN
  /\ at \in [Caller -> PoolPlaces]
  /\ request \in [Caller -> [op : {"none", "Run", "RunWithCaller", "Stop"},
                             keys : AllKeys \cup {<<>>}]]
  /\ errors \in [Caller -> [Ranks -> Outcome]]
  /\ thread \in [Ranks -> {"none", "loop", "asleep", "busy", "exited"}]
  /\ last \in [Ranks -> Nat] /\ job \in [Ranks -> Caller \cup {NoCaller}]
  /\ skip \in [Ranks -> BOOLEAN]
  /\ body \in [Ranks -> Outcome \cup {"running"}] /\ ran \in [Ranks -> Nat]

\* The holder of submitMutex is the one caller inside a call.
Locked == \A c \in Caller : submitter = c <=> at[c] \notin {"out", "submit"}

\* No task: every worker has done the last one.
Quiet ==
  /\ ~stop
  /\ \A r \in Ranks :
       IF r < workers THEN thread[r] \in {"loop", "asleep"} /\ last[r] = taskId
       ELSE thread[r] = "none"

\* The workers are on their way out.
Stopping == stop /\ \A r \in Ranks : thread[r] \in {"none", "loop", "exited"}

\* The workers of c that have started wait for its first task.
Creating(c) ==
  /\ ~stop /\ workers = 0 /\ taskId = 0
  /\ \A r \in Ranks :
       \/ thread[r] = "none"
       \/ r \in Team(c) /\ thread[r] \in {"loop", "asleep"} /\ last[r] = 0

\* Worker r has done its part of the posted task.
Done(r) == last[r] = taskId /\ thread[r] # "busy"
Finished(c) == {r \in Team(c) : Done(r)}
Self(c, r) == request[c].op = "RunWithCaller" /\ r = 0

Holds(c, r) ==
  /\ thread[r] \in {"loop", "asleep", "busy"}
  /\ thread[r] = "asleep" => last[r] = taskId
  /\ thread[r] = "busy" =>
       last[r] = taskId /\ job[r] = c /\ skip[r] = Self(c, r)

\* The task of rank r has run, and left its outcome, as far as its worker, or the
\* caller itself, has come.
Outcomes(c, r) ==
  LET ahead == IF Self(c, r) THEN at[c] = "self" ELSE last[r] # taskId
      behind == IF Self(c, r) THEN at[c] = "collect" ELSE Done(r)
  IN  /\ ran[r] = IF ahead THEN 0 ELSE 1
      /\ behind => errors[c][r] \in {"ok", "failed"}

Posted(c) ==
  /\ ~stop /\ current = c /\ skipped = (request[c].op = "RunWithCaller")
  /\ workers = Len(request[c].keys) /\ activeCount = workers
  /\ at[c] # "collect" => request[c].op = "RunWithCaller"
  /\ \A r \in Ranks \ Team(c) : thread[r] = "none"
  /\ \A r \in Team(c) : Holds(c, r) /\ Outcomes(c, r)
  /\ finishedCount = Cardinality(Finished(c))

\* What its place says about a caller.
Stage(c) ==
  /\ at[c] \in {"stopping", "post"} => Quiet
  /\ at[c] = "post" => workers = Len(request[c].keys)
  /\ at[c] \in {"join", "unwind"} => Stopping
  /\ at[c] = "unwind" => workers = 0
  /\ at[c] = "create" => Creating(c)
  /\ at[c] \in Posts => Posted(c)
  /\ at[c] # "out" /\ request[c].op # "Stop" => request[c].keys \in Keys[c]
  /\ at[c] \in {"create", "unwind", "post"} \cup Posts => request[c].op # "Stop"

PoolInv ==
  /\ PoolTypeOK /\ Locked
  /\ submitter = NoCaller => Quiet
  /\ \A c \in Caller : Stage(c)
-----------------------------------------------------------------------------
LEMMA SizeNat ==
  ASSUME CallerAssumption, NEW c \in Caller, NEW ks \in Keys[c]
  PROVE  Len(ks) \in Nat \ {0} /\ ks \in AllKeys /\ Len(ks) \in Sizes
BY DEF CallerAssumption, AllKeys, Sizes

LEMMA LengthNat ==
  ASSUME CallerAssumption, PoolTypeOK, NEW c \in Caller
  PROVE  Len(request[c].keys) \in Nat
<1>1. CASE request[c].keys = <<>>
  BY <1>1
<1>2. CASE request[c].keys \in AllKeys
  BY <1>2, SizeNat DEF AllKeys
<1> QED
  BY <1>1, <1>2 DEF PoolTypeOK

LEMMA RanksNat == ASSUME CallerAssumption PROVE Ranks \subseteq Nat
<1> SUFFICES ASSUME NEW r \in Ranks PROVE r \in Nat
  OBVIOUS
<1>1. PICK n \in Sizes : r \in 0..n - 1
  BY DEF Ranks
<1>2. n \in Nat
  BY DEF Sizes, CallerAssumption
<1> QED
  BY <1>1, <1>2

LEMMA TeamFacts ==
  ASSUME CallerAssumption, NEW c \in Caller, request[c].keys \in Keys[c]
  PROVE  /\ Team(c) \subseteq Ranks /\ 0 \in Team(c) /\ 0 \in Ranks
         /\ IsFiniteSet(Team(c)) /\ Cardinality(Team(c)) = Len(request[c].keys)
         /\ Len(request[c].keys) \in Nat \ {0}
<1> DEFINE n == Len(request[c].keys)
<1>1. n \in Nat \ {0} /\ n \in Sizes
  BY SizeNat
<1> HIDE DEF n
<1>2. 0..n - 1 \subseteq Ranks
  BY <1>1 DEF Ranks
<1>3. 0 \in 0..n - 1
  BY <1>1
<1>4. IsFiniteSet(0..n - 1) /\ Cardinality(0..n - 1) = n
  BY <1>1, FS_Interval
<1> QED
  BY <1>1, <1>2, <1>3, <1>4 DEF Team, n
-----------------------------------------------------------------------------
(* Types *)

LEMMA CallType ==
  ASSUME CallerAssumption, PoolTypeOK, NEW c \in Caller, Call(c)
  PROVE  PoolTypeOK'
<1>1. PICK q \in Calls(c) : request' = [request EXCEPT ![c] = q]
  BY DEF Call
<1>2. q \in [op : {"none", "Run", "RunWithCaller", "Stop"}, keys : AllKeys \cup {<<>>}]
  BY DEF Calls, AllKeys
<1> QED
  BY <1>1, <1>2 DEF Call, PoolTypeOK, Go, PoolPlaces, shared, threads, tasks

LEMMA ReturnType ==
  ASSUME CallerAssumption, PoolTypeOK, NEW c \in Caller, CallReturns(c)
  PROVE  /\ submitter' \in Caller \cup {NoCaller}
         /\ at' \in [Caller -> PoolPlaces]
         /\ request' \in [Caller -> [op : {"none", "Run", "RunWithCaller", "Stop"},
                                     keys : AllKeys \cup {<<>>}]]
         /\ errors' \in [Caller -> [Ranks -> Outcome]]
BY DEF CallReturns, PoolTypeOK, Go, PoolPlaces, NoCall, Outcome

LEMMA NotifyType ==
  ASSUME PoolTypeOK, NotifyAll
  PROVE  thread' \in [Ranks -> {"none", "loop", "asleep", "busy", "exited"}]
BY DEF NotifyAll, PoolTypeOK

LEMMA StartType ==
  ASSUME PoolTypeOK, NEW r, Start(r)
  PROVE  body' \in [Ranks -> Outcome \cup {"running"}] /\ ran' \in [Ranks -> Nat]
<1>1. body' = [body EXCEPT ![r] = "running"] /\ ran' = [ran EXCEPT ![r] = ran[r] + 1]
  BY DEF Start
<1>2. body \in [Ranks -> Outcome \cup {"running"}] /\ ran \in [Ranks -> Nat]
  BY DEF PoolTypeOK
<1>3. ASSUME r \in Ranks PROVE ran[r] + 1 \in Nat
  BY <1>2, <1>3
<1> QED
  BY <1>1, <1>2, <1>3

LEMMA StoppedType ==
  ASSUME CallerAssumption, PoolTypeOK, NEW c \in Caller, Stopped(c)
  PROVE  /\ submitter' \in Caller \cup {NoCaller} /\ current' \in Caller \cup {NoCaller}
         /\ workers' \in Nat /\ taskId' \in Nat /\ activeCount' \in Nat /\ finishedCount' \in Nat
         /\ stop' \in BOOLEAN /\ skipped' \in BOOLEAN
         /\ at' \in [Caller -> PoolPlaces]
         /\ request' \in [Caller -> [op : {"none", "Run", "RunWithCaller", "Stop"},
                                     keys : AllKeys \cup {<<>>}]]
         /\ errors' \in [Caller -> [Ranks -> Outcome]]
<1>1. CASE request[c].op = "Stop"
  BY <1>1, ReturnType DEF Stopped, Cleared
<1>2. CASE request[c].op # "Stop"
  BY <1>2 DEF Stopped, Cleared, PoolTypeOK, Go, PoolPlaces
<1> QED
  BY <1>1, <1>2

LEMMA CallerType ==
  ASSUME CallerAssumption, PoolTypeOK, NEW c \in Caller, InCall(c) \/ CreateFails(c)
  PROVE  PoolTypeOK'
<1>1. CASE LockSubmit(c)
  BY <1>1 DEF LockSubmit, PoolTypeOK, Go, PoolPlaces, shared, threads, tasks
<1>2. CASE NothingToStop(c)
  BY <1>2, StoppedType DEF NothingToStop, PoolTypeOK, threads, tasks
<1>3. CASE StopLocked(c)
  BY <1>3, NotifyType DEF StopLocked, PoolTypeOK, Go, PoolPlaces, tasks
<1>4. CASE Joined(c)
  BY <1>4, StoppedType DEF Joined, PoolTypeOK, tasks
<1>5. ASSUME NEW r \in Ranks, CreateThread(c, r) PROVE PoolTypeOK'
  BY <1>5 DEF CreateThread, PoolTypeOK, shared, callers, tasks
<1>6. CASE Unwound(c)
  BY <1>6, ReturnType DEF Unwound, PoolTypeOK, tasks
<1>7. ASSUME Created(c) PROVE PoolTypeOK'
  <2>1. workers' \in Nat
    <3>1. Team(c) = 0..Len(request[c].keys) - 1
      BY DEF Team
    <3>2. Len(request[c].keys) \in Nat
      BY LengthNat
    <3> QED
      <4>1. IsFiniteSet(0..Len(request[c].keys) - 1)
        BY <3>2, FS_Interval
      <4> QED
        BY <1>7, <3>1, <4>1, FS_CardinalityType DEF Created
  <2> QED
    BY <1>7, <2>1 DEF Created, PoolTypeOK, Go, PoolPlaces, threads, tasks
<1>8. CASE Post(c)
  <2>1. Len(request[c].keys) \in Nat
    BY LengthNat
  <2> QED
    BY <1>8, <2>1, NotifyType DEF Post, PoolTypeOK, Go, PoolPlaces
<1>9. CASE RunSelf(c)
  BY <1>9, StartType DEF RunSelf, PoolTypeOK, Go, PoolPlaces, shared, threads
<1>10. CASE SelfDone(c)
  BY <1>10 DEF SelfDone, PoolTypeOK, Go, PoolPlaces, Outcome, shared, threads
<1>11. CASE Collect(c)
  BY <1>11 DEF Collect, PoolTypeOK, shared, callers, threads, tasks
<1>12. CASE Settle(c)
  BY <1>12, ReturnType DEF Settle, PoolTypeOK, threads, tasks
<1>13. CASE CreateFails(c)
  BY <1>13, NotifyType DEF CreateFails, PoolTypeOK, Go, PoolPlaces, tasks
<1> QED
  BY <1>1, <1>2, <1>3, <1>4, <1>5, <1>6, <1>7, <1>8, <1>9, <1>10, <1>11, <1>12, <1>13
  DEF InCall

LEMMA WorkerType ==
  ASSUME PoolTypeOK, NEW r \in Ranks,
         Worker(r) \/ \E outcome \in {"ok", "failed"} : End(r, outcome)
  PROVE  PoolTypeOK'
<1>1. CASE Sleep(r) \/ Exit(r)
  BY <1>1 DEF Sleep, Exit, PoolTypeOK, shared, callers, tasks
<1>2. CASE Accept(r)
  <2>1. body' \in [Ranks -> Outcome \cup {"running"}] /\ ran' \in [Ranks -> Nat]
    BY <1>2, StartType DEF Accept, PoolTypeOK, tasks
  <2> QED
    BY <1>2, <2>1 DEF Accept, PoolTypeOK, shared, callers
<1>3. ASSUME Report(r) PROVE PoolTypeOK'
  <2>1. errors' \in [Caller -> [Ranks -> Outcome]]
    <3>1. CASE ~skip[r] /\ job[r] # NoCaller
      <4>1. body[r] \in Outcome /\ job[r] \in Caller
        BY <1>3, <3>1 DEF Report, PoolTypeOK, Outcome
      <4>2. errors' = [errors EXCEPT ![job[r]][r] = body[r]]
        BY <1>3, <3>1 DEF Report
      <4>3. errors \in [Caller -> [Ranks -> Outcome]]
        BY DEF PoolTypeOK
      <4> QED
        BY <4>1, <4>2, <4>3
    <3> QED
      BY <1>3, <3>1 DEF Report, PoolTypeOK
  <2>2. body' \in [Ranks -> Outcome \cup {"running"}]
    BY <1>3 DEF Report, PoolTypeOK, Outcome
  <2>3. finishedCount' \in Nat
    BY <1>3 DEF Report, PoolTypeOK
  <2> QED
    BY <1>3, <2>1, <2>2, <2>3 DEF Report, PoolTypeOK
<1>4. CASE \E outcome \in {"ok", "failed"} : End(r, outcome)
  BY <1>4 DEF End, PoolTypeOK, Outcome, shared, callers, threads
<1> QED
  BY <1>1, <1>2, <1>3, <1>4 DEF Worker
-----------------------------------------------------------------------------
(* The invariant *)

LEMMA InitPool == ASSUME CallerAssumption, PoolInit PROVE PoolInv
<1>1. PoolTypeOK
  <2>1. NoCall \in [op : {"none", "Run", "RunWithCaller", "Stop"}, keys : AllKeys \cup {<<>>}]
    BY DEF NoCall
  <2> QED
    BY <2>1 DEF PoolInit, PoolTypeOK, PoolPlaces, Outcome
<1>2. NoCaller \notin Caller
  BY DEF CallerAssumption
<1>3. Quiet
  BY RanksNat DEF PoolInit, Quiet
<1>4. \A c \in Caller : Stage(c)
  BY DEF PoolInit, Stage, Posts
<1>5. Locked
  BY <1>2 DEF PoolInit, Locked
<1> QED
  BY <1>1, <1>3, <1>4, <1>5 DEF PoolInv

\* A caller outside keeps its phase.
LEMMA OutsideKeeps ==
  ASSUME NEW c \in Caller, Stage(c), at[c] \in {"out", "submit"},
         at'[c] = at[c], request'[c] = request[c]
  PROVE  Stage(c)'
BY DEF Stage, Posts

\* A step of the caller that holds submitMutex, or takes it.
LEMMA CallerStep ==
  ASSUME CallerAssumption, PoolInv, PoolTypeOK', NEW c \in Caller,
         submitter \in {c, NoCaller}, submitter' \in {c, NoCaller},
         \A d \in Caller \ {c} : at'[d] = at[d] /\ request'[d] = request[d],
         submitter' = c <=> at'[c] \notin {"out", "submit"},
         submitter' = NoCaller => Quiet',
         Stage(c)'
  PROVE  PoolInv'
<1>1. NoCaller \notin Caller
  BY DEF CallerAssumption
<1>2. ASSUME NEW d \in Caller, d # c
      PROVE  at[d] \in {"out", "submit"} /\ submitter' # d /\ Stage(d)'
  <2>1. at[d] \in {"out", "submit"}
    BY <1>1, <1>2 DEF PoolInv, Locked
  <2> QED
    BY <1>1, <1>2, <2>1, OutsideKeeps DEF PoolInv
<1>3. Locked'
  BY <1>1, <1>2 DEF Locked
<1> QED
  BY <1>2, <1>3 DEF PoolInv

\* A step of a worker, or of the task of a rank.
LEMMA WorkerStep ==
  ASSUME CallerAssumption, PoolInv, PoolTypeOK', UNCHANGED <<submitter, at, request>>,
         submitter = NoCaller => Quiet',
         submitter \in Caller => Stage(submitter)'
  PROVE  PoolInv'
<1>1. NoCaller \notin Caller
  BY DEF CallerAssumption
<1>2. ASSUME NEW d \in Caller PROVE Stage(d)'
  <2>1. CASE d = submitter
    BY <2>1
  <2>2. CASE d # submitter
    <3>1. at[d] \in {"out", "submit"}
      BY <2>2 DEF PoolInv, Locked
    <3> QED
      BY <3>1, OutsideKeeps DEF PoolInv
  <2> QED
    BY <2>1, <2>2
<1>3. Locked'
  BY DEF PoolInv, Locked
<1> QED
  BY <1>2, <1>3 DEF PoolInv

\* Its place says what the holder of submitMutex may be in the middle of.
LEMMA Holder ==
  ASSUME PoolInv, NEW c \in Caller, at[c] \notin {"out", "submit"}
  PROVE  submitter = c /\ Stage(c)
BY DEF PoolInv, Locked

\* Stage reads no more of the state than this.
LEMMA SameGroup ==
  ASSUME NEW c \in Caller, Stage(c), at'[c] = at[c], request'[c] = request[c], errors'[c] = errors[c],
         UNCHANGED <<workers, keys, stop, taskId, current, activeCount, finishedCount, skipped,
                     thread, last, job, skip, ran>>
  PROVE  Stage(c)'
<1>1. Quiet => Quiet'
  BY DEF Quiet
<1>2. Stopping => Stopping'
  BY DEF Stopping
<1>3. Team(c)' = Team(c)
  BY DEF Team
<1>4. Creating(c) => Creating(c)'
  BY <1>3 DEF Creating
<1>5. Finished(c)' = Finished(c)
  BY <1>3 DEF Finished, Done
<1>6. ASSUME NEW r \in Team(c), Holds(c, r) /\ Outcomes(c, r) PROVE (Holds(c, r) /\ Outcomes(c, r))'
  BY <1>6 DEF Holds, Outcomes, Self, Done
<1>7. Posted(c) => Posted(c)'
  BY <1>3, <1>5, <1>6 DEF Posted
<1> QED
  BY <1>1, <1>2, <1>4, <1>7 DEF Stage

LEMMA CallKeeps ==
  ASSUME CallerAssumption, PoolInv, NEW c \in Caller, Call(c)
  PROVE  PoolInv'
<1>1. PICK q \in Calls(c) : request' = [request EXCEPT ![c] = q]
  BY DEF Call
<1>2. at' = [at EXCEPT ![c] = "submit"] /\ at[c] = "out"
  BY DEF Call, Go
<1>3. PoolTypeOK /\ PoolTypeOK'
  BY CallType DEF PoolInv
<1>4. request'[c] = q /\ at'[c] = "submit"
  BY <1>1, <1>2, <1>3 DEF PoolTypeOK
<1>5. q.op # "Stop" => q.keys \in Keys[c]
  BY DEF Calls
<1>6. Stage(c)'
  BY <1>4, <1>5 DEF Stage, Posts
<1>7. UNCHANGED <<submitter, stop, workers, thread, last, taskId>>
  BY DEF Call, shared, threads
<1>8. Quiet => Quiet'
  BY <1>7 DEF Quiet
<1>9. ASSUME NEW d \in Caller, d # c PROVE Stage(d)'
  <2>1. at'[d] = at[d] /\ request'[d] = request[d]
    BY <1>1, <1>2, <1>3, <1>9 DEF PoolTypeOK
  <2>2. CASE at[d] \in {"out", "submit"}
    BY <1>9, <2>1, <2>2, OutsideKeeps DEF PoolInv
  <2>3. CASE at[d] \notin {"out", "submit"}
    BY <1>9, <2>1, <2>3, SameGroup DEF Call, PoolInv, shared, threads, tasks
  <2> QED
    BY <2>2, <2>3
<1>10. Locked'
  BY <1>2, <1>3, <1>4, <1>7 DEF PoolInv, PoolTypeOK, Locked
<1> QED
  BY <1>3, <1>6, <1>7, <1>8, <1>9, <1>10 DEF PoolInv

\* A call that ends, or goes from one place to another.
LEMMA Returned ==
  ASSUME PoolTypeOK, NEW c \in Caller, CallReturns(c)
  PROVE  /\ submitter' = NoCaller /\ at'[c] = "out" /\ Stage(c)'
         /\ \A d \in Caller \ {c} : at'[d] = at[d] /\ request'[d] = request[d]
<1>1. at' = [at EXCEPT ![c] = "out"] /\ request' = [request EXCEPT ![c] = NoCall]
  BY DEF CallReturns, Go
<1>2. at'[c] = "out"
  BY <1>1 DEF PoolTypeOK
<1> QED
  BY <1>1, <1>2 DEF CallReturns, PoolTypeOK, Stage, Posts

LEMMA Goes ==
  ASSUME PoolTypeOK, NEW c \in Caller, NEW place, Go(c, place), UNCHANGED request
  PROVE  /\ at'[c] = place /\ request'[c] = request[c]
         /\ \A d \in Caller \ {c} : at'[d] = at[d] /\ request'[d] = request[d]
BY DEF Go, PoolTypeOK

LEMMA LockSubmitKeeps ==
  ASSUME CallerAssumption, PoolInv, PoolTypeOK', NEW c \in Caller, LockSubmit(c)
  PROVE  PoolInv'
<1> DEFINE place == IF request[c].op # "Stop" /\ Fitting(c) THEN "post" ELSE "stopping"
<1>1. Go(c, place) /\ UNCHANGED request /\ PoolTypeOK
  BY DEF LockSubmit, PoolInv
<1>2. /\ at'[c] = place /\ request'[c] = request[c]
      /\ \A d \in Caller \ {c} : at'[d] = at[d] /\ request'[d] = request[d]
  BY <1>1, Goes
<1>3. Quiet'
  BY DEF LockSubmit, PoolInv, Quiet, shared, threads
<1>4. Stage(c) /\ at[c] = "submit"
  BY DEF LockSubmit, PoolInv
<1>5. Stage(c)'
  <2>1. CASE place = "post"
    BY <1>2, <1>3, <1>4, <2>1 DEF Stage, Posts, Fitting, LockSubmit, shared
  <2>2. CASE place = "stopping"
    BY <1>2, <1>3, <1>4, <2>2 DEF Stage, Posts
  <2> QED
    BY <2>1, <2>2
<1> QED
  BY <1>2, <1>3, <1>5, CallerStep DEF LockSubmit

\* No worker is left: the state is cleared.
LEMMA StoppedKeeps ==
  ASSUME CallerAssumption, PoolInv, PoolTypeOK', NEW c \in Caller, Stopped(c),
         at[c] \in {"stopping", "join"}, \A r \in Ranks : thread'[r] = "none"
  PROVE  PoolInv'
<1>1. PoolTypeOK /\ submitter = c /\ Stage(c)
  BY Holder DEF PoolInv
<1>2. Quiet'
  BY RanksNat DEF Quiet, Stopped, Cleared
<1>3. CASE request[c].op = "Stop"
  <2>1. CallReturns(c)
    BY <1>3 DEF Stopped
  <2> QED
    BY <1>1, <1>2, <2>1, Returned, CallerStep DEF CallerAssumption
<1>4. CASE request[c].op # "Stop"
  <2>1. Go(c, "create") /\ UNCHANGED <<submitter, request>>
    BY <1>4 DEF Stopped
  <2>2. /\ at'[c] = "create" /\ request'[c] = request[c]
        /\ \A d \in Caller \ {c} : at'[d] = at[d] /\ request'[d] = request[d]
    BY <1>1, <2>1, Goes
  <2>3. Creating(c)'
    BY DEF Creating, Stopped, Cleared
  <2>4. Stage(c)'
    BY <1>1, <1>4, <2>2, <2>3 DEF Stage, Posts
  <2> QED
    BY <1>1, <2>1, <2>2, <2>4, CallerStep DEF CallerAssumption
<1> QED
  BY <1>3, <1>4

LEMMA NothingToStopKeeps ==
  ASSUME CallerAssumption, PoolInv, PoolTypeOK', NEW c \in Caller, NothingToStop(c)
  PROVE  PoolInv'
<1>1. Quiet /\ workers = 0 /\ UNCHANGED thread
  BY Holder DEF NothingToStop, Stage, threads
<1>2. \A r \in Ranks : thread'[r] = "none"
  BY <1>1, RanksNat DEF Quiet
<1> QED
  BY <1>2, StoppedKeeps DEF NothingToStop

LEMMA JoinedKeeps ==
  ASSUME CallerAssumption, PoolInv, PoolTypeOK', NEW c \in Caller, Joined(c)
  PROVE  PoolInv'
BY StoppedKeeps DEF Joined

\* stop is set and everybody woken.
LEMMA Stops ==
  ASSUME NEW place \in {"join", "unwind"}, NEW c \in Caller,
         CallerAssumption, PoolInv, PoolTypeOK', at[c] \in {"stopping", "create"},
         stop' = TRUE, NotifyAll, Go(c, place),
         UNCHANGED <<submitter, request, workers>>,
         \A r \in Ranks : thread[r] \in {"none", "loop", "asleep"},
         place = "unwind" => workers = 0 /\ request[c].op # "Stop"
  PROVE  PoolInv'
<1>1. PoolTypeOK /\ submitter = c /\ Stage(c)
  BY Holder DEF PoolInv
<1>2. /\ at'[c] = place /\ request'[c] = request[c]
      /\ \A d \in Caller \ {c} : at'[d] = at[d] /\ request'[d] = request[d]
  BY <1>1, Goes
<1>3. Stopping'
  BY DEF Stopping, NotifyAll
<1>4. Stage(c)'
  BY <1>1, <1>2, <1>3 DEF Stage, Posts
<1> QED
  BY <1>1, <1>2, <1>4, CallerStep DEF CallerAssumption

LEMMA StopLockedKeeps ==
  ASSUME CallerAssumption, PoolInv, PoolTypeOK', NEW c \in Caller, StopLocked(c)
  PROVE  PoolInv'
<1>1. Quiet
  BY Holder DEF StopLocked, Stage
<1>2. \A r \in Ranks : thread[r] \in {"none", "loop", "asleep"}
  BY <1>1 DEF Quiet
<1> QED
  BY <1>2, Stops DEF StopLocked

LEMMA CreateFailsKeeps ==
  ASSUME CallerAssumption, PoolInv, PoolTypeOK', NEW c \in Caller, CreateFails(c)
  PROVE  PoolInv'
<1>1. Creating(c) /\ request[c].op # "Stop"
  BY Holder DEF CreateFails, Stage
<1>2. workers = 0 /\ \A r \in Ranks : thread[r] \in {"none", "loop", "asleep"}
  BY <1>1 DEF Creating
<1> QED
  BY <1>1, <1>2, Stops DEF CreateFails

LEMMA UnwoundKeeps ==
  ASSUME CallerAssumption, PoolInv, PoolTypeOK', NEW c \in Caller, Unwound(c)
  PROVE  PoolInv'
<1>1. PoolTypeOK /\ submitter = c /\ workers = 0
  BY Holder DEF Unwound, PoolInv, Stage
<1>2. Quiet'
  BY <1>1, RanksNat DEF Unwound, Quiet
<1> QED
  BY <1>1, <1>2, Returned, CallerStep DEF Unwound, CallerAssumption

LEMMA CreateThreadKeeps ==
  ASSUME CallerAssumption, PoolInv, PoolTypeOK', NEW c \in Caller, NEW r \in Ranks,
         CreateThread(c, r)
  PROVE  PoolInv'
<1>1. PoolTypeOK /\ submitter = c /\ Stage(c) /\ at[c] = "create"
  BY Holder DEF CreateThread, PoolInv
<1>2. UNCHANGED <<submitter, at, request, stop, workers, taskId>>
  BY DEF CreateThread, shared, callers
<1>3. Creating(c)'
  <2>1. Team(c)' = Team(c)
    BY <1>2 DEF Team
  <2> QED
    BY <1>1, <1>2, <2>1 DEF CreateThread, Creating, Stage, PoolTypeOK
<1>4. Stage(c)'
  BY <1>1, <1>2, <1>3 DEF Stage, Posts
<1> QED
  BY <1>1, <1>2, <1>4, CallerStep DEF CallerAssumption

LEMMA CreatedKeeps ==
  ASSUME CallerAssumption, PoolInv, PoolTypeOK', NEW c \in Caller, Created(c)
  PROVE  PoolInv'
<1>1. PoolTypeOK /\ submitter = c /\ Stage(c) /\ at[c] = "create"
  BY Holder DEF Created, PoolInv
<1>2. Creating(c) /\ request[c].op # "Stop" /\ request[c].keys \in Keys[c]
  BY <1>1 DEF Stage
<1>3. /\ at'[c] = "post" /\ request'[c] = request[c]
      /\ \A d \in Caller \ {c} : at'[d] = at[d] /\ request'[d] = request[d]
  BY <1>1, Goes DEF Created
<1>4. /\ Team(c) \subseteq Ranks /\ workers' = Len(request[c].keys)
      /\ Len(request[c].keys) \in Nat \ {0}
  BY <1>2, TeamFacts DEF Created
<1>5. Quiet'
  <2>1. ASSUME NEW r \in Ranks
        PROVE  IF r < workers' THEN thread[r] \in {"loop", "asleep"} /\ last[r] = taskId
               ELSE thread[r] = "none"
    <3>1. r \in Team(c) <=> r < workers'
      BY <1>4, RanksNat DEF Team
    <3> QED
      BY <1>2, <2>1, <3>1 DEF Creating, Created
  <2> QED
    BY <1>2, <2>1 DEF Quiet, Created, Creating, threads
<1>6. Stage(c)'
  BY <1>2, <1>3, <1>4, <1>5 DEF Stage, Posts
<1> QED
  BY <1>1, <1>3, <1>6, CallerStep DEF Created, CallerAssumption

LEMMA PostKeeps ==
  ASSUME CallerAssumption, PoolInv, PoolTypeOK', NEW c \in Caller, Post(c)
  PROVE  PoolInv'
<1> DEFINE place == IF request[c].op = "RunWithCaller" THEN "self" ELSE "collect"
<1>1. PoolTypeOK /\ submitter = c /\ Stage(c) /\ at[c] = "post"
  BY Holder DEF Post, PoolInv
<1>2. /\ Quiet /\ workers = Len(request[c].keys)
      /\ request[c].op # "Stop" /\ request[c].keys \in Keys[c]
  BY <1>1 DEF Stage
<1>3. Go(c, place) /\ UNCHANGED request
  BY DEF Post
<1>4. /\ at'[c] = place /\ request'[c] = request[c]
      /\ \A d \in Caller \ {c} : at'[d] = at[d] /\ request'[d] = request[d]
  BY <1>1, <1>3, Goes
<1>5. Team(c)' = Team(c) /\ Team(c) \subseteq Ranks
  BY <1>2, <1>4, TeamFacts DEF Team
<1>6. \A r \in Ranks : r \in Team(c) <=> r < workers
  BY <1>2, RanksNat, LengthNat, <1>1 DEF Team
<1>7. ASSUME NEW r \in Ranks \ Team(c) PROVE thread'[r] = "none"
  BY <1>2, <1>6, <1>7 DEF Quiet, Post, NotifyAll
<1>8. ASSUME NEW r \in Team(c)
      PROVE  thread'[r] = "loop" /\ last'[r] # taskId' /\ ran'[r] = 0
  <2>1. thread[r] \in {"loop", "asleep"} /\ last[r] = taskId
    BY <1>2, <1>5, <1>6 DEF Quiet
  <2> QED
    BY <1>1, <1>5, <2>1 DEF Post, NotifyAll, PoolTypeOK
<1>9. ASSUME NEW r \in Team(c) PROVE Holds(c, r)' /\ Outcomes(c, r)' /\ ~Done(r)'
  BY <1>4, <1>8 DEF Holds, Outcomes, Done, Self
<1>10. Finished(c)' = {}
  BY <1>5, <1>9 DEF Finished
<1>11. finishedCount' = Cardinality(Finished(c)')
  BY <1>10, FS_EmptySet DEF Post
<1>12. Posted(c)'
  BY <1>2, <1>4, <1>5, <1>7, <1>9, <1>11 DEF Posted, Post, Quiet
<1>13. Stage(c)'
  BY <1>2, <1>4, <1>12 DEF Stage, Posts
<1> QED
  BY <1>1, <1>4, <1>13, CallerStep DEF Post, CallerAssumption

LEMMA RunSelfKeeps ==
  ASSUME CallerAssumption, PoolInv, PoolTypeOK', NEW c \in Caller, RunSelf(c)
  PROVE  PoolInv'
<1>1. PoolTypeOK /\ submitter = c /\ Stage(c) /\ at[c] = "self"
  BY Holder DEF RunSelf, PoolInv
<1>2. Posted(c) /\ request[c].op = "RunWithCaller" /\ request[c].keys \in Keys[c]
  BY <1>1 DEF Stage, Posts, Posted
<1>3. /\ at'[c] = "running" /\ request'[c] = request[c]
      /\ \A d \in Caller \ {c} : at'[d] = at[d] /\ request'[d] = request[d]
  BY <1>1, Goes DEF RunSelf
<1>4. /\ UNCHANGED <<submitter, request, errors, stop, current, skipped, workers, activeCount,
                      finishedCount, taskId, thread, last, job, skip>>
      /\ Start(0)
  BY DEF RunSelf, shared, threads
<1>5. Team(c)' = Team(c) /\ Team(c) \subseteq Ranks /\ 0 \in Team(c)
  BY <1>2, <1>3, TeamFacts DEF Team
<1>6. Finished(c)' = Finished(c)
  BY <1>4, <1>5 DEF Finished, Done
<1>7. ASSUME NEW r \in Team(c) PROVE Holds(c, r)' /\ Outcomes(c, r)'
  <2>1. Holds(c, r) /\ Outcomes(c, r)
    BY <1>2 DEF Posted
  <2>2. ran \in [Ranks -> Nat]
    BY <1>1 DEF PoolTypeOK
  <2>3. ran'[r] = IF r = 0 THEN ran[0] + 1 ELSE ran[r]
    BY <1>4, <1>5, <2>2 DEF Start
  <2>4. CASE r = 0
    BY <1>1, <1>2, <1>3, <1>4, <2>1, <2>3, <2>4 DEF Holds, Outcomes, Self
  <2>5. CASE r # 0
    BY <1>3, <1>4, <2>1, <2>3, <2>5 DEF Holds, Outcomes, Self, Done
  <2> QED
    BY <2>4, <2>5
<1>8. Posted(c)'
  BY <1>2, <1>3, <1>4, <1>5, <1>6, <1>7 DEF Posted
<1>9. Stage(c)'
  BY <1>2, <1>3, <1>8 DEF Stage, Posts
<1> QED
  BY <1>1, <1>3, <1>4, <1>9, CallerStep DEF CallerAssumption

LEMMA SelfDoneKeeps ==
  ASSUME CallerAssumption, PoolInv, PoolTypeOK', NEW c \in Caller, SelfDone(c)
  PROVE  PoolInv'
<1>1. PoolTypeOK /\ submitter = c /\ Stage(c) /\ at[c] = "running"
  BY Holder DEF SelfDone, PoolInv
<1>2. Posted(c) /\ request[c].op = "RunWithCaller" /\ request[c].keys \in Keys[c]
  BY <1>1 DEF Stage, Posts, Posted
<1>3. /\ at'[c] = "collect" /\ request'[c] = request[c]
      /\ \A d \in Caller \ {c} : at'[d] = at[d] /\ request'[d] = request[d]
  BY <1>1, Goes DEF SelfDone
<1>4. UNCHANGED <<submitter, request, stop, current, skipped, workers, activeCount,
                   finishedCount, taskId, thread, last, job, skip, ran>>
  BY DEF SelfDone, shared, threads
<1>5. Team(c)' = Team(c) /\ Team(c) \subseteq Ranks /\ 0 \in Team(c)
  BY <1>2, <1>3, TeamFacts DEF Team
<1>6. Finished(c)' = Finished(c)
  BY <1>4, <1>5 DEF Finished, Done
<1>7. ASSUME NEW r \in Team(c) PROVE Holds(c, r)' /\ Outcomes(c, r)'
  <2>1. Holds(c, r) /\ Outcomes(c, r)
    BY <1>2 DEF Posted
  <2>2. errors'[c][r] = IF r = 0 THEN body[0] ELSE errors[c][r]
    BY <1>1, <1>5 DEF SelfDone, PoolTypeOK
  <2>3. CASE r = 0
    BY <1>1, <1>2, <1>3, <1>4, <2>1, <2>2, <2>3 DEF Holds, Outcomes, Self, SelfDone
  <2>4. CASE r # 0
    BY <1>3, <1>4, <2>1, <2>2, <2>4 DEF Holds, Outcomes, Self, Done
  <2> QED
    BY <2>3, <2>4
<1>8. Posted(c)'
  BY <1>2, <1>3, <1>4, <1>5, <1>6, <1>7 DEF Posted
<1>9. Stage(c)'
  BY <1>2, <1>3, <1>8 DEF Stage, Posts
<1> QED
  BY <1>1, <1>3, <1>4, <1>9, CallerStep DEF CallerAssumption

LEMMA CollectKeeps ==
  ASSUME CallerAssumption, PoolInv, PoolTypeOK', NEW c \in Caller, Collect(c)
  PROVE  PoolInv'
<1>1. submitter = c /\ Stage(c)
  BY Holder DEF Collect
<1>2. UNCHANGED <<submitter, shared, callers, threads, tasks>>
  BY DEF Collect
<1>3. Stage(c)'
  BY <1>1, <1>2, SameGroup DEF shared, callers, threads, tasks
<1> QED
  BY <1>1, <1>2, <1>3, WorkerStep DEF callers, CallerAssumption

\* finishedCount reaches activeCount when every worker has done its part.
LEMMA AllFinished ==
  ASSUME CallerAssumption, PoolTypeOK, NEW c \in Caller, request[c].keys \in Keys[c], Posted(c),
         finishedCount >= activeCount
  PROVE  \A r \in Team(c) : Done(r)
<1>1. /\ IsFiniteSet(Team(c)) /\ Cardinality(Team(c)) = activeCount
      /\ finishedCount = Cardinality(Finished(c))
  BY TeamFacts DEF Posted
<1>2. Finished(c) \in SUBSET Team(c)
  BY DEF Finished
<1>3. Cardinality(Finished(c)) <= Cardinality(Team(c))
  BY <1>1, <1>2, FS_Subset
<1>4. Cardinality(Finished(c)) = Cardinality(Team(c))
  BY <1>1, <1>3 DEF PoolTypeOK
<1>5. Finished(c) = Team(c)
  BY <1>1, <1>2, <1>4, FS_Subset
<1> QED
  BY <1>5 DEF Finished

LEMMA SettleKeeps ==
  ASSUME CallerAssumption, PoolInv, PoolTypeOK', NEW c \in Caller, Settle(c)
  PROVE  PoolInv'
<1>1. PoolTypeOK /\ submitter = c /\ Stage(c) /\ at[c] = "collect"
  BY Holder DEF Settle, PoolInv
<1>2. Posted(c)
  BY <1>1 DEF Stage, Posts
<1>3. request[c].keys \in Keys[c]
  BY <1>1 DEF Stage, Posts
<1>4. \A r \in Team(c) : Done(r) /\ Holds(c, r)
  BY <1>1, <1>2, <1>3, AllFinished DEF Settle, Posted
<1>5. \A r \in Ranks : r \in Team(c) <=> r < workers
  BY <1>1, <1>2, RanksNat, LengthNat DEF Team, Posted
<1>6. Quiet
  BY <1>2, <1>4, <1>5 DEF Quiet, Posted, Done, Holds
<1>7. Quiet'
  BY <1>6 DEF Quiet, Settle, threads
<1> QED
  BY <1>1, <1>7, Returned, CallerStep DEF Settle, CallerAssumption
-----------------------------------------------------------------------------
(* Workers *)

\* A step that leaves each phase what it is keeps the invariant.
LEMMA KeepsEach ==
  ASSUME CallerAssumption, PoolInv, PoolTypeOK', UNCHANGED <<submitter, at, request, workers>>,
         Quiet => Quiet', Stopping => Stopping',
         \A c \in Caller : /\ Creating(c) => Creating(c)'
                           /\ Posted(c) /\ Stage(c) /\ at[c] \in Posts => Posted(c)'
  PROVE  PoolInv'
<1>1. ASSUME NEW c \in Caller PROVE Stage(c)'
  BY <1>1 DEF PoolInv, Stage
<1> QED
  BY <1>1, WorkerStep DEF PoolInv

LEMMA SleepKeeps ==
  ASSUME CallerAssumption, PoolInv, PoolTypeOK', NEW r \in Ranks, Sleep(r)
  PROVE  PoolInv'
<1>1. /\ UNCHANGED <<submitter, at, request, errors, workers, stop, taskId, current, activeCount,
                      finishedCount, skipped, last, job, skip, ran>>
      /\ ~stop /\ thread[r] = "loop" /\ last[r] = taskId
  BY DEF Sleep, shared, callers, tasks
<1>2. \A s \in Ranks : thread'[s] = IF s = r THEN "asleep" ELSE thread[s]
  BY DEF Sleep, PoolInv, PoolTypeOK
<1>3. Quiet => Quiet'
  BY <1>1, <1>2 DEF Quiet
<1>4. Stopping => Stopping'
  BY <1>1 DEF Stopping
<1>5. ASSUME NEW c \in Caller, Creating(c) PROVE Creating(c)'
  <2>1. Team(c)' = Team(c)
    BY <1>1 DEF Team
  <2> QED
    BY <1>1, <1>2, <1>5, <2>1 DEF Creating
<1>6. ASSUME NEW c \in Caller, Posted(c), Stage(c), at[c] \in Posts PROVE Posted(c)'
  <2>1. Team(c)' = Team(c) /\ Team(c) \subseteq Ranks
    BY <1>1, <1>6, TeamFacts DEF Team, Stage, Posts
  <2>2. \A s \in Team(c) : Done(s)' = Done(s)
    BY <1>1, <1>2, <2>1 DEF Done
  <2>3. Finished(c)' = Finished(c)
    BY <2>1, <2>2 DEF Finished
  <2>4. ASSUME NEW s \in Team(c) PROVE Holds(c, s)' /\ Outcomes(c, s)'
    BY <1>1, <1>2, <1>6, <2>1, <2>2 DEF Holds, Outcomes, Self, Posted
  <2> QED
    BY <1>1, <1>2, <1>6, <2>1, <2>3, <2>4 DEF Posted
<1> QED
  BY <1>1, <1>3, <1>4, <1>5, <1>6, KeepsEach

LEMMA ExitKeeps ==
  ASSUME CallerAssumption, PoolInv, PoolTypeOK', NEW r \in Ranks, Exit(r)
  PROVE  PoolInv'
<1>1. UNCHANGED <<submitter, at, request, workers, stop>> /\ stop
  BY DEF Exit, shared, callers
<1>2. Stopping => Stopping'
  BY <1>1 DEF Stopping, Exit, PoolInv, PoolTypeOK
<1>3. ~Quiet /\ \A c \in Caller : ~Creating(c) /\ ~Posted(c)
  BY <1>1 DEF Quiet, Creating, Posted
<1> QED
  BY <1>1, <1>2, <1>3, KeepsEach

LEMMA AcceptKeeps ==
  ASSUME CallerAssumption, PoolInv, PoolTypeOK', NEW r \in Ranks, Accept(r)
  PROVE  PoolInv'
<1>1. /\ UNCHANGED <<submitter, at, request, errors, workers, stop, taskId, current, activeCount,
                      finishedCount, skipped>>
      /\ ~stop /\ thread[r] = "loop" /\ last[r] # taskId
  BY DEF Accept, shared, callers
<1>2. PoolTypeOK
  BY DEF PoolInv
<1>3. \A s \in Ranks :
        /\ thread'[s] = IF s = r THEN "busy" ELSE thread[s]
        /\ last'[s] = IF s = r THEN taskId ELSE last[s]
        /\ job'[s] = IF s = r THEN current ELSE job[s]
        /\ skip'[s] = IF s = r THEN skipped /\ r = 0 ELSE skip[s]
  BY <1>2 DEF Accept, PoolTypeOK
<1>4. ~Quiet
  BY <1>1 DEF Quiet
<1>5. ~Stopping /\ \A c \in Caller : ~Creating(c)
  BY <1>1 DEF Stopping, Creating
<1>6. ASSUME NEW c \in Caller, Posted(c), Stage(c), at[c] \in Posts PROVE Posted(c)'
  <2>1. Team(c)' = Team(c) /\ Team(c) \subseteq Ranks
    BY <1>1, <1>6, TeamFacts DEF Team, Stage, Posts
  <2>2. r \in Team(c) /\ Holds(c, r) /\ Outcomes(c, r)
    BY <1>1, <1>6 DEF Posted
  <2>3. \A s \in Team(c) : Done(s)' = Done(s)
    BY <1>1, <1>3, <2>1 DEF Done
  <2>4. Finished(c)' = Finished(c)
    BY <2>1, <2>3 DEF Finished
  <2>5. skipped /\ r = 0 <=> Self(c, r)
    BY <1>6 DEF Posted, Self
  <2>6. \A s \in Team(c) : ran'[s] = IF s = r /\ ~Self(c, r) THEN 1 ELSE ran[s]
    <3>1. CASE Self(c, r)
      BY <2>5, <3>1 DEF Accept, tasks
    <3>2. CASE ~Self(c, r)
      <4>1. ran[r] = 0
        BY <1>1, <2>2, <3>2 DEF Outcomes
      <4>2. Start(r)
        BY <2>5, <3>2 DEF Accept
      <4> QED
        BY <1>2, <2>1, <3>2, <4>1, <4>2 DEF Start, PoolTypeOK
    <3> QED
      BY <3>1, <3>2
  <2>7. ASSUME NEW s \in Team(c) PROVE Holds(c, s)' /\ Outcomes(c, s)'
    <3>1. Holds(c, s) /\ Outcomes(c, s) /\ current = c
      BY <1>6 DEF Posted
    <3>2. Self(c, s)' = Self(c, s)
      BY <1>1 DEF Self
    <3>3. CASE s = r
      <4>1. Holds(c, s)'
        <5>1. skip'[r] = Self(c, r)
          <6>1. skip'[r] = (skipped /\ r = 0)
            BY <1>3
          <6>2. skipped = (request[c].op = "RunWithCaller")
            BY <1>6 DEF Posted
          <6> QED
            BY <6>1, <6>2 DEF Self
        <5>2. thread'[r] = "busy" /\ last'[r] = taskId' /\ job'[r] = c
          BY <1>1, <1>3, <3>1
        <5>3. skip'[s] = Self(c, s)'
          BY <3>2, <3>3, <5>1
        <5> QED
          BY <3>3, <5>2, <5>3 DEF Holds
      <4>2. ~Done(s)'
        BY <1>3, <2>1, <3>3 DEF Done
      <4> QED
        BY <1>1, <1>3, <2>1, <2>6, <3>1, <3>2, <3>3, <4>1, <4>2 DEF Outcomes
    <3>4. CASE s # r
      BY <1>1, <1>3, <2>1, <2>3, <2>6, <3>1, <3>2, <3>4 DEF Holds, Outcomes
    <3> QED
      BY <3>3, <3>4
  <2> QED
    BY <1>1, <1>3, <1>6, <2>1, <2>2, <2>4, <2>7 DEF Posted
<1> QED
  BY <1>1, <1>4, <1>5, <1>6, KeepsEach

LEMMA ReportKeeps ==
  ASSUME CallerAssumption, PoolInv, PoolTypeOK', NEW r \in Ranks, Report(r)
  PROVE  PoolInv'
<1>1. /\ UNCHANGED <<submitter, at, request, workers, stop, taskId, current, activeCount,
                      skipped, last, ran>>
      /\ thread[r] = "busy" /\ finishedCount' = finishedCount + 1
  BY DEF Report
<1>2. PoolTypeOK
  BY DEF PoolInv
<1>3. \A s \in Ranks :
        /\ thread'[s] = IF s = r THEN "loop" ELSE thread[s]
        /\ s # r => job'[s] = job[s] /\ skip'[s] = skip[s]
  BY <1>2 DEF Report, PoolTypeOK
<1>4. ~Quiet
  BY <1>1 DEF Quiet
<1>5. ~Stopping /\ \A c \in Caller : ~Creating(c)
  BY <1>1 DEF Stopping, Creating
<1>6. ASSUME NEW c \in Caller, Posted(c), Stage(c), at[c] \in Posts PROVE Posted(c)'
  <2>1. Team(c)' = Team(c) /\ Team(c) \subseteq Ranks /\ IsFiniteSet(Team(c))
    BY <1>1, <1>6, TeamFacts DEF Team, Stage, Posts
  <2>2. r \in Team(c) /\ Holds(c, r) /\ Outcomes(c, r)
    BY <1>1, <1>6 DEF Posted
  <2>3. last[r] = taskId /\ job[r] = c /\ skip[r] = Self(c, r)
    BY <1>1, <2>2 DEF Holds
  <2>4. \A s \in Team(c) : Done(s)' = (Done(s) \/ s = r)
    BY <1>1, <1>3, <2>1, <2>3 DEF Done
  <2>5. Finished(c)' = Finished(c) \cup {r} /\ r \notin Finished(c)
    BY <1>1, <2>1, <2>2, <2>4 DEF Finished, Done
  <2>6. finishedCount' = Cardinality(Finished(c)')
    <3>1. IsFiniteSet(Finished(c))
      BY <2>1, FS_Subset DEF Finished
    <3>2. Cardinality(Finished(c) \cup {r}) = Cardinality(Finished(c)) + 1
      BY <2>5, <3>1, FS_AddElement
    <3> QED
      BY <1>1, <1>6, <2>5, <3>2 DEF Posted
  <2>7. \A s \in Team(c) :
          errors'[c][s] = IF s = r /\ ~Self(c, r) THEN body[r] ELSE errors[c][s]
    <3>1. CASE Self(c, r)
      BY <2>3, <3>1 DEF Report
    <3>2. CASE ~Self(c, r)
      <4>1. errors' = [errors EXCEPT ![c][r] = body[r]]
        BY <2>3, <3>2 DEF Report, CallerAssumption
      <4> QED
        BY <1>2, <2>1, <3>2, <4>1 DEF PoolTypeOK
    <3> QED
      BY <3>1, <3>2
  <2>8. ASSUME NEW s \in Team(c) PROVE Holds(c, s)' /\ Outcomes(c, s)'
    <3>1. Holds(c, s) /\ Outcomes(c, s)
      BY <1>6 DEF Posted
    <3>2. Self(c, s)' = Self(c, s)
      BY <1>1 DEF Self
    <3>3. CASE s = r
      <4>1. Holds(c, s)'
        BY <1>3, <2>1, <3>3 DEF Holds
      <4>2. CASE Self(c, s)
        BY <1>1, <2>7, <3>1, <3>2, <3>3, <4>1, <4>2 DEF Outcomes
      <4>3. CASE ~Self(c, s)
        <5>1. body[r] \in {"ok", "failed"}
          BY <2>3, <3>3, <4>3 DEF Report
        <5> QED
          BY <1>1, <2>7, <3>1, <3>2, <3>3, <4>1, <4>3, <5>1 DEF Outcomes
      <4> QED
        BY <4>2, <4>3
    <3>4. CASE s # r
      BY <1>1, <1>3, <2>1, <2>4, <2>7, <3>1, <3>2, <3>4 DEF Holds, Outcomes
    <3> QED
      BY <3>3, <3>4
  <2> QED
    BY <1>1, <1>3, <1>6, <2>1, <2>2, <2>6, <2>8 DEF Posted
<1> QED
  BY <1>1, <1>4, <1>5, <1>6, KeepsEach

LEMMA WorkerKeeps ==
  ASSUME CallerAssumption, PoolInv, NEW r \in Ranks, Worker(r)
  PROVE  PoolInv'
<1>1. PoolTypeOK'
  BY WorkerType DEF PoolInv
<1> QED
  BY <1>1, SleepKeeps, ExitKeeps, AcceptKeeps, ReportKeeps DEF Worker

\* The end of a task, and a step that changes nothing.
LEMMA OthersKeep ==
  ASSUME CallerAssumption, PoolInv, PoolTypeOK',
         UNCHANGED <<submitter, shared, callers, threads, ran>>
  PROVE  PoolInv'
<1>1. Quiet => Quiet'
  BY DEF Quiet, shared, threads
<1>2. \A c \in Caller : Stage(c) => Stage(c)'
  BY SameGroup DEF shared, callers, threads
<1> QED
  BY <1>1, <1>2, WorkerStep DEF PoolInv, callers
-----------------------------------------------------------------------------
LEMMA StepKeeps ==
  ASSUME CallerAssumption, PoolInv, [PoolNext]_poolVars
  PROVE  PoolInv'
<1>1. ASSUME NEW c \in Caller, InCall(c) \/ CreateFails(c) PROVE PoolInv'
  <2>1. PoolTypeOK'
    BY <1>1, CallerType DEF PoolInv
  <2> QED
    BY <1>1, <2>1, LockSubmitKeeps, NothingToStopKeeps, StopLockedKeeps, JoinedKeeps,
       CreateThreadKeeps, UnwoundKeeps, CreatedKeeps, PostKeeps, RunSelfKeeps, SelfDoneKeeps,
       CollectKeeps, SettleKeeps, CreateFailsKeeps DEF InCall
<1>2. ASSUME NEW r \in Ranks, NEW outcome \in {"ok", "failed"}, End(r, outcome) PROVE PoolInv'
  <2>1. PoolTypeOK'
    BY <1>2, WorkerType DEF PoolInv
  <2> QED
    BY <1>2, <2>1, OthersKeep DEF End
<1>3. CASE UNCHANGED poolVars
  <2>1. PoolTypeOK'
    BY <1>3 DEF PoolInv, PoolTypeOK, poolVars, shared, callers, threads, tasks
  <2> QED
    BY <1>3, <2>1, OthersKeep DEF poolVars, tasks
<1> QED
  BY <1>1, <1>2, <1>3, CallKeeps, WorkerKeeps DEF PoolNext, PoolStep

LEMMA PoolInvariant == ASSUME CallerAssumption PROVE PoolSpec => []PoolInv
<1>1. PoolInit => PoolInv
  BY InitPool
<1>2. PoolInv /\ [PoolNext]_poolVars => PoolInv'
  BY StepKeeps
<1> QED
  BY <1>1, <1>2, PTL DEF PoolSpec

LEMMA InvBorrowed == ASSUME CallerAssumption, PoolInv PROVE BorrowedAlive
<1> SUFFICES ASSUME NEW r \in Ranks, thread[r] = "busy"
             PROVE  job[r] # NoCaller /\ submitter = job[r] /\ at[job[r]] \in Posts
  BY DEF BorrowedAlive, Busy, Posts
<1>1. ~Quiet /\ ~Stopping /\ \A c \in Caller : ~Creating(c)
  BY DEF Quiet, Stopping, Creating
<1>2. submitter \in Caller /\ at[submitter] \notin {"out", "submit"} /\ Stage(submitter)
  BY <1>1 DEF PoolInv, PoolTypeOK, Locked
<1>3. at[submitter] \in Posts /\ Posted(submitter)
  BY <1>1, <1>2 DEF Stage, PoolInv, PoolTypeOK, PoolPlaces, Posts
<1>4. r \in Team(submitter) /\ Holds(submitter, r)
  BY <1>3 DEF Posted
<1> QED
  BY <1>2, <1>3, <1>4 DEF Holds, CallerAssumption

\* A worker never uses a task or an error vector of a caller whose call is over: both
\* live on the stack of the caller (Run and RunWithCaller, WorkerLoop).
THEOREM PoolBorrowed == ASSUME CallerAssumption PROVE PoolSpec => []BorrowedAlive
<1>1. PoolInv => BorrowedAlive
  BY InvBorrowed
<1> QED
  BY <1>1, PoolInvariant, PTL

\* A call returns only when each rank has run its task exactly once and left its
\* outcome, whichever workers were kept, replaced or late (the wait on doneCv).
THEOREM PoolComplete == ASSUME CallerAssumption PROVE PoolSpec => ReturnsComplete
<1> DEFINE Collected == \A c \in Caller : Settle(c) =>
                          \A r \in Team(c) : ran[r] = 1 /\ errors[c][r] \in {"ok", "failed"}
<1>1. PoolInv => Collected
  <2> SUFFICES ASSUME PoolInv, NEW c \in Caller, Settle(c), NEW r \in Team(c)
               PROVE  ran[r] = 1 /\ errors[c][r] \in {"ok", "failed"}
    OBVIOUS
  <2>1. PoolTypeOK /\ Stage(c) /\ at[c] = "collect"
    BY DEF PoolInv, Settle
  <2>2. Posted(c) /\ request[c].keys \in Keys[c]
    BY <2>1 DEF Stage, Posts
  <2>3. Done(r) /\ Outcomes(c, r)
    BY <2>1, <2>2, AllFinished DEF Settle, Posted
  <2> QED
    BY <2>1, <2>3 DEF Outcomes, Done
<1>2. PoolInv => [Collected]_poolVars
  BY <1>1
<1>3. []PoolInv => [][Collected]_poolVars
  BY <1>2, PTL
<1> QED
  BY <1>3, PoolInvariant DEF ReturnsComplete
-----------------------------------------------------------------------------
(***************************************************************************)
(* TensorParallel.  The step of a rank is a step of the rendezvous because *)
(* a task that runs belongs to the call in progress, and so has a device.  *)
(***************************************************************************)
\* A running task is in the hand of its worker, or of the caller itself.
Tasked ==
  \A r \in Ranks : body[r] = "running" =>
    \/ thread[r] = "busy" /\ ~skip[r]
    \/ r = 0 /\ \E c \in Caller : at[c] = "running"

TensorInv == PoolInv /\ Tasked

LEMMA InitTensor == Init => TensorInv
<1>1. PoolInit => PoolInv
  BY InitPool, KeysAssumption DEF TensorAssumption
<1>2. PoolInit => Tasked
  BY DEF PoolInit, Tasked
<1> QED
  BY <1>1, <1>2 DEF Init, TensorInv
-----------------------------------------------------------------------------
\* A caller that neither starts nor ends a task of its own.
LEMMA AsideTasked ==
  ASSUME TensorInv, NEW c \in Caller, at[c] # "running",
         UNCHANGED <<body, skip>>, \A d \in Caller \ {c} : at'[d] = at[d],
         \A r \in Ranks : thread[r] = "busy" => thread'[r] = "busy"
  PROVE  Tasked'
BY DEF TensorInv, Tasked

LEMMA NotifyKeepsBusy ==
  ASSUME NotifyAll
  PROVE  \A r \in Ranks : thread[r] = "busy" => thread'[r] = "busy"
BY DEF NotifyAll

LEMMA ClearTasked ==
  ASSUME TensorInv, NEW c \in Caller, at[c] \in {"join", "unwind"}, AllGone, UNCHANGED body
  PROVE  Tasked'
<1>1. \A d \in Caller : at[d] # "running"
  BY DEF TensorInv, PoolInv, Locked
<1>2. \A r \in Ranks : thread[r] # "busy"
  BY DEF AllGone
<1> QED
  BY <1>1, <1>2 DEF TensorInv, Tasked

\* The steps of a caller.
LEMMA CallerTasked ==
  ASSUME TensorInv, NEW c \in Caller, Call(c) \/ InCall(c) \/ CreateFails(c)
  PROVE  Tasked'
<1>1. at \in [Caller -> PoolPlaces] /\ body \in [Ranks -> Outcome \cup {"running"}]
  BY DEF TensorInv, PoolInv, PoolTypeOK
<1>2. ASSUME NEW place, Go(c, place) PROVE \A d \in Caller \ {c} : at'[d] = at[d]
  BY <1>1, <1>2 DEF Go
<1>3. CASE Call(c) \/ LockSubmit(c) \/ Created(c)
  BY <1>2, <1>3, AsideTasked DEF Call, LockSubmit, Created, threads, tasks
<1>4. CASE Post(c) \/ StopLocked(c) \/ CreateFails(c)
  BY <1>2, <1>4, AsideTasked, NotifyKeepsBusy DEF Post, StopLocked, CreateFails, tasks
<1>5. CASE NothingToStop(c)
  <2>1. \A d \in Caller \ {c} : at'[d] = at[d]
    BY <1>2, <1>5 DEF NothingToStop, Stopped, CallReturns
  <2> QED
    BY <1>5, <2>1, AsideTasked DEF NothingToStop, threads, tasks
<1>6. CASE Joined(c) \/ Unwound(c)
  BY <1>6, ClearTasked DEF Joined, Unwound, tasks
<1>7. ASSUME NEW r \in Ranks, CreateThread(c, r) PROVE Tasked'
  <2>1. \A s \in Ranks : thread[s] = "busy" => thread'[s] = "busy"
    BY <1>7 DEF CreateThread, TensorInv, PoolInv, PoolTypeOK
  <2> QED
    BY <1>7, <2>1, AsideTasked DEF CreateThread, callers, tasks
<1>8. CASE RunSelf(c)
  <2>1. at'[c] = "running" /\ UNCHANGED <<thread, skip>>
    BY <1>1, <1>8 DEF RunSelf, Go, threads
  <2>2. \A r \in Ranks : r # 0 => body'[r] = body[r]
    BY <1>1, <1>8 DEF RunSelf, Start
  <2> QED
    BY <2>1, <2>2 DEF TensorInv, Tasked
<1>9. CASE SelfDone(c)
  <2>1. UNCHANGED <<thread, skip>>
    BY <1>9 DEF SelfDone, threads
  <2>2. \A r \in Ranks : body'[r] = IF r = 0 THEN "idle" ELSE body[r]
    BY <1>1, <1>9 DEF SelfDone
  <2> QED
    BY <2>1, <2>2 DEF TensorInv, Tasked
<1>10. CASE Collect(c)
  BY <1>10, AsideTasked DEF Collect, callers, threads, tasks
<1>11. CASE Settle(c)
  BY <1>2, <1>11, AsideTasked DEF Settle, CallReturns, threads, tasks
<1> QED
  BY <1>3, <1>4, <1>5, <1>6, <1>7, <1>8, <1>9, <1>10, <1>11 DEF InCall

\* The steps of a worker.
LEMMA WorkerTasked ==
  ASSUME TensorInv, NEW r \in Ranks, Worker(r)
  PROVE  Tasked'
<1>1. PoolTypeOK
  BY DEF TensorInv, PoolInv
<1>2. UNCHANGED at
  BY DEF Worker, Sleep, Exit, Accept, Report, callers
<1>3. \A s \in Ranks \ {r} : UNCHANGED <<thread[s], skip[s], body[s]>>
  <2>1. CASE Sleep(r) \/ Exit(r)
    BY <1>1, <2>1 DEF Sleep, Exit, PoolTypeOK, tasks
  <2>2. CASE Accept(r)
    BY <1>1, <2>2 DEF Accept, Start, PoolTypeOK, tasks
  <2>3. CASE Report(r)
    BY <1>1, <2>3 DEF Report, PoolTypeOK
  <2> QED
    BY <2>1, <2>2, <2>3 DEF Worker
<1>4. ASSUME body[r] = "running", thread[r] # "busy" \/ skip[r]
      PROVE  r = 0 /\ \E c \in Caller : at[c] = "running"
  BY <1>4 DEF TensorInv, Tasked
<1>5. ASSUME body'[r] = "running"
      PROVE  \/ thread'[r] = "busy" /\ ~skip'[r]
             \/ r = 0 /\ \E c \in Caller : at[c] = "running"
  <2>1. CASE Sleep(r) \/ Exit(r)
    BY <1>4, <1>5, <2>1 DEF Sleep, Exit, tasks
  <2>2. CASE Accept(r)
    <3>1. thread'[r] = "busy" /\ skip'[r] = (skipped /\ r = 0) /\ thread[r] = "loop"
      BY <1>1, <2>2 DEF Accept, PoolTypeOK
    <3>2. CASE skipped /\ r = 0
      BY <1>4, <1>5, <2>2, <3>1, <3>2 DEF Accept, tasks
    <3> QED
      BY <3>1, <3>2
  <2>3. CASE Report(r)
    <3>1. CASE skip[r]
      BY <1>4, <1>5, <2>3, <3>1 DEF Report
    <3>2. CASE ~skip[r]
      BY <1>1, <1>5, <2>3, <3>2 DEF Report, PoolTypeOK
    <3> QED
      BY <3>1, <3>2
  <2> QED
    BY <2>1, <2>2, <2>3 DEF Worker
<1> QED
  BY <1>2, <1>3, <1>5 DEF TensorInv, Tasked

LEMMA EndTasked ==
  ASSUME TensorInv, NEW r \in Ranks, NEW outcome \in {"ok", "failed"}, End(r, outcome)
  PROVE  Tasked'
BY DEF End, TensorInv, PoolInv, PoolTypeOK, Tasked, callers, threads

LEMMA PoolTasked ==
  ASSUME TensorInv, [PoolNext]_poolVars
  PROVE  TensorInv'
<1>1. PoolInv'
  BY StepKeeps, KeysAssumption DEF TensorAssumption, TensorInv
<1>2. ASSUME UNCHANGED poolVars PROVE Tasked'
  <2>1. UNCHANGED <<at, thread, skip, body>>
    BY <1>2 DEF poolVars, callers, threads, tasks
  <2> QED
    BY <2>1 DEF TensorInv, Tasked
<1>3. ASSUME PoolNext PROVE Tasked'
  BY <1>3, CallerTasked, WorkerTasked, EndTasked DEF PoolNext, PoolStep
<1> QED
  BY <1>1, <1>2, <1>3 DEF TensorInv
-----------------------------------------------------------------------------
\* The device of a running task is one of the group.
LEMMA DeviceInRank ==
  ASSUME TensorInv, NEW r \in Ranks, body[r] = "running"
  PROVE  Device(r) \in Rank
<1>1. CallerAssumption
  BY KeysAssumption DEF TensorAssumption
<1>2. submitter \in Caller /\ request[submitter].keys \in Keys[submitter] /\ r \in Team(submitter)
  <2>1. CASE thread[r] = "busy"
    <3>1. submitter \in Caller /\ at[submitter] \in Posts
      BY <1>1, <2>1, InvBorrowed DEF TensorInv, PoolInv, PoolTypeOK, BorrowedAlive, Busy, Posts
    <3>2. Posted(submitter) /\ request[submitter].keys \in Keys[submitter]
      BY <3>1 DEF TensorInv, PoolInv, Stage, Posts
    <3> QED
      BY <2>1, <3>1, <3>2 DEF Posted
  <2>2. ASSUME NEW c \in Caller, r = 0, at[c] = "running"
        PROVE  submitter = c /\ request[c].keys \in Keys[c] /\ 0 \in Team(c)
    <3>1. submitter = c /\ Stage(c)
      BY <2>2, Holder DEF TensorInv
    <3>2. request[c].keys \in Keys[c]
      BY <2>2, <3>1 DEF Stage, Posts
    <3> QED
      BY <1>1, <3>1, <3>2, TeamFacts
  <2> QED
    BY <2>1, <2>2 DEF TensorInv, Tasked
<1> DEFINE ks == request[submitter].keys
<1>3. ks \in Seq(Rank) /\ r \in 0..Len(ks) - 1
  BY <1>2, KeysAssumption DEF TensorAssumption, Team
<1> HIDE DEF ks
<1>4. ks[r + 1] \in Rank
  BY <1>3
<1> QED
  BY <1>4 DEF Device, ks

\* A step of the whole is a step of the group, or none ..
LEMMA StepsGroup == [Next]_vars => [PoolNext]_poolVars
<1>1. ASSUME NEW r \in Ranks, Pass(r) PROVE [PoolNext]_poolVars
  BY <1>1 DEF Pass, Reduce, InReduce, PassEnds, PoolNext
<1> QED
  BY <1>1 DEF Next, GroupStep, PoolNext, vars

\* .. and a step of the rendezvous, or none.
LEMMA StepsGate == ASSUME TensorInv, [Next]_vars PROVE [GateNext]_gateVars
<1>1. ASSUME NEW r \in Ranks, Pass(r) PROVE [GateNext]_gateVars
  <2>1. Device(r) \in Rank
    BY <1>1, DeviceInRank DEF Pass, Reduce, InReduce, PassEnds
  <2> QED
    BY <1>1, <2>1 DEF Pass, Reduce, InReduce, PassEnds, GateNext
<1> QED
  BY <1>1 DEF Next, GroupStep, vars

LEMMA TensorInvariant == Spec => []TensorInv
<1>1. TensorInv /\ [Next]_vars => TensorInv'
  BY StepsGroup, PoolTasked
<1> QED
  BY <1>1, InitTensor, PTL DEF Spec

\* A pass on any number of devices does with its worker threads what the worker
\* group allows (ForwardGPU through PersistentWorkerGroup::RunWithCaller).
THEOREM TensorImplementsGroup == Spec => PoolSpec
<1>1. Init => PoolInit
  BY DEF Init
<1> QED
  BY <1>1, StepsGroup, PTL DEF Spec, PoolSpec

\* .. and its AllReduces are those of one rendezvous in which every device takes part
\* (FastllmNcclAllReduceImpl).
THEOREM TensorImplementsGate == Spec => GateSpec
<1>1. Init => GateInit
  BY DEF Init
<1>2. TensorInv /\ [Next]_vars => [GateNext]_gateVars
  BY StepsGate
<1> QED
  BY <1>1, <1>2, TensorInvariant, PTL DEF Spec, GateSpec

\* In a whole pass no device is through with an AllReduce that another has not
\* submitted, whatever throws, times out or is replaced.
THEOREM TensorNoneAhead == Spec => []NoneAhead
BY TensorImplementsGate, GateNoneAhead

\* Devices that submit at the same time submit the same AllReduce.
THEOREM TensorSubmitTogether == Spec => []SubmitTogether
BY TensorImplementsGate, GateSubmitTogether

\* No worker uses the task or the error vector of a call that is over.
THEOREM TensorBorrowed == Spec => []BorrowedAlive
BY TensorImplementsGroup, PoolBorrowed, KeysAssumption DEF TensorAssumption

\* A call returns when every device has run its pass once and left its outcome.
THEOREM TensorComplete == Spec => ReturnsComplete
BY TensorImplementsGroup, PoolComplete, KeysAssumption DEF TensorAssumption
===============================================================================
