------------------------ MODULE CustomAllReduceProofs ------------------------
(***************************************************************************)
(* Proofs about CustomAllReduce for any devices and streams of AllReduces. *)
(* A lease keeps the state it was granted on; the leases are all of        *)
(* requests or all of the selection, so a rank has one of them at most and *)
(* a round that is full has every thread with a lease in it: nobody is     *)
(* still to learn the result of the round before.                          *)
(***************************************************************************)
EXTENDS CustomAllReduce, FiniteSetTheorems, TLAPS

Meeting == {"wait", "build"}
Holding == {"arrive", "launch", "release"} \cup Meeting
Places == Holding \cup {"out", "acquire", "nccl"}
Word(ok) == IF ok THEN "launch" ELSE "fallback"

Leased == {t \in Thread : HasLease(t)}

\* The threads in the round that is open.
Here == {t \in Thread : pc[t] \in Meeting /\ waitGeneration[t] = generation}

\* The threads that serve what t serves, one for each rank.
Side(t) == {u \in Thread : u.private = t.private}

CallType ==
  /\ setup \in {"idle", "reset", "quiesce", "drain", "init", "tuning", "undo"}
  /\ memory \in {"none", "live", "draining"}
  /\ generation \in Nat /\ finished \in Nat
  /\ pc \in [Thread -> Places] /\ waitGeneration \in [Thread -> Nat]
  /\ verdict \in [Thread -> {"none", "launch", "fallback"}]
  /\ launched \in [Rank -> Nat]

\* What there is to use.
Life ==
  /\ initialized <=> memory = "live"
  /\ setup \in {"drain", "undo"} => ~initialized
  /\ ~Drained => memory # "none"

\* Who uses it.
Leases ==
  /\ activeCalls = Cardinality(Leased)
  /\ Leased # {} => initialized
  /\ setup = "tuning" => ~enabled /\ Leased \subseteq Private
  /\ \A t \in Private : pc[t] # "out" => setup = "tuning"

\* A thread in a round is in the open one or in the one before, whose result is lastOk.
Placed(t) ==
  /\ pc[t] \in Meeting =>
       verdict[t] = "none" /\ waitGeneration[t] \in {generation, generation - 1}
  /\ pc[t] = "build" => waitGeneration[t] = generation
  /\ verdict[t] # "none" =>
       /\ waitGeneration[t] < generation
       /\ waitGeneration[t] = generation - 1 => verdict[t] = Word(lastOk)

\* The builder is alone, and the round is full then.
Builds ==
  \A t \in Thread : pc[t] = "build" =>
    arrived >= Cardinality(Rank) /\ \A u \in Thread : pc[u] = "build" => u = t

Rounds ==
  /\ \A t \in Thread : Placed(t)
  /\ arrived = Cardinality(Here)
  /\ Builds /\ RoundsAgree

CallInv == CallType /\ Life /\ Leases /\ Rounds
-----------------------------------------------------------------------------
LEMMA ThreadsFinite ==
  /\ IsFiniteSet(Thread)
  /\ \A t \in Thread : Cardinality(Side(t)) <= Cardinality(Rank)
<1> DEFINE Half(b) == {t \in Thread : t.private = b}
<1>1. ASSUME NEW b \in BOOLEAN
      PROVE  IsFiniteSet(Half(b)) /\ Cardinality(Half(b)) <= Cardinality(Rank)
  <2> DEFINE f == [r \in Rank |-> [rank |-> r, private |-> b]]
  <2>1. f \in [Rank -> Half(b)]
    BY DEF Thread
  <2>2. \A t \in Half(b) : t.rank \in Rank /\ f[t.rank] = t
    BY DEF Thread
  <2>3. f \in Surjection(Rank, Half(b))
    BY <2>1, <2>2 DEF Surjection
  <2> HIDE DEF f
  <2> QED
    BY <2>3, FS_Surjection, CustomAssumption
<1>2. Thread = Half(TRUE) \cup Half(FALSE)
  BY DEF Thread
<1>3. IsFiniteSet(Thread)
  BY <1>1, <1>2, FS_Union
<1>4. \A t \in Thread : t.private \in BOOLEAN /\ Side(t) = Half(t.private)
  BY DEF Thread, Side
<1> QED
  BY <1>1, <1>3, <1>4

LEMMA Numbers ==
  ASSUME CallInv
  PROVE  /\ IsFiniteSet(Leased) /\ IsFiniteSet(Here)
         /\ activeCalls \in Nat /\ arrived \in Nat /\ Cardinality(Rank) \in Nat
<1>1. Leased \in SUBSET Thread /\ Here \in SUBSET Thread
  BY DEF Leased, Here
<1> QED
  BY <1>1, ThreadsFinite, FS_Subset, FS_CardinalityType, CustomAssumption DEF CallInv, Leases, Rounds

\* Leases are of one side.
LEMMA OneSide ==
  ASSUME Leases
  PROVE  \A t, u \in Leased : t.private = u.private
<1>1. \A t \in Leased : t \in Private => setup = "tuning"
  BY DEF Leases, Leased, HasLease
<1>2. \A t, u \in Leased : t \in Private <=> u \in Private
  BY <1>1 DEF Leases
<1> QED
  BY <1>2 DEF Private, Public, Leased, Thread

\* A full round has everybody with a lease in it.
LEMMA FullRound ==
  ASSUME CallInv, NEW t \in Leased, IsFiniteSet(Here \cup {t}),
         Cardinality(Here \cup {t}) >= Cardinality(Rank)
  PROVE  Leased = Here \cup {t}
<1>1. t \in Thread /\ Here \subseteq Leased
  BY DEF Leased, Here, HasLease, Meeting
<1>2. Leased \subseteq Side(t)
  BY OneSide DEF CallInv, Side, Leased
<1>3. Here \cup {t} \in SUBSET Side(t)
  BY <1>1, <1>2
<1>4. IsFiniteSet(Side(t)) /\ Cardinality(Side(t)) <= Cardinality(Rank)
  <2>1. Side(t) \in SUBSET Thread
    BY DEF Side
  <2> QED
    BY <1>1, <2>1, ThreadsFinite, FS_Subset
<1>5. Cardinality(Here \cup {t}) = Cardinality(Side(t))
  <2>1. Cardinality(Here \cup {t}) <= Cardinality(Side(t))
    BY <1>3, <1>4, FS_Subset
  <2>2. Cardinality(Here \cup {t}) \in Nat /\ Cardinality(Side(t)) \in Nat /\ Cardinality(Rank) \in Nat
    BY <1>4, FS_CardinalityType, CustomAssumption
  <2> QED
    BY <1>4, <2>1, <2>2
<1>6. Side(t) = Here \cup {t}
  BY <1>3, <1>4, <1>5, FS_Subset
<1> QED
  BY <1>1, <1>2, <1>6
-----------------------------------------------------------------------------
LEMMA InitCall == Init => CallInv
<1> SUFFICES ASSUME Init PROVE CallInv
  OBVIOUS
<1>1. CallType /\ Life
  BY CustomAssumption DEF Init, CallType, Life, Places, Drained
<1>2. Leased = {} /\ Here = {}
  BY DEF Init, Leased, HasLease, Here, Meeting
<1>3. Cardinality({}) = 0
  BY FS_EmptySet
<1>4. Leases
  BY <1>2, <1>3 DEF Init, Leases, Private
<1>5. Rounds
  BY <1>2, <1>3 DEF Init, Rounds, Placed, Builds, RoundsAgree, SameRound, InRound, Meeting
<1> QED
  BY <1>1, <1>4, <1>5 DEF CallInv
-----------------------------------------------------------------------------
(* Steps of a call outside the rendezvous *)

LEMMA LeasedStays ==
  ASSUME CallType, NEW t \in Thread, NEW s, Go(t, s), s \in Holding <=> pc[t] \in Holding
  PROVE  Leased' = Leased
<1>1. \A u \in Thread : pc'[u] = IF u = t THEN s ELSE pc[u]
  BY DEF CallType, Go
<1> QED
  BY <1>1 DEF Leased, HasLease, Holding, Meeting, Thread

LEMMA LeasesStay ==
  ASSUME CallInv, UNCHANGED <<setup, enabled, initialized, activeCalls>>, Leased' = Leased,
         \A u \in Private : pc'[u] # "out" => pc[u] # "out" \/ setup = "tuning"
  PROVE  Leases'
BY DEF CallInv, Leases, Private, Public, Thread

LEMMA LifeStays ==
  ASSUME CallInv, UNCHANGED <<life, setup, launched, finished>>
  PROVE  Life'
BY DEF CallInv, Life, life, Drained

LEMMA RoundStays ==
  ASSUME CallInv, NEW t \in Thread, NEW s, Go(t, s), pc[t] \notin Meeting, s \notin Meeting,
         UNCHANGED <<generation, arrived, lastOk, waitGeneration>>,
         verdict' = verdict \/ verdict' = [verdict EXCEPT ![t] = "none"]
  PROVE  Rounds'
<1>1. \A u \in Thread : /\ pc'[u] = IF u = t THEN s ELSE pc[u]
                        /\ verdict'[u] = "none" \/ verdict'[u] = verdict[u]
  BY DEF CallInv, CallType, Go
<1>2. Thread' = Thread
  BY DEF Thread
<1>3. \A u \in Thread : pc'[u] \in Meeting \/ pc[u] \in Meeting =>
        pc'[u] = pc[u] /\ verdict'[u] = verdict[u]
  BY <1>1 DEF CallInv, CallType
<1>4. Here' = Here
  BY <1>2, <1>3 DEF Here
<1>5. \A u \in Thread : Placed(u)'
  BY <1>1, <1>3 DEF CallInv, Rounds, Placed, Meeting
<1>6. Builds'
  BY <1>2, <1>3 DEF CallInv, Rounds, Builds, Meeting
<1>7. RoundsAgree'
  <2>1. \A u \in Thread : InRound(u)' => InRound(u)
    BY <1>1, <1>3 DEF InRound, Meeting
  <2> QED
    BY <1>1, <1>2, <2>1 DEF CallInv, Rounds, RoundsAgree, SameRound
<1> QED
  BY <1>2, <1>4, <1>5, <1>6, <1>7 DEF CallInv, Rounds

LEMMA AllReduceKeeps ==
  ASSUME CallInv, NEW t \in Thread, AllReduce(t)
  PROVE  CallInv'
<1>1. /\ pc[t] = "out" /\ Go(t, "acquire") /\ (t.private => setup = "tuning")
      /\ verdict' = [verdict EXCEPT ![t] = "none"]
      /\ UNCHANGED <<group, life, activeCalls, round, waitGeneration, device>>
  BY DEF AllReduce
<1>2. CallType'
  BY <1>1 DEF CallInv, CallType, Go, group, life, round, device, Places
<1>3. Life' /\ Rounds'
  BY <1>1, LifeStays, RoundStays DEF group, round, device, Meeting
<1>4. Leased' = Leased
  BY <1>1, LeasedStays DEF CallInv, Holding, Meeting
<1>5. \A u \in Private : pc'[u] # "out" => pc[u] # "out" \/ setup = "tuning"
  BY <1>1 DEF CallInv, CallType, Go, Private, Public
<1>6. Leases'
  BY <1>1, <1>4, <1>5, LeasesStay DEF group, life
<1> QED
  BY <1>2, <1>3, <1>6 DEF CallInv

\* A lease is granted on what there is to use, to one side.
LEMMA GrantedKeeps ==
  ASSUME CallInv, NEW t \in Thread, Acquire(t), Granted(t), activeCalls' = activeCalls + 1,
         Go(t, "arrive")
  PROVE  CallInv'
<1>1. pc[t] = "acquire" /\ UNCHANGED <<group, life, round, waitGeneration, verdict, device>>
  BY DEF Acquire
<1>2. CallType'
  BY <1>1 DEF CallInv, CallType, Go, group, life, round, device, Places, Holding
<1>3. Life' /\ Rounds'
  BY <1>1, LifeStays, RoundStays DEF group, round, device, Meeting
<1>4. \A u \in Thread : pc'[u] = IF u = t THEN "arrive" ELSE pc[u]
  BY DEF CallInv, CallType, Go
<1>5. Leased' = Leased \cup {t} /\ t \notin Leased
  BY <1>1, <1>4 DEF Leased, HasLease, Thread
<1>6. activeCalls' = Cardinality(Leased')
  BY <1>5, Numbers, FS_AddElement DEF CallInv, Leases
<1>7. setup = "tuning" => t \in Private
  BY DEF Granted, CallInv, Leases, Private, Public
<1>8. \A u \in Private : pc'[u] # "out" => pc[u] # "out"
  BY <1>1, <1>4 DEF Private
<1> QED
  BY <1>1, <1>2, <1>3, <1>5, <1>6, <1>7, <1>8
  DEF CallInv, Leases, Granted, group, life, Private, Public, Thread

\* Without a lease, or with one and the launch decided.
LEMMA AsideKeeps ==
  ASSUME CallInv, NEW t \in Thread, (Acquire(t) /\ Go(t, "nccl")) \/ Nccl(t)
  PROVE  CallInv'
<1> DEFINE s == IF pc[t] = "acquire" THEN "nccl" ELSE "out"
<1>1. /\ pc[t] \in {"acquire", "nccl"} /\ Go(t, s)
      /\ UNCHANGED <<group, life, activeCalls, round, waitGeneration, verdict, device>>
  <2>1. CASE Acquire(t) /\ Go(t, "nccl")
    <3>1. pc[t] = "acquire" /\ pc'[t] = "nccl"
      BY <2>1 DEF Acquire, Go, CallInv, CallType
    <3>2. UNCHANGED activeCalls
      BY <2>1, <3>1 DEF Acquire, Go, CallInv, CallType
    <3> QED
      BY <2>1, <3>1, <3>2 DEF Acquire
  <2>2. CASE Nccl(t)
    BY <2>2 DEF Nccl
  <2> QED
    BY <2>1, <2>2
<1>2. s \in {"nccl", "out"}
  OBVIOUS
<1> HIDE DEF s
<1>3. CallType'
  BY <1>1, <1>2 DEF CallInv, CallType, Go, group, life, round, device, Places
<1>4. Life' /\ Rounds'
  BY <1>1, <1>2, LifeStays, RoundStays DEF group, round, device, Meeting
<1>5. Leased' = Leased
  BY <1>1, <1>2, LeasedStays DEF CallInv, Holding, Meeting
<1>6. \A u \in Private : pc'[u] # "out" => pc[u] # "out" \/ setup = "tuning"
  BY <1>1 DEF CallInv, CallType, Go, Private, Public
<1>7. Leases'
  BY <1>1, <1>5, <1>6, LeasesStay DEF group, life
<1> QED
  BY <1>3, <1>4, <1>7 DEF CallInv

\* A kernel is launched under a lease, so there is memory for it.
LEMMA LaunchKeeps ==
  ASSUME CallInv, NEW t \in Thread, Launch(t)
  PROVE  CallInv'
<1>1. /\ pc[t] = "launch" /\ Go(t, "release") /\ launched' = [launched EXCEPT ![t.rank] = @ + 1]
      /\ UNCHANGED <<group, life, activeCalls, round, waitGeneration, verdict, finished>>
  BY DEF Launch
<1>2. CallType'
  BY <1>1 DEF CallInv, CallType, Go, group, life, round, Places, Holding, Thread
<1>3. Rounds'
  BY <1>1, RoundStays DEF round, Meeting
<1>4. t \in Leased
  BY <1>1 DEF Leased, HasLease
<1>5. Life'
  BY <1>1, <1>4 DEF CallInv, Life, Leases, group, life
<1>6. Leased' = Leased
  BY <1>1, LeasedStays DEF CallInv, Holding, Meeting
<1>7. \A u \in Private : pc'[u] # "out" => pc[u] # "out"
  BY <1>1 DEF CallInv, CallType, Go, Private, Public
<1>8. Leases'
  BY <1>1, <1>6, <1>7, LeasesStay DEF group, life
<1> QED
  BY <1>2, <1>3, <1>5, <1>8 DEF CallInv

LEMMA ReleaseKeeps ==
  ASSUME CallInv, NEW t \in Thread, Release(t)
  PROVE  CallInv'
<1> DEFINE s == IF verdict[t] = "launch" THEN "out" ELSE "nccl"
<1>1. /\ pc[t] = "release" /\ Go(t, s) /\ activeCalls' = activeCalls - 1
      /\ UNCHANGED <<group, life, round, waitGeneration, verdict, device>>
  BY DEF Release
<1>2. s \in {"nccl", "out"}
  OBVIOUS
<1> HIDE DEF s
<1>3. CallType'
  BY <1>1, <1>2 DEF CallInv, CallType, Go, group, life, round, device, Places
<1>4. Life' /\ Rounds'
  BY <1>1, <1>2, LifeStays, RoundStays DEF group, round, device, Meeting
<1>5. \A u \in Thread : pc'[u] = IF u = t THEN s ELSE pc[u]
  BY <1>1 DEF CallInv, CallType, Go
<1>6. Leased' = Leased \ {t} /\ t \in Leased
  BY <1>1, <1>2, <1>5 DEF Leased, HasLease, Thread
<1>7. activeCalls' = Cardinality(Leased')
  BY <1>1, <1>6, Numbers, FS_RemoveElement DEF CallInv, Leases
<1>8. \A u \in Private : pc'[u] # "out" => pc[u] # "out"
  BY <1>1, <1>5 DEF Private
<1>9. Leases'
  BY <1>1, <1>6, <1>7, <1>8 DEF CallInv, Leases, group, life, Private, Public, Thread
<1> QED
  BY <1>3, <1>4, <1>9 DEF CallInv
-----------------------------------------------------------------------------
(* The rendezvous *)

\* A thread comes into the open round, which stays open.
LEMMA JoinRound ==
  ASSUME CallInv, NEW t \in Thread, NEW s \in Meeting, pc[t] = "arrive", Go(t, s),
         IF s = "build" THEN arrived + 1 = Cardinality(Rank) ELSE arrived + 1 # Cardinality(Rank),
         arrived' = arrived + 1, UNCHANGED <<generation, lastOk>>,
         waitGeneration' = [waitGeneration EXCEPT ![t] = generation],
         verdict' = [verdict EXCEPT ![t] = "none"]
  PROVE  Rounds'
<1>1. \A u \in Thread : /\ pc'[u] = IF u = t THEN s ELSE pc[u]
                        /\ waitGeneration'[u] = IF u = t THEN generation ELSE waitGeneration[u]
                        /\ verdict'[u] = IF u = t THEN "none" ELSE verdict[u]
  BY DEF CallInv, CallType, Go
<1>2. t \in Leased /\ t \notin Here /\ Thread' = Thread
  BY DEF Leased, HasLease, Here, Meeting, Thread
<1>3. Here' = Here \cup {t}
  BY <1>1, <1>2 DEF Here
<1>4. arrived' = Cardinality(Here')
  BY <1>2, <1>3, Numbers, FS_AddElement DEF CallInv, Rounds
<1>5. \A u \in Thread : Placed(u)'
  BY <1>1 DEF CallInv, Rounds, Placed, CallType
<1>6. Builds'
  <2>1. arrived \in Nat /\ Cardinality(Rank) \in Nat
    BY Numbers
  <2>2. s = "build" => \A u \in Thread : pc[u] # "build"
    BY <2>1 DEF CallInv, Rounds, Builds
  <2> QED
    BY <1>1, <1>2, <2>1, <2>2 DEF CallInv, Rounds, Builds
<1>7. ASSUME NEW u \in Thread, u # t, InRound(u), waitGeneration[u] = generation
      PROVE  u.private = t.private
  <2>1. verdict[u] = "none"
    BY <1>7 DEF CallInv, CallType, Rounds, Placed
  <2>2. u \in Leased
    BY <1>7, <2>1 DEF InRound, Leased, HasLease
  <2> QED
    BY <1>2, <2>2, OneSide DEF CallInv
<1>8. RoundsAgree'
  BY <1>1, <1>2, <1>7 DEF CallInv, Rounds, RoundsAgree, SameRound, InRound
<1> QED
  BY <1>2, <1>4, <1>5, <1>6, <1>8 DEF Rounds

\* The last thread opens the next round, and everybody is still to learn the result.
LEMMA OpenRound ==
  ASSUME CallInv, NEW t \in Leased, NEW s \in Places \ Meeting, NEW ok \in BOOLEAN,
         Leased = Here \cup {t}, \A u \in Thread : pc[u] = "build" => u = t,
         Go(t, s), Open(ok), verdict' = [verdict EXCEPT ![t] = Word(ok)],
         waitGeneration' = [waitGeneration EXCEPT ![t] = generation]
  PROVE  Rounds'
<1>1. t \in Thread /\ Thread' = Thread
  BY DEF Leased, Thread
<1>2. \A u \in Thread : /\ pc'[u] = IF u = t THEN s ELSE pc[u]
                        /\ waitGeneration'[u] = IF u = t THEN generation ELSE waitGeneration[u]
                        /\ verdict'[u] = IF u = t THEN Word(ok) ELSE verdict[u]
  BY <1>1 DEF CallInv, CallType, Go
<1>3. generation \in Nat /\ generation' = generation + 1 /\ arrived' = 0 /\ lastOk' = ok
  BY DEF CallInv, CallType, Open
<1>4. ASSUME NEW u \in Thread, u # t, pc[u] \in Meeting
      PROVE  pc[u] = "wait" /\ waitGeneration[u] = generation /\ verdict[u] = "none"
  <2>1. u \in Leased
    BY <1>4 DEF Leased, HasLease, Meeting
  <2> QED
    BY <1>4, <2>1 DEF Here, Meeting, CallInv, Rounds, Placed
<1>5. \A u \in Thread : verdict[u] # "none" => waitGeneration[u] < generation
  BY DEF CallInv, Rounds, Placed
<1>6. \A u \in Thread : Placed(u)'
  BY <1>2, <1>3, <1>4, <1>5 DEF Placed, Meeting, CallInv, CallType
<1>7. arrived' = Cardinality(Here')
  <2>1. Here' = {}
    BY <1>1, <1>2, <1>3, <1>4 DEF Here
  <2> QED
    BY <1>3, <2>1, FS_EmptySet
<1>8. Builds'
  BY <1>1, <1>2, <1>4 DEF Builds, Meeting
<1>9. ASSUME NEW u \in Thread, u # t, InRound(u), waitGeneration[u] = generation
      PROVE  u.private = t.private /\ verdict[u] = "none"
  <2>1. verdict[u] = "none"
    BY <1>3, <1>5, <1>9
  <2>2. u \in Leased
    BY <1>9, <2>1 DEF InRound, Leased, HasLease
  <2> QED
    BY <2>1, <2>2, OneSide DEF CallInv
<1>10. RoundsAgree'
  BY <1>1, <1>2, <1>9 DEF CallInv, Rounds, RoundsAgree, SameRound, InRound, Meeting
<1> QED
  BY <1>1, <1>6, <1>7, <1>8, <1>10 DEF Rounds

\* A thread of the round before learns its result.
LEMMA LeaveRound ==
  ASSUME CallInv, NEW t \in Thread, NEW s \in Places \ Meeting, pc[t] = "wait",
         generation # waitGeneration[t], Go(t, s), verdict' = [verdict EXCEPT ![t] = Word(lastOk)],
         UNCHANGED <<generation, arrived, lastOk, waitGeneration>>
  PROVE  Rounds'
<1>1. Thread' = Thread
  BY DEF Thread
<1>2. \A u \in Thread : /\ pc'[u] = IF u = t THEN s ELSE pc[u]
                        /\ verdict'[u] = IF u = t THEN Word(lastOk) ELSE verdict[u]
  BY DEF CallInv, CallType, Go
<1>3. generation \in Nat /\ waitGeneration[t] = generation - 1
  BY DEF CallInv, CallType, Rounds, Placed, Meeting
<1>4. Here' = Here
  BY <1>1, <1>2, <1>3 DEF Here
<1>5. \A u \in Thread : Placed(u)'
  BY <1>2, <1>3 DEF CallInv, Rounds, Placed, Meeting
<1>6. Builds'
  BY <1>1, <1>2 DEF CallInv, Rounds, Builds, Meeting
<1>7. \A u \in Thread : verdict[u] # "none" /\ waitGeneration[u] = waitGeneration[t] =>
        verdict[u] = Word(lastOk)
  BY <1>3 DEF CallInv, Rounds, Placed
<1>8. \A u \in Thread : InRound(u)' => InRound(u)
  BY <1>2 DEF InRound, Meeting
<1>9. RoundsAgree'
  BY <1>1, <1>2, <1>7, <1>8 DEF CallInv, Rounds, RoundsAgree, SameRound
<1> QED
  BY <1>1, <1>4, <1>5, <1>6, <1>9 DEF CallInv, Rounds

\* What no step of the rendezvous touches.
LEMMA MeetingKeeps ==
  ASSUME CallInv, NEW t \in Thread, NEW s \in Holding, pc[t] \in Holding, Go(t, s), Rounds',
         generation' \in Nat, waitGeneration' \in [Thread -> Nat],
         verdict' \in [Thread -> {"none", "launch", "fallback"}],
         UNCHANGED <<group, life, activeCalls, device>>
  PROVE  CallInv'
<1>1. CallType'
  BY DEF CallInv, CallType, Go, group, life, device, Places, Thread
<1>2. Life'
  BY LifeStays DEF group, device
<1>3. Leased' = Leased
  BY LeasedStays DEF CallInv
<1>4. \A u \in Private : pc'[u] # "out" => pc[u] # "out"
  BY DEF CallInv, CallType, Go, Private, Public, Holding, Meeting
<1>5. Leases'
  BY <1>3, <1>4, LeasesStay DEF group, life
<1> QED
  BY <1>1, <1>2, <1>5 DEF CallInv

LEMMA ResultFacts ==
  ASSUME CallInv, NEW t \in Thread, NEW ok \in BOOLEAN, Result(t, ok)
  PROVE  /\ verdict' = [verdict EXCEPT ![t] = Word(ok)]
         /\ verdict' \in [Thread -> {"none", "launch", "fallback"}]
         /\ \E s \in Holding \ Meeting : Go(t, s)
<1>1. verdict' = [verdict EXCEPT ![t] = Word(ok)]
  BY DEF Result, Word
<1> QED
  BY <1>1 DEF Result, Word, CallInv, CallType, Holding, Meeting

LEMMA ArriveKeeps ==
  ASSUME CallInv, NEW t \in Thread, NEW kind, Arrive(t, kind)
  PROVE  CallInv'
<1>1. /\ pc[t] = "arrive"
      /\ waitGeneration' = [waitGeneration EXCEPT ![t] = generation]
      /\ UNCHANGED <<group, life, activeCalls, device>>
  BY DEF Arrive
<1>2. waitGeneration' \in [Thread -> Nat] /\ pc[t] \in Holding /\ Meeting \subseteq Holding
  BY <1>1 DEF CallInv, CallType, Holding
<1>3. ASSUME NEW s \in Meeting, Go(t, s), arrived' = arrived + 1, UNCHANGED <<generation, lastOk>>,
             verdict' = [verdict EXCEPT ![t] = "none"],
             IF s = "build" THEN arrived + 1 = Cardinality(Rank)
             ELSE arrived + 1 # Cardinality(Rank)
      PROVE  CallInv'
  <2>1. Rounds'
    BY <1>1, <1>3, JoinRound
  <2>2. verdict' \in [Thread -> {"none", "launch", "fallback"}] /\ generation' \in Nat
    BY <1>3 DEF CallInv, CallType
  <2> QED
    BY <1>1, <1>2, <1>3, <2>1, <2>2, MeetingKeeps
<1>4. ASSUME NEW ok \in BOOLEAN, Open(ok), Result(t, ok), arrived + 1 = Cardinality(Rank)
      PROVE  CallInv'
  <2>1. t \in Leased /\ t \notin Here
    BY <1>1 DEF Leased, HasLease, Here, Meeting
  <2>2. IsFiniteSet(Here \cup {t}) /\ Cardinality(Here \cup {t}) = Cardinality(Rank)
    BY <1>4, <2>1, Numbers, FS_AddElement DEF CallInv, Rounds
  <2>3. Leased = Here \cup {t}
    <3>1. Cardinality(Here \cup {t}) >= Cardinality(Rank)
      BY <2>2, Numbers
    <3> QED
      BY <2>1, <2>2, <3>1, FullRound
  <2>4. \A u \in Thread : pc[u] # "build"
    BY <1>4, Numbers DEF CallInv, Rounds, Builds
  <2>5. PICK s \in Holding \ Meeting : Go(t, s)
    BY <1>4, ResultFacts
  <2>6. s \in Places \ Meeting /\ s \in Holding
    BY DEF Places
  <2>7. Rounds'
    BY <1>1, <1>4, <2>1, <2>3, <2>4, <2>5, <2>6, OpenRound, ResultFacts
  <2>8. generation' \in Nat
    BY <1>4 DEF Open, CallInv, CallType
  <2> QED
    BY <1>1, <1>2, <1>4, <2>5, <2>6, <2>7, <2>8, MeetingKeeps, ResultFacts
<1>5. \/ /\ arrived + 1 # Cardinality(Rank) /\ arrived' = arrived + 1 /\ Go(t, "wait")
         /\ verdict' = [verdict EXCEPT ![t] = "none"] /\ UNCHANGED <<generation, lastOk>>
      \/ /\ arrived + 1 = Cardinality(Rank) /\ arrived' = arrived + 1 /\ Go(t, "build")
         /\ verdict' = [verdict EXCEPT ![t] = "none"] /\ UNCHANGED <<generation, lastOk>>
      \/ arrived + 1 = Cardinality(Rank) /\ \E ok \in BOOLEAN : Open(ok) /\ Result(t, ok)
  BY DEF Arrive, Valid
<1> QED
  BY <1>3, <1>4, <1>5 DEF Meeting

LEMMA BuildKeeps ==
  ASSUME CallInv, NEW t \in Thread, NEW ok \in BOOLEAN, Build(t, ok)
  PROVE  CallInv'
<1>1. /\ pc[t] = "build" /\ Open(ok) /\ Result(t, ok)
      /\ UNCHANGED <<group, life, activeCalls, waitGeneration, device>>
  BY DEF Build
<1>2. /\ t \in Leased /\ t \in Here /\ waitGeneration[t] = generation
      /\ arrived >= Cardinality(Rank) /\ \A u \in Thread : pc[u] = "build" => u = t
  BY <1>1 DEF CallInv, Rounds, Builds, Placed, Leased, HasLease, Here, Meeting
<1>3. Here \cup {t} = Here
  BY <1>2
<1>4. Leased = Here \cup {t}
  BY <1>2, <1>3, Numbers, FullRound DEF CallInv, Rounds
<1>5. waitGeneration' = [waitGeneration EXCEPT ![t] = generation]
  BY <1>1, <1>2 DEF CallInv, CallType
<1>6. PICK s \in Holding \ Meeting : Go(t, s)
  BY <1>1, ResultFacts
<1>7. s \in Places \ Meeting /\ s \in Holding
  BY DEF Places
<1>8. Rounds'
  BY <1>1, <1>2, <1>4, <1>5, <1>6, <1>7, OpenRound, ResultFacts
<1>9. generation' \in Nat /\ waitGeneration' \in [Thread -> Nat] /\ pc[t] \in Holding
  BY <1>1 DEF Open, CallInv, CallType, Holding, Meeting
<1> QED
  BY <1>1, <1>6, <1>7, <1>8, <1>9, MeetingKeeps, ResultFacts

LEMMA LeaveKeeps ==
  ASSUME CallInv, NEW t \in Thread, Leave(t)
  PROVE  CallInv'
<1>1. /\ pc[t] = "wait" /\ generation # waitGeneration[t]
      /\ UNCHANGED <<group, life, activeCalls, round, waitGeneration, device>>
  BY DEF Leave
<1>2. verdict' = [verdict EXCEPT ![t] = Word(lastOk)]
  BY DEF Leave, Result, Word
<1>3. PICK s \in Holding \ Meeting : Go(t, s)
  BY DEF Leave, Result, Holding, Meeting
<1>4. s \in Places \ Meeting /\ s \in Holding /\ pc[t] \in Holding
  BY <1>1 DEF Places, Holding, Meeting
<1>5. Rounds'
  BY <1>1, <1>2, <1>3, <1>4, LeaveRound DEF round
<1>6. generation' \in Nat /\ waitGeneration' \in [Thread -> Nat]
  BY <1>1 DEF CallInv, CallType, round
<1>7. verdict' \in [Thread -> {"none", "launch", "fallback"}]
  BY <1>2 DEF CallInv, CallType, Word
<1> QED
  BY <1>1, <1>3, <1>4, <1>5, <1>6, <1>7, MeetingKeeps
-----------------------------------------------------------------------------
(* FastllmInitNccl *)

\* A step of a setup leaves the calls and their rounds alone.
LEMMA SetupRounds ==
  ASSUME CallInv, UNCHANGED <<round, pc, waitGeneration, verdict>>
  PROVE  Rounds' /\ Leased' = Leased
BY DEF CallInv, Rounds, Placed, Here, Builds, RoundsAgree, SameRound, InRound, round, Thread,
       Leased, HasLease

LEMMA SetupKeeps ==
  ASSUME CallInv, NewGroup \/ SameGroup \/ Reset \/ ResetEnd \/ InitKnown \/ InitializeFails \/ Undo
  PROVE  CallInv'
<1>1. /\ UNCHANGED <<activeCalls, round, pc, waitGeneration, verdict, launched, finished>>
      /\ UNCHANGED <<initialized>>
      /\ enabled' = enabled \/ enabled' = FALSE
      /\ setup # "tuning" /\ setup' \in {"reset", "init", "quiesce", "idle", "undo"}
  BY DEF NewGroup, SameGroup, Reset, ResetEnd, InitKnown, InitializeFails, Undo, life, threads, device
<1>2. Rounds' /\ Leased' = Leased
  BY <1>1, SetupRounds
<1>3. Leases'
  BY <1>1, <1>2 DEF CallInv, Leases, Private, Public, Thread
<1>4. memory' \in {"none", "live", "draining"}
  BY DEF CallInv, CallType, NewGroup, SameGroup, Reset, ResetEnd, InitKnown, InitializeFails, Undo,
         life, Freed
<1>5. CallType'
  BY <1>1, <1>4 DEF CallInv, CallType, round, Thread
<1>6. CASE NewGroup \/ SameGroup \/ Reset \/ InitKnown
  <2>1. UNCHANGED memory /\ setup' \notin {"drain", "undo"}
    BY <1>6 DEF NewGroup, SameGroup, Reset, InitKnown, life
  <2>2. Life'
    BY <1>1, <2>1 DEF CallInv, Life, Drained
  <2> QED
    BY <1>2, <1>3, <1>5, <2>2 DEF CallInv
<1>7. CASE ResetEnd \/ Undo
  <2>1. Freed /\ setup \in {"drain", "undo"}
    BY <1>7 DEF ResetEnd, Undo
  <2>2. Life'
    BY <1>1, <2>1 DEF CallInv, Life, Freed, Drained
  <2> QED
    BY <1>2, <1>3, <1>5, <2>2 DEF CallInv
<1>8. CASE InitializeFails
  <2>1. Life'
    BY <1>1, <1>8 DEF CallInv, Life, Drained, InitializeFails
  <2> QED
    BY <1>2, <1>3, <1>5, <2>1 DEF CallInv
<1> QED
  BY <1>6, <1>7, <1>8

\* With no call left there is no round either.
LEMMA QuiesceKeeps ==
  ASSUME CallInv, Quiesce
  PROVE  CallInv'
<1>1. /\ setup = "quiesce" /\ setup' = "drain" /\ activeCalls = 0 /\ Detach
      /\ ~initialized' /\ arrived' = 0 /\ generation' = generation + 1
      /\ UNCHANGED <<enabled, activeCalls, pc, waitGeneration, verdict, device>>
  BY DEF Quiesce, threads
<1>2. Leased = {} /\ Leased' = {} /\ Thread' = Thread
  <2>1. Leased = {}
    BY <1>1, Numbers, FS_EmptySet DEF CallInv, Leases
  <2> QED
    BY <1>1, <2>1 DEF Leased, HasLease, Thread
<1>3. CallType'
  BY <1>1, <1>2 DEF CallInv, CallType, Detach, device
<1>4. Life'
  BY <1>1 DEF CallInv, Life, CallType, Detach, Drained, device
<1>5. Leases'
  BY <1>1, <1>2 DEF CallInv, Leases, Private, Public
<1>6. \A u \in Thread : pc[u] \notin Meeting
  BY <1>2 DEF Leased, HasLease, Meeting
<1>7. arrived' = Cardinality(Here')
  <2>1. Here' = {}
    BY <1>1, <1>2, <1>6 DEF Here
  <2> QED
    BY <1>1, <2>1, FS_EmptySet
<1>8. \A u \in Thread : Placed(u)'
  <2> SUFFICES ASSUME NEW u \in Thread PROVE Placed(u)'
    OBVIOUS
  <2>1. verdict[u] # "none" => waitGeneration[u] < generation
    BY DEF CallInv, Rounds, Placed
  <2>2. waitGeneration[u] \in Nat /\ generation \in Nat
    BY DEF CallInv, CallType
  <2> QED
    BY <1>1, <1>6, <2>1, <2>2 DEF Placed, Meeting
<1>9. Builds' /\ RoundsAgree'
  BY <1>1, <1>2, <1>6 DEF CallInv, Rounds, Builds, RoundsAgree, SameRound, InRound, Meeting
<1> QED
  BY <1>2, <1>3, <1>4, <1>5, <1>7, <1>8, <1>9 DEF CallInv, Rounds

\* What nobody uses yet is made, and nothing of it is public.
LEMMA InitializeKeeps ==
  ASSUME CallInv, Initialize
  PROVE  CallInv'
<1>1. /\ ~initialized /\ setup = "init" /\ initialized' = TRUE /\ memory' = "live"
      /\ enabled' = FALSE /\ setup' = "tuning"
      /\ UNCHANGED <<activeCalls, round, pc, waitGeneration, verdict, device>>
  BY DEF Initialize
<1>2. Rounds' /\ Leased' = Leased
  BY <1>1, SetupRounds
<1>3. Leases'
  BY <1>1, <1>2 DEF CallInv, Leases
<1>4. CallType' /\ Life'
  BY <1>1 DEF CallInv, CallType, Life, round, device, Thread
<1> QED
  BY <1>2, <1>3, <1>4 DEF CallInv

LEMMA PublishKeeps ==
  ASSUME CallInv, NEW faster, Publish(faster)
  PROVE  CallInv'
<1>1. /\ setup = "tuning" /\ setup' = "idle" /\ \A t \in Private : pc[t] = "out"
      /\ UNCHANGED <<initialized, memory, activeCalls, round, pc, waitGeneration, verdict, device>>
  BY DEF Publish, threads
<1>2. Rounds' /\ Leased' = Leased
  BY <1>1, SetupRounds
<1>3. Leases'
  BY <1>1, <1>2 DEF CallInv, Leases, Private, Public, Thread
<1>4. CallType' /\ Life'
  BY <1>1 DEF CallInv, CallType, Life, Drained, round, device, Thread
<1> QED
  BY <1>2, <1>3, <1>4 DEF CallInv

LEMMA FinishKeeps ==
  ASSUME CallInv, Finish
  PROVE  CallInv'
<1>1. /\ \A r \in Rank : launched[r] > finished
      /\ finished' = finished + 1 /\ UNCHANGED <<group, life, activeCalls, round, threads, launched>>
  BY DEF Finish
<1>2. Rounds' /\ Leased' = Leased
  BY <1>1, SetupRounds DEF threads
<1>3. Leases'
  BY <1>1, <1>2 DEF CallInv, Leases, group, life, threads, Private, Public, Thread
<1>4. ~Drained
  BY <1>1, CustomAssumption DEF CallInv, CallType, Drained
<1>5. CallType' /\ Life'
  BY <1>1, <1>4 DEF CallInv, CallType, Life, group, life, round, threads, Thread
<1> QED
  BY <1>2, <1>3, <1>5 DEF CallInv
-----------------------------------------------------------------------------
LEMMA CallKeeps ==
  ASSUME CallInv, [Next]_vars
  PROVE  CallInv'
<1>1. ASSUME NEW t \in Thread, InCall(t) PROVE CallInv'
  <2>1. CASE Acquire(t)
    BY <2>1, GrantedKeeps, AsideKeeps DEF Acquire
  <2>2. CASE Nccl(t) \/ Leave(t) \/ Launch(t) \/ Release(t)
    BY <2>2, AsideKeeps, LeaveKeeps, LaunchKeeps, ReleaseKeeps
  <2>3. CASE (\E kind \in Kinds : Arrive(t, kind)) \/ \E ok \in BOOLEAN : Build(t, ok)
    BY <2>3, ArriveKeeps, BuildKeeps
  <2> QED
    BY <1>1, <2>1, <2>2, <2>3 DEF InCall
<1>2. CASE UNCHANGED vars
  <2>1. UNCHANGED <<group, life, activeCalls, round, threads, device>>
    BY <1>2 DEF vars
  <2>2. Rounds' /\ Leased' = Leased
    BY <2>1, SetupRounds DEF threads
  <2>3. Life' /\ Leases'
    BY <2>1, <2>2, LifeStays, LeasesStay DEF group, life, threads, device
  <2>4. CallType'
    BY <2>1 DEF CallInv, CallType, group, life, round, threads, device, Thread
  <2> QED
    BY <2>2, <2>3, <2>4 DEF CallInv
<1>3. CASE NewGroup \/ SameGroup \/ SetupStep \/ Finish
  BY <1>3, SetupKeeps, QuiesceKeeps, InitializeKeeps, PublishKeeps, FinishKeeps DEF SetupStep
<1> QED
  BY <1>1, <1>2, <1>3, AllReduceKeeps DEF Next

LEMMA CallInvariant == Spec => []CallInv
<1>1. CallInv /\ [Next]_vars => CallInv'
  BY CallKeeps
<1> QED
  BY <1>1, InitCall, PTL DEF Spec

\* What a call with a lease or a running kernel uses is not freed by a Reset or a
\* failed initialization (CustomArCallLease, FastllmCudaCustomAllReduceReset).
THEOREM CustomInUse == Spec => []InUseAlive
<1>1. ASSUME CallInv PROVE InUseAlive
  <2>1. (\E t \in Thread : HasLease(t)) => initialized
    BY <1>1 DEF CallInv, Leases, Leased
  <2> QED
    BY <1>1, <2>1 DEF CallInv, Life, InUseAlive
<1> QED
  BY <1>1, CallInvariant, PTL

\* The ranks of a round decide alike, and no request meets a candidate of the
\* selection (FindOrRegisterCustomArPointers).
THEOREM CustomRounds == Spec => []RoundsAgree
<1>1. CallInv => RoundsAgree
  BY DEF CallInv, Rounds
<1> QED
  BY <1>1, CallInvariant, PTL
==============================================================================
