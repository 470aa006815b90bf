-------------------------- MODULE PrefixStoreProofs --------------------------
(***************************************************************************)
(* Proofs about PrefixStore for any processes, keys and chunks, as long as *)
(* nobody is killed inside Recover.  The shared and exclusive lease keep   *)
(* sessions and the collector apart; a session vouches for the chunks it   *)
(* has verified and for the commit it is publishing; and a commit file     *)
(* that the index does not know is known to an intent, or to the scan of a *)
(* recovery.  For the quota, a session claims what it reserved and has not *)
(* turned into files yet: files and claims together stay within the limit, *)
(* and what the index counts is at least that when a session begins.       *)
(***************************************************************************)
EXTENDS PrefixStore, Integers, FiniteSetTheorems, TLAPS

Collecting == {"gc", "sweep"}
Alone == {"wipe", "scan"} \cup Collecting
Publish == {"stamped", "publish", "index", "settle"}
Writing == {"open", "flushing"} \cup Publish
Sharing == Writing \cup {"closing", "reading"}
Intending == {"flushing", "publish", "index", "settle"}
States == Alone \cup Sharing \cup {"down", "idle", "maintain", "retry", "failed"}

StoreType ==
  /\ blobs \in [Hash -> {"none", "good", "bad"}]
  /\ commits \in [Key -> Nat] /\ rows \in [Key -> Nat]
  /\ pc \in [Proc -> States] /\ lease \in [Proc -> {"none", "shared", "exclusive"}]
  /\ target \in [Proc -> Key \cup {NoKey}] /\ stamp \in [Proc -> Nat]
  /\ pending \in [Proc -> SUBSET Hash] /\ synced \in [Proc -> SUBSET Hash]
  /\ verified \in [Proc -> SUBSET Hash]
  /\ tx.rows \in [Key -> Nat]
  /\ clock \in Nat /\ acked \subseteq Key

LeaseOf(s) == IF s \in Alone THEN "exclusive" ELSE IF s \in Sharing THEN "shared" ELSE "none"

\* The lease of a process is that of its place, and an exclusive one is the only one.
Leases ==
  /\ \A p \in Proc : lease[p] = LeaseOf(pc[p])
  /\ \A p, q \in Proc : pc[p] \in Alone /\ q # p => lease[q] = "none"

\* What a session knows of the directory.
Session(p) ==
  /\ p \in intents <=> pc[p] \in Intending
  /\ pc[p] \notin Writing => pending[p] = {} /\ verified[p] = {}
  /\ \A h \in verified[p] \ pending[p] : blobs[h] = "good"
  /\ pc[p] = "flushing" => pending[p] \subseteq synced[p]
  /\ pc[p] = "reading" => target[p] \in Key /\ Complete(target[p])

\* .. and of the checkpoint it is publishing.
Publication(p) ==
  pc[p] \in Publish =>
    /\ target[p] \in Key /\ pending[p] = {} /\ Content[target[p]] \subseteq verified[p]
    /\ stamp[p] # 0 /\ stamp[p] <= clock
    /\ IF pc[p] \in {"stamped", "publish"}
       THEN commits[target[p]] = 0 /\ \A k \in Key : commits[k] # stamp[p]
       ELSE commits[target[p]] = stamp[p]

\* No two sessions publish the same checkpoint, or at the same time.
Apart ==
  \A p, q \in Proc : pc[p] \in Publish /\ pc[q] \in Publish /\ p # q =>
    target[p] # target[q] /\ stamp[p] # stamp[q]

\* A table knows a commit.
Knows(k, r, o) == r[k] = commits[k] /\ Content[k] \subseteq o

\* An index without a dead intent knows each commit, or a session is about to tell it.
Indexed ==
  ~stale /\ (\A p \in Proc : pc[p] # "scan") =>
    \A k \in In(commits) :
      Knows(k, rows, objects) \/ \E p \in Proc : pc[p] = "index" /\ target[p] = k

\* Recover has indexed what it is through with.
Scanned ==
  \A p \in Proc : pc[p] = "scan" =>
    todo \subseteq In(commits) /\ \A k \in In(commits) \ todo : Knows(k, rows, objects)

\* The transaction of the collector knows each commit, and no commit needs what it removes.
Collected ==
  \A p \in Proc : pc[p] \in Collecting =>
    \A k \in In(commits) : Knows(k, tx.rows, tx.objects) /\ Content[k] \cap todo = {}

Rest == (\A p \in Proc : pc[p] \notin Collecting \cup {"scan"}) => todo = {}

StoreInv ==
  /\ StoreType /\ Leases /\ Apart
  /\ \A p \in Proc : Session(p) /\ Publication(p)
  /\ cached = {} /\ NoDangling /\ AckedKept
  /\ \A k \in Key : commits[k] <= clock
  /\ Indexed /\ Scanned /\ Collected /\ Rest
-----------------------------------------------------------------------------
LEMMA InitStore == Init => StoreInv
<1> SUFFICES ASSUME Init PROVE StoreInv
  OBVIOUS
<1>1. StoreType
  BY DEF Init, StoreType, States, NoRows
<1>2. Leases /\ Apart /\ \A p \in Proc : Session(p) /\ Publication(p)
  BY DEF Init, Leases, LeaseOf, Apart, Session, Publication, Writing, Publish, Intending,
         Alone, Sharing, Collecting
<1>3. NoDangling /\ AckedKept /\ \A k \in Key : commits[k] <= clock
  BY DEF Init, NoDangling, AckedKept, In, NoRows
<1>4. Indexed /\ Scanned /\ Collected /\ Rest
  BY DEF Init, Indexed, Scanned, Collected, Rest, Collecting
<1> QED
  BY <1>1, <1>2, <1>3, <1>4 DEF StoreInv, Init
-----------------------------------------------------------------------------
(* Types *)

LEMMA SessionType ==
  ASSUME StoreType, NEW p \in Proc, Publication(p),
         \/ BeginWrite(p) \/ BeginAgain(p) \/ GiveUp(p)
         \/ \E h \in Hash : Dedup(p, h) \/ Stage(p, h) \/ FlushRename(p, h)
         \/ FlushBegin(p) \/ FlushCommit(p)
         \/ \E k \in Key : CommitFound(p, k) \/ CommitStamp(p, k) \/ Load(p, k)
         \/ CommitIntent(p) \/ CommitReturn(p) \/ EndWrite(p) \/ CloseWrite(p) \/ EndRead(p)
  PROVE  StoreType'
<1> USE DEF StoreType, Go, Take, disk, index, batch, session, collector, history
<1>1. CASE BeginWrite(p) \/ BeginAgain(p) \/ GiveUp(p)
  BY <1>1 DEF BeginWrite, BeginAgain, BeginAttempt, GiveUp, States, Sharing, Writing
<1>2. CASE \E h \in Hash : Dedup(p, h) \/ Stage(p, h) \/ FlushRename(p, h)
  BY <1>2 DEF Dedup, Stage, FlushRename
<1>3. CASE FlushBegin(p) \/ FlushCommit(p)
  BY <1>3 DEF FlushBegin, FlushCommit, States, Sharing, Writing
<1>4. CASE \E k \in Key : CommitFound(p, k) \/ CommitStamp(p, k) \/ Load(p, k)
  BY <1>4 DEF CommitFound, CommitStamp, Load, States, Sharing, Writing, Publish
<1>5. CASE CommitIntent(p) \/ EndRead(p)
  BY <1>5 DEF CommitIntent, EndRead, States, Sharing, Writing, Publish
<1>6. CASE CommitReturn(p)
  <2>1. target[p] \in Key
    BY <1>6 DEF CommitReturn, Publication, Publish
  <2> QED
    BY <1>6, <2>1 DEF CommitReturn, States, Sharing, Writing
<1>7. CASE EndWrite(p) \/ CloseWrite(p)
  BY <1>7 DEF EndWrite, CloseWrite, States, Sharing
<1> QED
  BY <1>1, <1>2, <1>3, <1>4, <1>5, <1>6, <1>7

LEMMA PublishType ==
  ASSUME StoreType, NEW p \in Proc, Publication(p), AtomicWrite(p) \/ IndexRecord(p)
  PROVE  StoreType'
<1>1. pc[p] \in Publish
  BY DEF AtomicWrite, IndexRecord, Publish
<1>2. target[p] \in Key /\ stamp[p] \in Nat
  BY <1>1 DEF Publication, StoreType
<1> QED
  BY <1>2 DEF AtomicWrite, IndexRecord, StoreType, Go, disk, index, batch, session, collector,
              history, States, Sharing, Writing, Publish

LEMMA CollectorType ==
  ASSUME StoreType, NEW p \in Proc,
         \/ MaintainBusy(p) \/ Maintain(p) \/ RebuildIndex(p) \/ Open(p)
         \/ \E k \in Key : GcWithdraw(p, k) \/ RecoverIndex(p, k)
         \/ \E h \in Hash : GcRemove(p, h)
         \/ GcSweep(p) \/ GcCommit(p) \/ GcRefuse(p) \/ GcAbort(p)
         \/ RecoverWipe(p) \/ RecoverReclaim(p)
  PROVE  StoreType'
<1> USE DEF StoreType, Go, Take, disk, index, batch, session, collector, history, Begun, NoTx,
            NoRows, States, Alone, Collecting
<1>1. CASE MaintainBusy(p) \/ Maintain(p) \/ RebuildIndex(p) \/ Open(p)
  BY <1>1 DEF MaintainBusy, Maintain, RebuildIndex, Open
<1>2. CASE \E k \in Key : GcWithdraw(p, k)
  BY <1>2 DEF GcWithdraw
<1>3. CASE \E k \in Key : RecoverIndex(p, k)
  BY <1>3 DEF RecoverIndex
<1>4. CASE \E h \in Hash : GcRemove(p, h)
  BY <1>4 DEF GcRemove
<1>5. CASE GcSweep(p) \/ GcCommit(p) \/ GcRefuse(p) \/ GcAbort(p)
  BY <1>5 DEF GcSweep, GcCommit, GcRefuse, GcAbort
<1>6. CASE RecoverWipe(p)
  BY <1>6 DEF RecoverWipe
<1>7. CASE RecoverReclaim(p)
  BY <1>7 DEF RecoverReclaim
<1> QED
  BY <1>1, <1>2, <1>3, <1>4, <1>5, <1>6, <1>7

\* What becomes of the variables that the invariant is about.
LEMMA KilledFacts ==
  ASSUME NEW P, Killed(P)
  PROVE  /\ RecoverKills \/ \A p \in P : pc[p] \notin {"wipe", "scan"}
         /\ stale' = (stale \/ intents \cap P # {})
         /\ intents' = intents \ P
         /\ pc' = [p \in Proc |-> IF p \in P THEN "down" ELSE pc[p]]
         /\ lease' = [p \in Proc |-> IF p \in P THEN "none" ELSE lease[p]]
         /\ target' = [p \in Proc |-> IF p \in P THEN NoKey ELSE target[p]]
         /\ stamp' = [p \in Proc |-> IF p \in P THEN 0 ELSE stamp[p]]
         /\ pending' = [p \in Proc |-> IF p \in P THEN {} ELSE pending[p]]
         /\ synced' = [p \in Proc |-> IF p \in P THEN {} ELSE synced[p]]
         /\ verified' = [p \in Proc |-> IF p \in P THEN {} ELSE verified[p]]
         /\ IF \E p \in P : lease[p] = "exclusive" THEN todo' = {} /\ NoTx ELSE UNCHANGED collector
         /\ UNCHANGED <<commits, rows, objects, history>>
BY Zenon DEF Killed

LEMMA FaultType ==
  ASSUME StoreType, (\E p \in Proc : Kill(p)) \/ PowerLoss \/ LoseIndex
  PROVE  StoreType'
<1>1. ASSUME NEW P, Killed(P), blobs' \in [Hash -> {"none", "good", "bad"}] PROVE StoreType'
  BY <1>1, KilledFacts DEF StoreType, NoTx, NoRows, States, collector, history
<1>2. ASSUME NEW p \in Proc, Kill(p) PROVE StoreType'
  BY <1>1, <1>2 DEF Kill, StoreType
<1>3. CASE PowerLoss
  <2>1. Killed(Proc) /\ blobs' \in [Hash -> {"none", "good", "bad"}]
    BY <1>3 DEF PowerLoss, StoreType
  <2> QED
    BY <1>1, <2>1
<1>4. CASE LoseIndex
  BY <1>4 DEF LoseIndex, StoreType, NoRows, disk, session, batch, collector, history
<1> QED
  BY <1>2, <1>3, <1>4
-----------------------------------------------------------------------------
(* Leases *)

\* A step of p from one place to another, with the lease of the new one.
LEMMA LeaseMoves ==
  ASSUME StoreType, Leases, NEW p \in Proc, NEW s \in States, Go(p, s), Take(p, LeaseOf(s)),
         s \in Alone => pc[p] \in Alone \/ ~Leased,
         s \in Sharing => pc[p] \in Sharing \/ ~Exclusive
  PROVE  Leases'
<1>1. \A q \in Proc : /\ pc'[q] = IF q = p THEN s ELSE pc[q]
                      /\ lease'[q] = IF q = p THEN LeaseOf(s) ELSE lease[q]
  BY DEF Go, Take, StoreType
<1>2. \A q \in Proc : lease'[q] = LeaseOf(pc'[q])
  BY <1>1 DEF Leases
<1>3. ASSUME NEW a \in Proc, NEW q \in Proc, pc'[a] \in Alone, q # a PROVE lease'[q] = "none"
  <2>1. CASE a = p
    BY <1>1, <1>3, <2>1 DEF Leases, Leased
  <2>2. CASE a # p
    <3>1. pc[a] \in Alone /\ lease[a] = "exclusive" /\ lease[p] = "none"
      BY <1>1, <1>3, <2>2 DEF Leases, LeaseOf
    <3>2. pc[p] \notin Alone /\ pc[p] \notin Sharing
      BY <3>1 DEF Leases, LeaseOf
    <3>3. s \notin Alone /\ s \notin Sharing
      BY <3>1, <3>2 DEF Leased, Exclusive
    <3> QED
      BY <1>1, <1>3, <2>2, <3>1, <3>3 DEF Leases, LeaseOf
  <2> QED
    BY <2>1, <2>2
<1> QED
  BY <1>2, <1>3 DEF Leases

\* A step that changes neither.
LEMMA LeaseStays ==
  ASSUME StoreType, Leases, NEW p \in Proc, NEW s \in States, Go(p, s), UNCHANGED lease,
         LeaseOf(s) = LeaseOf(pc[p])
  PROVE  Leases'
<1>1. \A q \in Proc : pc'[q] = IF q = p THEN s ELSE pc[q]
  BY DEF Go, StoreType
<1>2. \A q \in Proc : LeaseOf(pc'[q]) = LeaseOf(pc[q])
  BY <1>1
<1>3. \A q \in Proc : pc[q] \in Alone <=> lease[q] = "exclusive"
  BY DEF Leases, LeaseOf
<1>4. \A q \in Proc : pc'[q] \in Alone <=> pc[q] \in Alone
  BY <1>2 DEF LeaseOf
<1> QED
  BY <1>2, <1>4 DEF Leases

\* Nobody else holds a lease, or has anything in hand, while p collects.
LEMMA AloneFacts ==
  ASSUME StoreType, Leases, NEW p \in Proc, pc[p] \in Alone
  PROVE  \A q \in Proc : pc[q] \notin Sharing /\ (q # p => pc[q] \notin Alone)
<1>1. ASSUME NEW q \in Proc, q # p PROVE pc[q] \notin Sharing \cup Alone
  <2>1. lease[q] = "none"
    BY <1>1 DEF Leases
  <2> QED
    BY <2>1 DEF Leases, LeaseOf
<1>2. pc[p] \notin Sharing
  BY DEF Alone, Sharing, Writing, Publish, Collecting
<1> QED
  BY <1>1, <1>2

\* Nobody collects while p has a session.
LEMMA SharingFacts ==
  ASSUME StoreType, Leases, NEW p \in Proc, pc[p] \in Sharing
  PROVE  \A q \in Proc : pc[q] \notin Alone
<1> SUFFICES ASSUME NEW q \in Proc, pc[q] \in Alone PROVE FALSE
  OBVIOUS
<1> QED
  BY AloneFacts

LEMMA FreeFacts ==
  ASSUME StoreType, Leases, ~Leased
  PROVE  \A q \in Proc : pc[q] \notin Alone /\ pc[q] \notin Sharing
BY DEF Leases, LeaseOf, Leased
-----------------------------------------------------------------------------
(* Steps outside a session *)

\* A transaction that starts from an index that can be trusted knows each commit.
LEMMA Begins ==
  ASSUME StoreInv, ~stale, \A q \in Proc : pc[q] \notin Sharing \cup {"scan"}
  PROVE  \A k \in In(commits) : Knows(k, rows, objects)
BY DEF StoreInv, Indexed, Sharing, Writing, Publish

LEMMA OutsideStep ==
  ASSUME StoreInv, StoreType', Leases', NEW p \in Proc, NEW s \in States, Go(p, s),
         pc[p] \notin Writing \cup Alone, s \notin Publish \cup {"flushing", "scan"},
         UNCHANGED <<blobs, cached, commits, rows, objects, intents, stale, stamp, pending,
                     synced, verified, todo, clock, acked>>,
         \A q \in Proc \ {p} : target'[q] = target[q],
         s = "reading" => target'[p] \in Key /\ Complete(target'[p]),
         IF s \in Collecting THEN ~stale /\ ~Leased /\ Begun(rows, objects) ELSE UNCHANGED tx
  PROVE  StoreInv'
<1>1. \A q \in Proc : pc'[q] = IF q = p THEN s ELSE pc[q]
  BY DEF Go, StoreInv, StoreType
<1>2. ASSUME NEW q \in Proc PROVE Session(q)' /\ Publication(q)'
  <2>1. CASE q = p
    BY <1>1, <2>1 DEF StoreInv, Session, Publication, Complete, Intending, Writing, Publish
  <2>2. CASE q # p
    BY <1>1, <2>2 DEF StoreInv, Session, Publication, Complete
  <2> QED
    BY <2>1, <2>2
<1>3. Apart'
  BY <1>1 DEF StoreInv, Apart, Writing
<1>4. NoDangling' /\ AckedKept'
  BY DEF StoreInv, NoDangling, AckedKept, In, Complete
<1>5. Indexed'
  <2>1. \A q \in Proc : pc[q] = "scan" <=> pc'[q] = "scan"
    BY <1>1 DEF Alone
  <2>2. ASSUME NEW q \in Proc, pc[q] = "index" PROVE pc'[q] = "index" /\ target'[q] = target[q]
    BY <1>1, <2>2 DEF Writing, Publish
  <2> QED
    BY <2>1, <2>2 DEF StoreInv, Indexed, In, Knows
<1>6. Scanned'
  BY <1>1 DEF StoreInv, Scanned, In, Knows
<1>7. Collected'
  <2>1. CASE s \in Collecting
    <3>1. \A q \in Proc : pc[q] \notin Alone /\ pc[q] \notin Sharing
      BY <2>1, FreeFacts DEF StoreInv
    <3>2. \A k \in In(commits) : Knows(k, rows, objects)
      BY <2>1, <3>1, Begins DEF Alone
    <3>3. todo = {}
      BY <3>1 DEF StoreInv, Rest, Alone
    <3> QED
      BY <2>1, <3>2, <3>3 DEF Collected, Begun, Knows, In
  <2>2. CASE s \notin Collecting
    BY <1>1, <2>2 DEF StoreInv, Collected, Knows, In
  <2> QED
    BY <2>1, <2>2
<1>8. Rest'
  BY <1>1 DEF StoreInv, Rest, Alone
<1> QED
  BY <1>2, <1>3, <1>4, <1>5, <1>6, <1>7, <1>8 DEF StoreInv

LEMMA OutsideKeeps ==
  ASSUME StoreInv, StoreType', NEW p \in Proc,
         \/ BeginWrite(p) \/ BeginAgain(p) \/ GiveUp(p)
         \/ MaintainBusy(p) \/ Maintain(p) \/ RebuildIndex(p) \/ Open(p)
         \/ CloseWrite(p) \/ EndRead(p) \/ \E k \in Key : Load(p, k)
  PROVE  StoreInv'
<1>1. StoreType /\ Leases
  BY DEF StoreInv
<1>2. \A s \in {"open", "reading"} : s \in Sharing /\ s \notin Alone
  BY DEF Alone, Sharing, Writing, Collecting, Publish
<1>3. \A s \in {"wipe", "gc"} : s \in Alone /\ s \notin Sharing
  BY DEF Alone, Sharing, Writing, Collecting, Publish
<1>4. \A s \in {"idle", "failed", "maintain", "down", "retry"} : s \notin Alone /\ s \notin Sharing
  BY DEF Alone, Sharing, Writing, Collecting, Publish
<1>5. ASSUME NEW g, NEW failed \in {"maintain", "failed"}, BeginAttempt(p, g, failed),
             pc[p] \in {"idle", "retry"}
      PROVE  StoreInv'
  <2>1. CASE Go(p, "open")
    <3>1. Take(p, "shared") /\ ~Exclusive
      BY <1>1, <1>5, <2>1 DEF BeginAttempt, Go, StoreType
    <3>2. Leases'
      BY <1>1, <1>2, <2>1, <3>1, LeaseMoves DEF LeaseOf, States
    <3> QED
      BY <1>5, <2>1, <3>2, OutsideStep
      DEF BeginAttempt, disk, batch, collector, history, States, Sharing, Writing, Publish, Alone,
          Collecting
  <2>2. CASE Go(p, failed) /\ UNCHANGED lease
    <3>1. Leases'
      BY <1>1, <1>4, <1>5, <2>2, LeaseStays DEF LeaseOf, States
    <3> QED
      BY <1>5, <2>2, <3>1, OutsideStep
      DEF BeginAttempt, disk, batch, collector, history, States, Sharing, Writing, Publish, Alone,
          Collecting
  <2> QED
    BY <1>5, <2>1, <2>2 DEF BeginAttempt
<1>6. CASE BeginWrite(p) \/ BeginAgain(p)
  BY <1>5, <1>6 DEF BeginWrite, BeginAgain
<1>7. ASSUME NEW s \in {"idle", "failed"}, Go(p, s), GiveUp(p) \/ MaintainBusy(p)
      PROVE  StoreInv'
  <2>1. UNCHANGED lease /\ pc[p] \in {"failed", "maintain"}
    BY <1>7 DEF GiveUp, MaintainBusy
  <2>2. Leases'
    BY <1>1, <1>4, <1>7, <2>1, LeaseStays DEF LeaseOf, States
  <2> QED
    BY <1>7, <2>1, <2>2, OutsideStep
    DEF GiveUp, MaintainBusy, disk, index, session, batch, collector, history, States, Sharing,
        Writing, Publish, Alone, Collecting
<1>8. ASSUME NEW s \in {"wipe", "gc"}, Go(p, s), Take(p, "exclusive"), ~Leased,
             pc[p] \in {"idle", "maintain", "down"},
             UNCHANGED <<disk, index, session, todo, history>>,
             IF s = "gc" THEN ~Dirty /\ Begun(rows, objects) ELSE UNCHANGED tx
      PROVE  StoreInv'
  <2>1. Leases'
    BY <1>1, <1>3, <1>8, LeaseMoves DEF LeaseOf, States
  <2> QED
    BY <1>8, <2>1, OutsideStep
    DEF disk, index, session, batch, history, States, Sharing, Writing, Publish, Alone,
        Collecting, Dirty
<1>9. CASE Maintain(p) \/ RebuildIndex(p) \/ (Open(p) /\ Dirty)
  BY <1>8, <1>9 DEF Maintain, RebuildIndex, Open, collector
<1>10. CASE Open(p) /\ ~Dirty
  <2>1. UNCHANGED lease /\ pc[p] = "down" /\ Go(p, "idle")
    BY <1>10 DEF Open
  <2>2. Leases'
    BY <1>1, <1>4, <2>1, LeaseStays DEF LeaseOf, States
  <2> QED
    BY <1>10, <2>1, <2>2, OutsideStep
    DEF Open, disk, index, session, batch, collector, history, States, Sharing,
        Writing, Publish, Alone, Collecting
<1>11. CASE CloseWrite(p) \/ EndRead(p)
  <2>1. Take(p, "none") /\ pc[p] \in {"closing", "reading"} /\ Go(p, "idle")
    BY <1>11 DEF CloseWrite, EndRead
  <2>2. Leases'
    BY <1>1, <1>4, <2>1, LeaseMoves DEF LeaseOf, States
  <2>3. \A q \in Proc \ {p} : target'[q] = target[q]
    BY <1>1, <1>11 DEF CloseWrite, EndRead, session, StoreType
  <2> QED
    BY <1>11, <2>1, <2>2, <2>3, OutsideStep
    DEF CloseWrite, EndRead, disk, index, session, batch, collector, history, States, Sharing,
        Writing, Publish, Alone, Collecting
<1>12. ASSUME NEW k \in Key, Load(p, k) PROVE StoreInv'
  <2>1. Leases'
    BY <1>1, <1>2, <1>12, LeaseMoves DEF Load, LeaseOf, States
  <2>2. target'[p] = k /\ \A q \in Proc \ {p} : target'[q] = target[q]
    BY <1>1, <1>12 DEF Load, StoreType
  <2>3. Complete(k)
    BY <1>12 DEF Load
  <2> QED
    BY <1>12, <2>1, <2>2, <2>3, OutsideStep
    DEF Load, disk, index, session, batch, collector, history, States, Sharing,
        Writing, Publish, Alone, Collecting
<1> QED
  BY <1>6, <1>7, <1>9, <1>10, <1>11, <1>12 DEF GiveUp, MaintainBusy
-----------------------------------------------------------------------------
(* Steps of a write session *)

\* What the others have in hand while p goes on with its session.
Aside(p) ==
  \A q \in Proc \ {p} :
    /\ target'[q] = target[q] /\ stamp'[q] = stamp[q] /\ pending'[q] = pending[q]
    /\ synced'[q] = synced[q] /\ verified'[q] = verified[q]
    /\ q \in intents' <=> q \in intents

\* The commit that p publishes now, if it does.
Publishes(p) ==
  pc[p] = "publish" /\ UNCHANGED clock /\ commits' = [commits EXCEPT ![target[p]] = stamp[p]]

LEMMA SessionStep ==
  ASSUME StoreInv, StoreType', NEW p \in Proc, NEW s \in Writing \cup {"closing"},
         pc[p] \in Writing, Go(p, s), UNCHANGED <<lease, todo, tx>>, cached' = {}, Aside(p),
         \A h \in Hash : blobs[h] = "good" => blobs'[h] = "good",
         clock' >= clock, UNCHANGED commits \/ Publishes(p),
         Session(p)', Publication(p)', Indexed', AckedKept',
         \A q \in Proc \ {p} : s \in Publish /\ pc[q] \in Publish =>
           target'[p] # target[q] /\ stamp'[p] # stamp[q]
  PROVE  StoreInv'
<1>1. StoreType /\ Leases /\ Session(p) /\ Publication(p) /\ Apart
  BY DEF StoreInv
<1>2. \A q \in Proc : pc'[q] = IF q = p THEN s ELSE pc[q]
  BY <1>1 DEF Go, StoreType
<1>3. s \in Sharing /\ s \in States /\ pc[p] \in Sharing
  BY DEF States, Sharing
<1>4. Leases'
  <2>1. LeaseOf(s) = LeaseOf(pc[p])
    BY <1>3 DEF LeaseOf, Alone, Collecting, Sharing, Writing, Publish
  <2> QED
    BY <1>1, <1>3, <2>1, LeaseStays
<1>5. \A k \in Key : Complete(k) => Complete(k)'
  BY StoreAssumption DEF Complete
<1>6. ASSUME Publishes(p) PROVE target[p] \in Key /\ stamp[p] <= clock /\ Complete(target[p])
  <2>1. pc[p] \in Publish /\ pc[p] = "publish"
    BY <1>6 DEF Publishes, Publish
  <2>2. target[p] \in Key /\ stamp[p] <= clock /\ \A h \in Content[target[p]] : h \in verified[p] \ pending[p]
    BY <1>1, <2>1 DEF Publication
  <2> QED
    BY <1>1, <2>2 DEF Session, Complete
<1>7. \A k \in Key : commits'[k] = commits[k] \/ (Publishes(p) /\ k = target[p] /\ commits'[k] = stamp[p])
  BY <1>1, <1>6 DEF Publishes, StoreType
<1>8. NoDangling' /\ \A k \in Key : commits'[k] <= clock'
  <2>1. ASSUME NEW k \in Key, commits'[k] # 0 PROVE Complete(k)'
    BY <1>5, <1>6, <1>7, <2>1 DEF StoreInv, NoDangling, In
  <2>2. ASSUME NEW k \in Key PROVE commits'[k] <= clock'
    <3>1. commits[k] <= clock /\ commits[k] \in Nat /\ clock \in Nat /\ clock' \in Nat
      BY <1>1 DEF StoreInv, StoreType
    <3>2. stamp[p] \in Nat
      BY <1>1 DEF StoreType
    <3> QED
      BY <1>6, <1>7, <3>1, <3>2
  <2> QED
    BY <2>1, <2>2 DEF NoDangling, In
<1>9. ASSUME NEW q \in Proc, q # p PROVE Session(q)' /\ Publication(q)'
  <2>1. /\ Session(q) /\ Publication(q) /\ pc'[q] = pc[q] /\ target'[q] = target[q]
        /\ stamp'[q] = stamp[q] /\ pending'[q] = pending[q] /\ synced'[q] = synced[q]
        /\ verified'[q] = verified[q] /\ verified[q] \subseteq Hash
        /\ q \in intents' <=> q \in intents
    BY <1>1, <1>2, <1>9 DEF StoreInv, Aside, StoreType
  <2>2. Session(q)'
    BY <1>5, <2>1 DEF Session
  <2>3. ASSUME pc[q] \in Publish
        PROVE  /\ commits'[target[q]] = commits[target[q]]
               /\ (\A k \in Key : commits[k] # stamp[q]) => \A k \in Key : commits'[k] # stamp[q]
    <3>1. target[q] \in Key
      BY <2>1, <2>3 DEF Publication
    <3>2. Publishes(p) => target[p] # target[q] /\ stamp[p] # stamp[q]
      BY <1>1, <1>9, <2>3 DEF Apart, Publishes, Publish
    <3> QED
      BY <1>7, <3>1, <3>2
  <2>4. stamp[q] \in Nat /\ clock \in Nat /\ clock' \in Nat
    BY <1>1 DEF StoreType
  <2>5. Publication(q)'
    BY <2>1, <2>3, <2>4 DEF Publication
  <2> QED
    BY <2>2, <2>5
<1>10. Apart'
  <2>1. ASSUME NEW a \in Proc, NEW b \in Proc, pc'[a] \in Publish, pc'[b] \in Publish, a # b
        PROVE  target'[a] # target'[b] /\ stamp'[a] # stamp'[b]
    <3>1. CASE a = p
      BY <1>2, <2>1, <3>1 DEF Aside
    <3>2. CASE b = p
      BY <1>2, <2>1, <3>2 DEF Aside
    <3>3. CASE a # p /\ b # p
      BY <1>1, <1>2, <2>1, <3>3 DEF Aside, Apart
    <3> QED
      BY <3>1, <3>2, <3>3
  <2> QED
    BY <2>1 DEF Apart
<1>11. \A q \in Proc : pc[q] \notin Alone /\ pc'[q] \notin Alone
  <2>1. \A q \in Proc : pc[q] \notin Alone
    BY <1>1, <1>3, SharingFacts
  <2>2. s \notin Alone
    BY DEF Alone, Collecting, Writing, Publish
  <2> QED
    BY <1>2, <2>1, <2>2
<1>12. Scanned' /\ Collected' /\ Rest'
  BY <1>11 DEF Scanned, Collected, Rest, StoreInv, Alone
<1> QED
  BY <1>4, <1>8, <1>9, <1>10, <1>12 DEF StoreInv

\* The index goes on knowing what it knew.
LEMMA IndexedStays ==
  ASSUME StoreInv, NEW p \in Proc, NEW s, Go(p, s), s # "scan", pc[p] \notin {"index", "scan"},
         UNCHANGED <<commits, rows>>, objects \subseteq objects', stale => stale', Aside(p)
  PROVE  Indexed'
<1>1. \A q \in Proc : pc'[q] = IF q = p THEN s ELSE pc[q]
  BY DEF Go, StoreInv, StoreType
<1>2. \A q \in Proc : pc'[q] = "scan" <=> pc[q] = "scan"
  BY <1>1
<1>3. \A q \in Proc : pc[q] = "index" => pc'[q] = "index" /\ target'[q] = target[q]
  BY <1>1 DEF Aside
<1>4. \A k \in Key : Knows(k, rows, objects) => Knows(k, rows, objects)'
  BY DEF Knows
<1> QED
  BY <1>2, <1>3, <1>4 DEF StoreInv, Indexed, In

LEMMA DedupKeeps ==
  ASSUME StoreInv, StoreType', NEW p \in Proc, NEW h \in Hash, Dedup(p, h) \/ Stage(p, h)
  PROVE  StoreInv'
<1>1. StoreType /\ Session(p) /\ Publication(p) /\ cached = {}
  BY DEF StoreInv
<1>2. pc[p] = "open" /\ Go(p, "open")
  BY <1>1 DEF Dedup, Stage, Go, StoreType
<1>3. Aside(p) /\ UNCHANGED <<blobs, cached, commits, rows, objects, stale, intents, pc, lease,
                               target, stamp, synced, todo, tx, clock, acked>>
  BY <1>1 DEF Dedup, Stage, Aside, StoreType, disk, index, batch, collector, history
<1>4. Session(p)'
  <2>1. /\ verified'[p] = verified[p] \cup {h}
        /\ (pending'[p] = pending[p] /\ blobs[h] = "good") \/ pending'[p] = pending[p] \cup {h}
    BY <1>1 DEF Dedup, Stage, StoreType, batch
  <2> QED
    BY <1>1, <1>2, <1>3, <2>1 DEF Session, Writing, Intending
<1>5. Publication(p)'
  BY <1>2, <1>3 DEF Publication, Publish
<1>6. Indexed'
  BY <1>2, <1>3, IndexedStays
<1>7. AckedKept'
  BY <1>3 DEF StoreInv, AckedKept
<1> QED
  BY <1>1, <1>2, <1>3, <1>4, <1>5, <1>6, <1>7, SessionStep DEF Writing, Publish, StoreType

LEMMA FlushBeginKeeps ==
  ASSUME StoreInv, StoreType', NEW p \in Proc, FlushBegin(p)
  PROVE  StoreInv'
<1>1. StoreType /\ Session(p) /\ Publication(p) /\ cached = {}
  BY DEF StoreInv
<1>2. pc[p] = "open" /\ Go(p, "flushing") /\ pc'[p] = "flushing"
  BY <1>1 DEF FlushBegin, Go, StoreType
<1>3. Aside(p) /\ UNCHANGED <<blobs, cached, commits, rows, objects, stale, lease, target, stamp,
                               pending, verified, todo, tx, clock, acked>>
  BY <1>1 DEF FlushBegin, Aside, StoreType, disk, collector, history
<1>4. Session(p)'
  <2>1. synced'[p] = pending[p] /\ p \in intents'
    BY <1>1 DEF FlushBegin, StoreType
  <2> QED
    BY <1>1, <1>2, <1>3, <2>1 DEF Session, Writing, Intending
<1>5. Publication(p)'
  BY <1>2 DEF Publication, Publish
<1>6. Indexed'
  BY <1>2, <1>3, IndexedStays
<1>7. AckedKept'
  BY <1>3 DEF StoreInv, AckedKept
<1> QED
  BY <1>1, <1>2, <1>3, <1>4, <1>5, <1>6, <1>7, SessionStep DEF Writing, Publish, StoreType

LEMMA FlushRenameKeeps ==
  ASSUME StoreInv, StoreType', NEW p \in Proc, NEW h \in Hash, FlushRename(p, h)
  PROVE  StoreInv'
<1>1. StoreType /\ Session(p) /\ Publication(p) /\ cached = {}
  BY DEF StoreInv
<1>2. pc[p] = "flushing" /\ Go(p, "flushing")
  BY <1>1 DEF FlushRename, Go, StoreType
<1>3. Aside(p) /\ UNCHANGED <<commits, rows, objects, stale, intents, pc, lease, target, stamp,
                               synced, verified, todo, tx, clock, acked>>
  BY <1>1 DEF FlushRename, Aside, StoreType, index, collector, history
<1>4. \A g \in Hash : blobs'[g] = IF g = h THEN "good" ELSE blobs[g]
  BY <1>1 DEF FlushRename, StoreType
<1>5. pending'[p] = pending[p] \ {h} /\ verified[p] \subseteq Hash
  BY <1>1 DEF FlushRename, StoreType
<1>6. cached' = {}
  BY <1>1, <1>2 DEF FlushRename, Session
<1>7. Session(p)'
  BY <1>1, <1>2, <1>3, <1>4, <1>5 DEF Session, Writing
<1>8. Publication(p)'
  BY <1>2, <1>3 DEF Publication, Publish
<1>9. Indexed'
  BY <1>2, <1>3, IndexedStays
<1>10. AckedKept'
  BY <1>3 DEF StoreInv, AckedKept
<1> QED
  BY <1>1, <1>2, <1>3, <1>4, <1>6, <1>7, <1>8, <1>9, <1>10, SessionStep
  DEF Writing, Publish, StoreType

LEMMA FlushCommitKeeps ==
  ASSUME StoreInv, StoreType', NEW p \in Proc, FlushCommit(p)
  PROVE  StoreInv'
<1>1. StoreType /\ Session(p) /\ Publication(p) /\ cached = {}
  BY DEF StoreInv
<1>2. pc[p] = "flushing" /\ Go(p, "open") /\ pc'[p] = "open"
  BY <1>1 DEF FlushCommit, Go, StoreType
<1>3. Aside(p) /\ UNCHANGED <<blobs, cached, commits, rows, stale, lease, target, stamp, pending,
                               verified, todo, tx, clock, acked>>
  BY <1>1 DEF FlushCommit, Aside, StoreType, disk, collector, history
<1>4. p \notin intents' /\ objects \subseteq objects'
  BY DEF FlushCommit
<1>5. Session(p)'
  BY <1>1, <1>2, <1>3, <1>4 DEF Session, Writing, Intending, Publish
<1>6. Publication(p)'
  BY <1>2 DEF Publication, Publish
<1>7. Indexed'
  BY <1>2, <1>3, <1>4, IndexedStays
<1>8. AckedKept'
  BY <1>3 DEF StoreInv, AckedKept
<1> QED
  BY <1>1, <1>2, <1>3, <1>5, <1>6, <1>7, <1>8, SessionStep DEF Writing, Publish, StoreType

LEMMA CommitFoundKeeps ==
  ASSUME StoreInv, StoreType', NEW p \in Proc, NEW k \in Key, CommitFound(p, k)
  PROVE  StoreInv'
<1>1. StoreType /\ Session(p) /\ Publication(p) /\ cached = {}
  BY DEF StoreInv
<1>2. pc[p] = "open" /\ Go(p, "open")
  BY <1>1 DEF CommitFound, Go, StoreType
<1>3. Aside(p) /\ UNCHANGED <<blobs, cached, commits, rows, objects, stale, intents, pc, lease,
                               target, stamp, pending, synced, verified, todo, tx, clock>>
  BY DEF CommitFound, Aside, disk, index, batch, collector
<1>4. Session(p)' /\ Publication(p)'
  BY <1>1, <1>2, <1>3 DEF Session, Publication, Writing, Publish
<1>5. Indexed'
  BY <1>2, <1>3, IndexedStays
<1>6. AckedKept'
  BY <1>3 DEF StoreInv, AckedKept, CommitFound
<1> QED
  BY <1>1, <1>2, <1>3, <1>4, <1>5, <1>6, SessionStep DEF Writing, Publish, StoreType

LEMMA CommitStampKeeps ==
  ASSUME StoreInv, StoreType', NEW p \in Proc, NEW k \in Key, CommitStamp(p, k)
  PROVE  StoreInv'
<1>1. StoreType /\ Session(p) /\ Publication(p) /\ cached = {}
  BY DEF StoreInv
<1>2. pc[p] = "open" /\ Go(p, "stamped") /\ pc'[p] = "stamped"
  BY <1>1 DEF CommitStamp, Go, StoreType
<1>3. /\ Aside(p)
      /\ UNCHANGED <<blobs, cached, commits, rows, objects, stale, intents, lease, pending,
                     synced, verified, todo, tx, acked>>
  BY <1>1 DEF CommitStamp, Aside, StoreType, disk, index, batch, collector
<1>4. target'[p] = k /\ stamp'[p] = clock + 1 /\ clock' = clock + 1 /\ clock \in Nat
  BY <1>1 DEF CommitStamp, StoreType
<1>5. commits[k] = 0
  BY DEF CommitStamp, StoreInv, NoDangling, In
<1>6. \A j \in Key : commits[j] # clock + 1
  BY <1>1, <1>4 DEF StoreInv, StoreType
<1>7. Session(p)'
  BY <1>1, <1>2, <1>3 DEF Session, Writing, Publish, Intending
<1>8. Publication(p)'
  <2>1. pending[p] = {} /\ Content[k] \subseteq verified[p] /\ clock + 1 # 0
    BY <1>4 DEF CommitStamp
  <2> QED
    BY <1>2, <1>3, <1>4, <1>5, <1>6, <2>1 DEF Publication
<1>9. ASSUME NEW q \in Proc \ {p}, pc[q] \in Publish
      PROVE  target'[p] # target[q] /\ stamp'[p] # stamp[q]
  <2>1. target[q] # k
    BY <1>9 DEF CommitStamp, Publishing, Publish
  <2>2. stamp[q] <= clock /\ stamp[q] \in Nat
    BY <1>1, <1>9 DEF StoreInv, Publication, StoreType
  <2> QED
    BY <1>4, <2>1, <2>2
<1>10. Indexed'
  BY <1>2, <1>3, IndexedStays
<1>11. AckedKept'
  BY <1>3 DEF StoreInv, AckedKept
<1> QED
  BY <1>1, <1>2, <1>3, <1>4, <1>7, <1>8, <1>9, <1>10, <1>11, SessionStep DEF Writing, Publish

LEMMA CommitIntentKeeps ==
  ASSUME StoreInv, StoreType', NEW p \in Proc, CommitIntent(p)
  PROVE  StoreInv'
<1>1. StoreType /\ Session(p) /\ Publication(p) /\ cached = {} /\ Apart
  BY DEF StoreInv
<1>2. pc[p] = "stamped" /\ Go(p, "publish") /\ pc'[p] = "publish"
  BY <1>1 DEF CommitIntent, Go, StoreType
<1>3. /\ Aside(p) /\ p \in intents'
      /\ UNCHANGED <<blobs, cached, commits, rows, objects, stale, lease, target, stamp, pending,
                     synced, verified, todo, tx, clock, acked>>
  BY DEF CommitIntent, Aside, disk, session, batch, collector, history
<1>4. Session(p)' /\ Publication(p)'
  BY <1>1, <1>2, <1>3 DEF Session, Publication, Writing, Publish, Intending
<1>5. Indexed'
  BY <1>2, <1>3, IndexedStays
<1>6. AckedKept'
  BY <1>3 DEF StoreInv, AckedKept
<1>7. \A q \in Proc \ {p} : pc[q] \in Publish => target'[p] # target[q] /\ stamp'[p] # stamp[q]
  BY <1>1, <1>2, <1>3 DEF Apart, Publish
<1> QED
  BY <1>1, <1>2, <1>3, <1>4, <1>5, <1>6, <1>7, SessionStep DEF Writing, Publish, StoreType

LEMMA AtomicWriteKeeps ==
  ASSUME StoreInv, StoreType', NEW p \in Proc, AtomicWrite(p)
  PROVE  StoreInv'
<1>1. StoreType /\ Session(p) /\ Publication(p) /\ cached = {} /\ Apart
  BY DEF StoreInv
<1>2. pc[p] = "publish" /\ Go(p, "index")
  BY DEF AtomicWrite
<1>3. \A q \in Proc : pc'[q] = IF q = p THEN "index" ELSE pc[q]
  BY <1>1, <1>2 DEF Go, StoreType
<1>4. /\ Aside(p)
      /\ UNCHANGED <<blobs, cached, rows, objects, stale, intents, lease, target, stamp, pending,
                     synced, verified, todo, tx, clock, acked>>
  BY DEF AtomicWrite, Aside, index, session, batch, collector, history
<1>5. target[p] \in Key /\ stamp[p] # 0 /\ Publishes(p)
  BY <1>1, <1>2, <1>4 DEF AtomicWrite, Publication, Publish, Publishes
<1>6. \A k \in Key : commits'[k] = IF k = target[p] THEN stamp[p] ELSE commits[k]
  BY <1>1, <1>5 DEF Publishes, StoreType
<1>7. Session(p)' /\ Publication(p)'
  BY <1>1, <1>2, <1>3, <1>4, <1>5, <1>6 DEF Session, Publication, Writing, Publish, Intending
<1>8. Indexed'
  <2> SUFFICES ASSUME ~stale, \A q \in Proc : pc'[q] # "scan", NEW k \in Key, commits'[k] # 0
               PROVE  Knows(k, rows, objects)' \/ \E q \in Proc : pc'[q] = "index" /\ target'[q] = k
    BY <1>4 DEF Indexed, In
  <2>1. CASE k = target[p]
    BY <1>3, <1>4, <2>1
  <2>2. CASE k # target[p]
    <3>1. Knows(k, rows, objects) \/ \E q \in Proc : pc[q] = "index" /\ target[q] = k
      BY <1>2, <1>3, <1>6, <2>2 DEF StoreInv, Indexed, In
    <3> QED
      BY <1>3, <1>4, <1>6, <2>2, <3>1 DEF Knows
  <2> QED
    BY <2>1, <2>2
<1>9. AckedKept'
  BY <1>1, <1>4, <1>5, <1>6 DEF StoreInv, StoreType, AckedKept
<1>10. \A q \in Proc \ {p} : pc[q] \in Publish => target'[p] # target[q] /\ stamp'[p] # stamp[q]
  BY <1>1, <1>2, <1>4 DEF Apart, Publish
<1> QED
  BY <1>1, <1>2, <1>4, <1>5, <1>7, <1>8, <1>9, <1>10, SessionStep DEF Writing, Publish, StoreType

LEMMA IndexRecordKeeps ==
  ASSUME StoreInv, StoreType', NEW p \in Proc, IndexRecord(p)
  PROVE  StoreInv'
<1>1. StoreType /\ Session(p) /\ Publication(p) /\ cached = {} /\ Apart
  BY DEF StoreInv
<1>2. pc[p] = "index" /\ Go(p, "settle")
  BY DEF IndexRecord
<1>3. \A q \in Proc : pc'[q] = IF q = p THEN "settle" ELSE pc[q]
  BY <1>1, <1>2 DEF Go, StoreType
<1>4. /\ Aside(p)
      /\ UNCHANGED <<blobs, cached, commits, stale, intents, lease, target, stamp, pending,
                     synced, verified, todo, tx, clock, acked>>
  BY DEF IndexRecord, Aside, disk, session, batch, collector, history
<1>5. target[p] \in Key /\ commits[target[p]] = stamp[p]
  BY <1>1, <1>2 DEF Publication, Publish
<1>6. /\ \A k \in Key : rows'[k] = IF k = target[p] THEN stamp[p] ELSE rows[k]
      /\ objects' = objects \cup Content[target[p]]
  BY <1>1, <1>5 DEF IndexRecord, StoreType
<1>7. Session(p)' /\ Publication(p)'
  BY <1>1, <1>2, <1>3, <1>4 DEF Session, Publication, Writing, Publish, Intending
<1>8. Indexed'
  <2> SUFFICES ASSUME ~stale, \A q \in Proc : pc'[q] # "scan", NEW k \in Key, commits[k] # 0
               PROVE  Knows(k, rows, objects)' \/ \E q \in Proc : pc'[q] = "index" /\ target'[q] = k
    BY <1>4 DEF Indexed, In
  <2>1. CASE k = target[p]
    BY <1>4, <1>5, <1>6, <2>1 DEF Knows
  <2>2. CASE k # target[p]
    <3>1. Knows(k, rows, objects) \/ \E q \in Proc : pc[q] = "index" /\ target[q] = k
      BY <1>2, <1>3, <2>2 DEF StoreInv, Indexed, In
    <3> QED
      BY <1>3, <1>4, <1>6, <2>2, <3>1 DEF Knows
  <2> QED
    BY <2>1, <2>2
<1>9. AckedKept'
  BY <1>4 DEF StoreInv, AckedKept
<1>10. \A q \in Proc \ {p} : pc[q] \in Publish => target'[p] # target[q] /\ stamp'[p] # stamp[q]
  BY <1>1, <1>2, <1>4 DEF Apart, Publish
<1> QED
  BY <1>1, <1>2, <1>4, <1>7, <1>8, <1>9, <1>10, SessionStep DEF Writing, Publish, StoreType

LEMMA CommitReturnKeeps ==
  ASSUME StoreInv, StoreType', NEW p \in Proc, CommitReturn(p)
  PROVE  StoreInv'
<1>1. StoreType /\ Session(p) /\ Publication(p) /\ cached = {}
  BY DEF StoreInv
<1>2. pc[p] = "settle" /\ Go(p, "open") /\ pc'[p] = "open"
  BY <1>1 DEF CommitReturn, Go, StoreType
<1>3. /\ Aside(p) /\ p \notin intents'
      /\ UNCHANGED <<blobs, cached, commits, rows, objects, stale, lease, pending, synced,
                     verified, todo, tx, clock>>
  BY <1>1 DEF CommitReturn, Aside, StoreType, disk, batch, collector
<1>4. Session(p)' /\ Publication(p)'
  BY <1>1, <1>2, <1>3 DEF Session, Publication, Writing, Publish, Intending
<1>5. Indexed'
  BY <1>2, <1>3, IndexedStays
<1>6. AckedKept'
  BY <1>1, <1>2, <1>3 DEF StoreInv, AckedKept, CommitReturn, Publication, Publish
<1> QED
  BY <1>1, <1>2, <1>3, <1>4, <1>5, <1>6, SessionStep DEF Writing, Publish, StoreType

LEMMA EndWriteKeeps ==
  ASSUME StoreInv, StoreType', NEW p \in Proc, EndWrite(p)
  PROVE  StoreInv'
<1>1. StoreType /\ Session(p) /\ Publication(p) /\ cached = {}
  BY DEF StoreInv
<1>2. pc[p] \in Writing /\ Go(p, "closing") /\ pc'[p] = "closing"
  BY <1>1 DEF EndWrite, Go, StoreType, Writing, Publish
<1>3. /\ Aside(p) /\ p \notin intents' /\ pending'[p] = {} /\ verified'[p] = {}
      /\ UNCHANGED <<blobs, cached, commits, rows, objects, lease, todo, tx, clock, acked>>
  BY <1>1 DEF EndWrite, Aside, StoreType, disk, collector, history
<1>4. Session(p)' /\ Publication(p)'
  BY <1>2, <1>3 DEF Session, Publication, Writing, Publish, Intending
<1>5. Indexed'
  <2>1. CASE pc[p] = "index"
    BY <1>1, <2>1 DEF EndWrite, Session, Intending, Indexed
  <2>2. CASE pc[p] # "index"
    BY <1>2, <1>3, <2>2, IndexedStays DEF EndWrite, Writing, Publish
  <2> QED
    BY <2>1, <2>2
<1>6. AckedKept'
  BY <1>3 DEF StoreInv, AckedKept
<1> QED
  BY <1>1, <1>2, <1>3, <1>4, <1>5, <1>6, SessionStep DEF Writing, Publish, StoreType
-----------------------------------------------------------------------------
(* Steps under the exclusive lease *)

LEMMA AloneStep ==
  ASSUME StoreInv, StoreType', Leases', NEW p \in Proc, NEW s \in States, pc[p] \in Alone,
         Go(p, s), s \notin Sharing,
         UNCHANGED <<target, stamp, pending, synced, verified, clock>>, intents' \subseteq intents,
         cached' = {}, NoDangling', AckedKept',
         \A k \in Key : commits'[k] \in {0, commits[k]},
         Indexed',
         s = "scan" =>
           todo' \subseteq In(commits)' /\ \A k \in In(commits)' \ todo' : Knows(k, rows, objects)',
         s \in Collecting =>
           \A k \in In(commits)' : Knows(k, tx.rows, tx.objects)' /\ Content[k] \cap todo' = {},
         s \in Collecting \cup {"scan"} \/ todo' = {}
  PROVE  StoreInv'
<1>1. StoreType /\ Leases
  BY DEF StoreInv
<1>2. \A q \in Proc : pc'[q] = IF q = p THEN s ELSE pc[q]
  BY <1>1 DEF Go, StoreType
<1>3. \A q \in Proc : pc[q] \notin Sharing /\ (q # p => pc[q] \notin Alone)
  BY <1>1, AloneFacts
<1>4. \A q \in Proc : pc[q] \notin Sharing /\ pc'[q] \notin Sharing
  BY <1>2, <1>3
<1>5. ASSUME NEW q \in Proc PROVE Session(q)' /\ Publication(q)'
  <2>1. q \notin intents /\ pending[q] = {} /\ verified[q] = {}
    BY <1>4 DEF StoreInv, Session, Sharing, Writing, Publish, Intending
  <2> QED
    BY <1>4, <2>1 DEF Session, Publication, Sharing, Writing, Publish, Intending
<1>6. Apart'
  BY <1>4 DEF Apart, Sharing, Writing
<1>7. \A k \in Key : commits'[k] <= clock'
  BY <1>1 DEF StoreInv, StoreType
<1>8. \A q \in Proc : pc'[q] \in Alone => q = p
  BY <1>2, <1>3
<1>9. Scanned' /\ Collected'
  BY <1>2, <1>8 DEF Scanned, Collected, Alone
<1>10. Rest'
  BY <1>2 DEF Rest
<1> QED
  BY <1>5, <1>6, <1>7, <1>9, <1>10 DEF StoreInv

LEMMA GcWithdrawKeeps ==
  ASSUME StoreInv, StoreType', NEW p \in Proc, NEW k \in Key, GcWithdraw(p, k)
  PROVE  StoreInv'
<1>1. StoreType /\ Leases /\ cached = {} /\ pc[p] = "gc"
  BY DEF StoreInv, GcWithdraw
<1>2. Go(p, "gc") /\ UNCHANGED <<blobs, cached, rows, objects, intents, stale, pc, lease, target,
                                  stamp, pending, synced, verified, clock>>
  BY <1>1 DEF GcWithdraw, Go, StoreType, index, session, batch
<1>3. Leases'
  BY <1>1, <1>2 DEF Leases
<1>4. \A j \in Key : commits'[j] = IF j = k THEN 0 ELSE commits[j]
  BY <1>1 DEF GcWithdraw, StoreType
<1>5. NoDangling'
  BY <1>2, <1>4 DEF StoreInv, NoDangling, In, Complete
<1>6. AckedKept'
  BY <1>1, <1>4 DEF StoreInv, StoreType, AckedKept, GcWithdraw
<1>7. Indexed'
  BY <1>2, <1>4 DEF StoreInv, Indexed, In, Knows
<1>8. ASSUME NEW j \in Key, commits'[j] # 0
      PROVE  Knows(j, tx.rows, tx.objects)' /\ Content[j] \cap todo' = {}
  <2> DEFINE left == [tx.rows EXCEPT ![k] = 0]
  <2>1. /\ todo' = Content[k] \ Referenced(left)
        /\ tx'.rows = left /\ tx'.objects = tx.objects
    BY DEF GcWithdraw, Begun
  <2>2. j # k /\ commits'[j] = commits[j] /\ Knows(j, tx.rows, tx.objects)
    BY <1>1, <1>4, <1>8 DEF StoreInv, Collected, Collecting, In
  <2>3. left[j] = commits[j]
    BY <1>1, <2>2 DEF Knows, StoreType
  <2>4. Content[j] \subseteq Referenced(left)
    BY <1>8, <2>2, <2>3 DEF Referenced, In
  <2> HIDE DEF left
  <2> QED
    BY <2>1, <2>2, <2>3, <2>4 DEF Knows
<1> QED
  BY <1>1, <1>2, <1>3, <1>4, <1>5, <1>6, <1>7, <1>8, AloneStep
  DEF In, Alone, Collecting, Sharing, Writing, Publish, States

LEMMA GcRemoveKeeps ==
  ASSUME StoreInv, StoreType', NEW p \in Proc, NEW h \in Hash, GcRemove(p, h)
  PROVE  StoreInv'
<1>1. StoreType /\ Leases /\ cached = {} /\ pc[p] \in Collecting
  BY DEF StoreInv, GcRemove, Collecting
<1>2. Go(p, pc[p]) /\ UNCHANGED <<commits, rows, objects, intents, stale, pc, lease, target,
                                   stamp, pending, synced, verified, clock, acked>>
  BY <1>1 DEF GcRemove, Go, StoreType, index, session, batch, history
<1>3. Leases'
  BY <1>1, <1>2 DEF Leases
<1>4. /\ cached' = {} /\ h \in todo /\ todo' = todo \ {h}
      /\ tx'.rows = tx.rows /\ tx'.objects = tx.objects \ {h}
      /\ \A g \in Hash : g # h => blobs'[g] = blobs[g]
  BY <1>1 DEF GcRemove, StoreType, Begun
<1>5. \A k \in In(commits) : Knows(k, tx.rows, tx.objects) /\ h \notin Content[k] /\ Content[k] \cap todo = {}
  BY <1>1, <1>4 DEF StoreInv, Collected
<1>6. NoDangling'
  BY <1>2, <1>4, <1>5, StoreAssumption DEF StoreInv, NoDangling, In, Complete
<1>7. AckedKept'
  BY <1>2 DEF StoreInv, AckedKept
<1>8. Indexed'
  BY <1>2 DEF StoreInv, Indexed, In, Knows
<1>9. \A k \in In(commits)' : Knows(k, tx.rows, tx.objects)' /\ Content[k] \cap todo' = {}
  BY <1>2, <1>4, <1>5 DEF Knows, In
<1> QED
  BY <1>1, <1>2, <1>3, <1>4, <1>6, <1>7, <1>8, <1>9, AloneStep
  DEF Alone, Collecting, Sharing, Writing, Publish, States

\* Steps that leave the directory as it is.
LEMMA CollectorStep ==
  ASSUME StoreInv, StoreType', Leases', NEW p \in Proc, NEW s \in States, pc[p] \in Alone,
         Go(p, s), s \notin Sharing, UNCHANGED <<disk, session, history>>, intents' \subseteq intents,
         Indexed',
         s = "scan" =>
           todo' \subseteq In(commits) /\ \A k \in In(commits) \ todo' : Knows(k, rows', objects'),
         s \in Collecting =>
           \A k \in In(commits) : Knows(k, tx'.rows, tx'.objects) /\ Content[k] \cap todo' = {},
         s \in Collecting \cup {"scan"} \/ todo' = {}
  PROVE  StoreInv'
<1>1. UNCHANGED <<blobs, cached, commits, target, stamp, pending, synced, verified, clock, acked>>
  BY DEF disk, session, batch, history
<1>2. cached = {} /\ NoDangling' /\ AckedKept'
  BY <1>1 DEF StoreInv, NoDangling, AckedKept, In, Complete
<1>3. s = "scan" =>
        todo' \subseteq In(commits)' /\ \A k \in In(commits)' \ todo' : Knows(k, rows, objects)'
  BY <1>1 DEF In, Knows
<1>4. s \in Collecting =>
        \A k \in In(commits)' : Knows(k, tx.rows, tx.objects)' /\ Content[k] \cap todo' = {}
  BY <1>1 DEF In, Knows
<1> QED
  BY <1>1, <1>2, <1>3, <1>4, AloneStep

\* The index as it was, or as the transaction has it.
LEMMA IndexedThen ==
  ASSUME StoreInv, NEW p \in Proc, pc[p] \in Collecting, UNCHANGED <<commits, target, stale>>,
         \/ UNCHANGED <<rows, objects>>
         \/ rows' = tx.rows /\ objects' = tx.objects
  PROVE  Indexed'
<1>1. \A q \in Proc : pc[q] # "scan" /\ pc[q] # "index"
  BY AloneFacts DEF StoreInv, Alone, Collecting, Sharing, Writing, Publish
<1>2. ASSUME NEW k \in In(commits), ~stale PROVE Knows(k, rows', objects')
  BY <1>1, <1>2 DEF StoreInv, Indexed, Collected, Knows, In
<1> QED
  BY <1>2 DEF Indexed, Knows, In

LEMMA GcEndKeeps ==
  ASSUME StoreInv, StoreType', NEW p \in Proc,
         GcSweep(p) \/ GcCommit(p) \/ GcRefuse(p) \/ GcAbort(p)
  PROVE  StoreInv'
<1>1. StoreType /\ Leases /\ pc[p] \in Collecting /\ pc[p] \in Alone
  BY DEF StoreInv, GcSweep, GcCommit, GcRefuse, GcAbort, Collecting, Alone
<1>2. CASE GcSweep(p)
  <2>1. /\ Go(p, "sweep") /\ UNCHANGED <<disk, index, lease, session, tx, history>>
        /\ todo' = tx.objects \ Referenced(tx.rows)
    BY <1>2 DEF GcSweep
  <2>2. Leases'
    BY <1>1, <2>1, LeaseStays DEF LeaseOf, Alone, Collecting, States
  <2>3. Indexed'
    BY <1>1, <2>1, IndexedThen DEF disk, index, session
  <2>4. ASSUME NEW k \in In(commits)
        PROVE  Knows(k, tx.rows, tx.objects) /\ Content[k] \cap todo' = {}
    <3>1. Knows(k, tx.rows, tx.objects)
      BY <1>1 DEF StoreInv, Collected
    <3>2. Content[k] \subseteq Referenced(tx.rows)
      BY <3>1 DEF Referenced, In, Knows
    <3> QED
      BY <2>1, <3>1, <3>2
  <2> QED
    BY <1>1, <2>1, <2>2, <2>3, <2>4, CollectorStep
    DEF index, Alone, Collecting, Sharing, Writing, Publish, States
<1>3. ASSUME NEW s \in {"retry", "failed"}, Go(p, s), Take(p, "none"), todo' = {},
             UNCHANGED <<disk, intents, stale, session, history>>,
             \/ UNCHANGED <<rows, objects>>
             \/ rows' = tx.rows /\ objects' = tx.objects
      PROVE  StoreInv'
  <2>1. s \notin Alone /\ s \notin Sharing /\ s \in States /\ LeaseOf(s) = "none"
    BY DEF LeaseOf, Alone, Collecting, Sharing, Writing, Publish, States
  <2>2. Leases'
    BY <1>1, <1>3, <2>1, LeaseMoves
  <2>3. Indexed'
    BY <1>1, <1>3, IndexedThen DEF disk, session
  <2> QED
    BY <1>1, <1>3, <2>1, <2>2, <2>3, CollectorStep DEF Alone
<1>4. CASE GcCommit(p) \/ GcRefuse(p) \/ GcAbort(p)
  BY <1>3, <1>4 DEF GcCommit, GcRefuse, GcAbort, index
<1> QED
  BY <1>2, <1>4

LEMMA RecoverWipeKeeps ==
  ASSUME StoreInv, StoreType', NEW p \in Proc, RecoverWipe(p)
  PROVE  StoreInv'
<1>1. StoreType /\ Leases /\ pc[p] = "wipe" /\ Go(p, "scan")
  BY DEF StoreInv, RecoverWipe
<1>2. UNCHANGED <<disk, lease, session, tx, history>> /\ todo' = In(commits) /\ intents' = {}
  BY DEF RecoverWipe
<1>3. Leases'
  BY <1>1, <1>2, LeaseStays DEF LeaseOf, Alone, States
<1>4. Indexed'
  BY <1>1 DEF Indexed, Go, StoreType
<1> QED
  BY <1>1, <1>2, <1>3, <1>4, CollectorStep
  DEF Alone, Collecting, Sharing, Writing, Publish, States

LEMMA RecoverIndexKeeps ==
  ASSUME StoreInv, StoreType', NEW p \in Proc, NEW k \in Key, RecoverIndex(p, k)
  PROVE  StoreInv' /\ UNCHANGED commits
<1>1. StoreType /\ Leases /\ pc[p] = "scan" /\ k \in todo
  BY DEF StoreInv, RecoverIndex
<1>2. todo \subseteq In(commits) /\ \A j \in In(commits) \ todo : Knows(j, rows, objects)
  BY <1>1 DEF StoreInv, Scanned
<1>3. Complete(k)
  BY <1>1, <1>2 DEF StoreInv, NoDangling
<1>4. /\ UNCHANGED <<disk, intents, pc, lease, session, tx, history>> /\ todo' = todo \ {k}
      /\ rows' = [rows EXCEPT ![k] = commits[k]] /\ objects' = objects \cup Content[k]
  BY <1>3 DEF RecoverIndex, disk
<1>5. Go(p, "scan") /\ Leases' /\ Indexed'
  BY <1>1, <1>4 DEF Go, StoreType, Leases, Indexed
<1>6. ASSUME NEW j \in In(commits) \ todo' PROVE Knows(j, rows', objects')
  <2>1. j \in Key
    BY DEF In
  <2>2. CASE j = k
    BY <1>1, <1>4, <2>1, <2>2 DEF Knows, StoreType
  <2>3. CASE j # k
    BY <1>1, <1>2, <1>4, <1>6, <2>1, <2>3 DEF Knows, StoreType
  <2> QED
    BY <2>2, <2>3
<1> QED
  BY <1>1, <1>2, <1>4, <1>5, <1>6, CollectorStep
  DEF disk, Alone, Collecting, Sharing, Writing, Publish, States

LEMMA RecoverReclaimKeeps ==
  ASSUME StoreInv, StoreType', NEW p \in Proc, RecoverReclaim(p)
  PROVE  StoreInv'
<1>1. StoreType /\ Leases /\ pc[p] = "scan" /\ todo = {} /\ cached = {}
  BY DEF StoreInv, RecoverReclaim
<1>2. UNCHANGED <<commits, rows, objects, intents, stale, target, stamp, pending, synced,
                  verified, todo, clock, acked>>
  BY DEF RecoverReclaim, index, session, batch, history
<1>3. /\ cached' = {}
      /\ \A h \in Hash : h \in objects => blobs'[h] = blobs[h]
  BY <1>1 DEF RecoverReclaim
<1>4. \A k \in In(commits) : Knows(k, rows, objects)
  BY <1>1 DEF StoreInv, Scanned
<1>5. NoDangling'
  BY <1>2, <1>3, <1>4, StoreAssumption DEF StoreInv, NoDangling, Complete, Knows, In
<1>6. AckedKept'
  BY <1>2 DEF StoreInv, AckedKept
<1>7. Indexed'
  BY <1>2, <1>4 DEF Indexed, Knows, In
<1>8. CASE Go(p, "idle") /\ Take(p, "none")
  <2>1. Leases'
    BY <1>1, <1>8, LeaseMoves
    DEF LeaseOf, Alone, Collecting, Sharing, Writing, Publish, States
  <2> QED
    BY <1>1, <1>2, <1>3, <1>5, <1>6, <1>7, <1>8, <2>1, AloneStep
    DEF Alone, Collecting, Sharing, Writing, Publish, States
<1>9. CASE Go(p, "gc") /\ UNCHANGED lease /\ Begun(rows, objects)
  <2>1. Leases'
    BY <1>1, <1>9, LeaseStays DEF LeaseOf, Alone, Collecting, States
  <2>2. \A k \in In(commits)' : Knows(k, tx.rows, tx.objects)' /\ Content[k] \cap todo' = {}
    BY <1>1, <1>2, <1>4, <1>9 DEF Begun, Knows, In
  <2> QED
    BY <1>1, <1>2, <1>3, <1>5, <1>6, <1>7, <1>9, <2>1, <2>2, AloneStep
    DEF Alone, Collecting, Sharing, Writing, Publish, States
<1> QED
  BY <1>8, <1>9 DEF RecoverReclaim
-----------------------------------------------------------------------------
(* Faults *)

LEMMA KilledKeeps ==
  ASSUME StoreInv, StoreType', ~RecoverKills, NEW P \in SUBSET Proc, Killed(P),
         UNCHANGED <<blobs, cached>>
  PROVE  StoreInv'
<1>1. StoreType /\ Leases
  BY DEF StoreInv
<1>2. /\ \A q \in P : pc[q] # "scan"
      /\ stale' = (stale \/ intents \cap P # {}) /\ intents' = intents \ P
      /\ UNCHANGED <<blobs, cached, commits, rows, objects, clock, acked>>
  BY KilledFacts DEF history
<1>3. \A q \in P : /\ pc'[q] = "down" /\ lease'[q] = "none" /\ pending'[q] = {} /\ verified'[q] = {}
  BY KilledFacts
<1>4. \A q \in Proc \ P :
        /\ pc'[q] = pc[q] /\ lease'[q] = lease[q] /\ target'[q] = target[q]
        /\ stamp'[q] = stamp[q] /\ pending'[q] = pending[q] /\ synced'[q] = synced[q]
        /\ verified'[q] = verified[q]
  BY KilledFacts
<1>5. "down" \notin Alone \cup Sharing \cup Intending
  BY DEF Alone, Collecting, Sharing, Writing, Publish, Intending
<1>6. ASSUME NEW q \in Proc PROVE Session(q)' /\ Publication(q)' /\ lease'[q] = LeaseOf(pc'[q])
  <2>1. CASE q \in P
    BY <1>2, <1>3, <1>5, <2>1 DEF Session, Publication, LeaseOf, Sharing, Writing
  <2>2. CASE q \notin P
    BY <1>1, <1>2, <1>4, <2>2 DEF StoreInv, Session, Publication, Complete, Leases
  <2> QED
    BY <2>1, <2>2
<1>7. \A q \in Proc : pc'[q] # "down" => q \notin P
  BY <1>3
<1>8. Leases' /\ Apart'
  <2>1. ASSUME NEW a \in Proc, NEW b \in Proc, pc'[a] \in Alone, b # a PROVE lease'[b] = "none"
    BY <1>1, <1>3, <1>4, <1>5, <1>7, <2>1 DEF Leases
  <2>2. ASSUME NEW a \in Proc, NEW b \in Proc, pc'[a] \in Publish, pc'[b] \in Publish, a # b
        PROVE  target'[a] # target'[b] /\ stamp'[a] # stamp'[b]
    BY <1>4, <1>5, <1>7, <2>2 DEF StoreInv, Apart, Sharing, Writing
  <2> QED
    BY <1>6, <2>1, <2>2 DEF Leases, Apart
<1>9. NoDangling' /\ AckedKept' /\ \A k \in Key : commits'[k] <= clock'
  BY <1>2 DEF StoreInv, NoDangling, AckedKept, In, Complete
<1>10. Indexed'
  <2> SUFFICES ASSUME ~stale', \A q \in Proc : pc'[q] # "scan", NEW k \in In(commits)
               PROVE  Knows(k, rows, objects) \/ \E q \in Proc : pc'[q] = "index" /\ target'[q] = k
    BY <1>2 DEF Indexed, In, Knows
  <2>1. ~stale /\ intents \cap P = {} /\ \A q \in Proc : pc[q] # "scan"
    BY <1>2, <1>4
  <2>2. \A q \in Proc : pc[q] = "index" => q \notin P
    BY <2>1 DEF StoreInv, Session, Intending
  <2> QED
    BY <1>4, <2>1, <2>2 DEF StoreInv, Indexed
<1>11. ASSUME NEW q \in Proc, pc'[q] \in Alone
       PROVE  pc'[q] = pc[q] /\ UNCHANGED <<todo, tx>>
  <2>1. q \notin P /\ pc'[q] = pc[q] /\ pc[q] \in Alone
    BY <1>4, <1>5, <1>7, <1>11
  <2>2. ~(\E r \in P : lease[r] = "exclusive")
    BY <1>1, <2>1 DEF Leases
  <2> QED
    BY <2>1, <2>2, KilledFacts DEF collector
<1>12. Scanned' /\ Collected'
  BY <1>2, <1>11 DEF StoreInv, Scanned, Collected, Alone, In, Knows
<1>13. Rest'
  <2>1. CASE \E r \in P : lease[r] = "exclusive"
    BY <2>1, KilledFacts DEF Rest
  <2>2. CASE ~(\E r \in P : lease[r] = "exclusive")
    <3>1. \A q \in P : pc[q] \notin Alone
      BY <1>1, <2>2 DEF Leases, LeaseOf
    <3>2. UNCHANGED todo
      BY <2>2, KilledFacts DEF collector
    <3> QED
      BY <1>4, <3>1, <3>2 DEF StoreInv, Rest, Alone
  <2> QED
    BY <2>1, <2>2
<1> QED
  BY <1>2, <1>6, <1>8, <1>9, <1>10, <1>12, <1>13 DEF StoreInv

LEMMA FaultKeeps ==
  ASSUME StoreInv, StoreType', ~RecoverKills, (\E p \in Proc : Kill(p)) \/ PowerLoss
  PROVE  StoreInv'
<1>1. ASSUME NEW p \in Proc, Kill(p) PROVE StoreInv'
  BY <1>1, KilledKeeps DEF Kill
<1>2. CASE PowerLoss
  <2>1. cached = {} /\ blobs \in [Hash -> {"none", "good", "bad"}]
    BY DEF StoreInv, StoreType
  <2>2. UNCHANGED <<blobs, cached>>
    BY <1>2, <2>1 DEF PowerLoss
  <2>3. Killed(Proc)
    BY <1>2 DEF PowerLoss
  <2> QED
    BY <2>2, <2>3, KilledKeeps
<1> QED
  BY <1>1, <1>2

\* The index is lost, or nothing happens.
LEMMA IdleKeeps ==
  ASSUME StoreInv, StoreType',
         UNCHANGED <<disk, intents, pc, lease, session, collector, history>>,
         \/ UNCHANGED <<rows, objects, stale>>
         \/ stale' /\ \A p \in Proc : pc[p] = "down"
  PROVE  StoreInv'
<1>1. UNCHANGED <<blobs, cached, commits, intents, pc, lease, target, stamp, pending, synced,
                  verified, todo, tx, clock, acked>>
  BY DEF disk, session, batch, collector, history
<1>2. Leases' /\ Apart' /\ Rest' /\ NoDangling' /\ AckedKept'
  BY <1>1 DEF StoreInv, Leases, Apart, Rest, NoDangling, AckedKept, In, Complete
<1>3. \A p \in Proc : Session(p)' /\ Publication(p)'
  BY <1>1 DEF StoreInv, Session, Publication, Complete
<1>4. Scanned' /\ Collected' /\ Indexed'
  BY <1>1 DEF StoreInv, Scanned, Collected, Collecting, Indexed, In, Knows
<1> QED
  BY <1>1, <1>2, <1>3, <1>4 DEF StoreInv
-----------------------------------------------------------------------------
(* The invariant *)

LEMMA TypeKeeps ==
  ASSUME StoreInv, [Next]_vars
  PROVE  StoreType'
<1>1. StoreType /\ \A p \in Proc : Publication(p)
  BY DEF StoreInv
<1>2. ASSUME NEW p \in Proc, Step(p) PROVE StoreType'
  BY <1>1, <1>2, SessionType, PublishType, CollectorType DEF Step
<1>3. CASE UNCHANGED vars
  BY <1>1, <1>3 DEF StoreType, vars, disk, index, session, batch, collector, history
<1> QED
  BY <1>1, <1>2, <1>3, FaultType DEF Next

LEMMA StepKeeps ==
  ASSUME StoreInv, StoreType', NEW p \in Proc, Step(p)
  PROVE  StoreInv'
<1>1. CASE \/ BeginWrite(p) \/ BeginAgain(p) \/ GiveUp(p)
           \/ MaintainBusy(p) \/ Maintain(p) \/ RebuildIndex(p) \/ Open(p)
           \/ CloseWrite(p) \/ EndRead(p) \/ \E k \in Key : Load(p, k)
  BY <1>1, OutsideKeeps
<1>2. CASE \E h \in Hash : Dedup(p, h) \/ Stage(p, h) \/ FlushRename(p, h) \/ GcRemove(p, h)
  BY <1>2, DedupKeeps, FlushRenameKeeps, GcRemoveKeeps
<1>3. CASE \E k \in Key : CommitFound(p, k) \/ CommitStamp(p, k) \/ GcWithdraw(p, k)
                            \/ RecoverIndex(p, k)
  BY <1>3, CommitFoundKeeps, CommitStampKeeps, GcWithdrawKeeps, RecoverIndexKeeps
<1>4. CASE \/ FlushBegin(p) \/ FlushCommit(p) \/ CommitIntent(p) \/ AtomicWrite(p)
           \/ IndexRecord(p) \/ CommitReturn(p) \/ EndWrite(p)
  BY <1>4, FlushBeginKeeps, FlushCommitKeeps, CommitIntentKeeps, AtomicWriteKeeps,
     IndexRecordKeeps, CommitReturnKeeps, EndWriteKeeps
<1>5. CASE GcSweep(p) \/ GcCommit(p) \/ GcRefuse(p) \/ GcAbort(p) \/ RecoverWipe(p)
             \/ RecoverReclaim(p)
  BY <1>5, GcEndKeeps, RecoverWipeKeeps, RecoverReclaimKeeps
<1> QED
  BY <1>1, <1>2, <1>3, <1>4, <1>5 DEF Step

LEMMA StoreKeeps ==
  ASSUME StoreInv, ~RecoverKills, [Next]_vars
  PROVE  StoreInv'
<1>1. StoreType'
  BY TypeKeeps
<1>2. CASE \E p \in Proc : Step(p)
  BY <1>1, <1>2, StepKeeps
<1>3. CASE (\E p \in Proc : Kill(p)) \/ PowerLoss
  BY <1>1, <1>3, FaultKeeps
<1>4. CASE LoseIndex
  BY <1>1, <1>4, IdleKeeps DEF LoseIndex
<1>5. CASE UNCHANGED vars
  BY <1>1, <1>5, IdleKeeps DEF vars, index
<1> QED
  BY <1>2, <1>3, <1>4, <1>5 DEF Next

LEMMA StoreInvariant == ASSUME ~RecoverKills PROVE Spec => []StoreInv
<1>1. StoreInv /\ [Next]_vars => StoreInv'
  BY StoreKeeps
<1> QED
  BY <1>1, InitStore, PTL DEF Spec
-----------------------------------------------------------------------------
(* What the cache promises *)

\* A commit file in the directory has every blob it refers to, whatever was
\* killed, lost or collected (Commit, RunGC, Recover).
THEOREM StoreNoDangling == ASSUME ~RecoverKills PROVE Spec => []NoDangling
<1>1. StoreInv => NoDangling
  BY DEF StoreInv
<1> QED
  BY <1>1, StoreInvariant, PTL

\* A checkpoint whose Commit returned stays until RunGC evicts it.
THEOREM StoreAcked == ASSUME ~RecoverKills PROVE Spec => []AckedKept
<1>1. StoreInv => AckedKept
  BY DEF StoreInv
<1> QED
  BY <1>1, StoreInvariant, PTL

\* An index without an intent that IndexUsable accepts, outside Recover, lists
\* every commit file and every blob these refer to.
THEOREM StoreIndexComplete == ASSUME ~RecoverKills PROVE Spec => []IndexComplete
<1>1. ASSUME StoreInv PROVE IndexComplete
  <2> SUFFICES ASSUME ~Dirty, ~(\E p \in Proc : Recovering(p)), NEW k \in In(commits)
               PROVE  Knows(k, rows, objects)
    BY DEF IndexComplete, Knows
  <2>1. \A p \in Proc : pc[p] # "scan" /\ pc[p] # "index"
    BY <1>1 DEF StoreInv, Session, Intending, Dirty, Recovering
  <2> QED
    BY <1>1, <2>1 DEF StoreInv, Indexed, Dirty
<1> QED
  BY <1>1, StoreInvariant, PTL

\* What a session has loaded, or verified for a commit to come, is not
\* collected from under it (the shared .lease of BeginRead and BeginWrite).
THEOREM StoreSessions == ASSUME ~RecoverKills PROVE Spec => []SessionProtected
<1>1. StoreInv => SessionProtected
  BY DEF StoreInv, Session, SessionProtected
<1> QED
  BY <1>1, StoreInvariant, PTL

\* A step that touches the commit files publishes or evicts one.
LEMMA StepPublishes ==
  ASSUME StoreInv, StoreType', NEW p \in Proc, Step(p)
  PROVE  Store!Next \/ UNCHANGED commits
<1>1. StoreType
  BY DEF StoreInv
<1>2. CASE AtomicWrite(p)
  <2>1. pc[p] = "publish" /\ pc[p] \in Publish /\ commits' = [commits EXCEPT ![target[p]] = stamp[p]]
    BY <1>2 DEF AtomicWrite, Publish
  <2>2. /\ target[p] \in Key /\ stamp[p] \in Nat \ {0} /\ commits[target[p]] = 0
        /\ \A k \in Key : commits[k] # stamp[p]
    BY <1>1, <2>1 DEF StoreInv, Publication, StoreType
  <2>3. commits'[target[p]] = stamp[p]
    BY <1>1, <2>1, <2>2 DEF StoreType
  <2>4. Store!Publish(target[p])
    BY <2>1, <2>2, <2>3 DEF Store!Publish, Store!Stored
  <2> QED
    BY <2>2, <2>4 DEF Store!Next
<1>3. ASSUME NEW k \in Key, GcWithdraw(p, k) PROVE Store!Next \/ UNCHANGED commits
  <2>1. pc[p] \in Collecting /\ Oldest(k) /\ commits' = [commits EXCEPT ![k] = 0]
    BY <1>3 DEF GcWithdraw, Collecting
  <2>2. CASE commits[k] = 0
    BY <1>1, <2>1, <2>2 DEF StoreType
  <2>3. CASE commits[k] # 0
    <3>1. \A j \in In(commits) : tx.rows[j] = commits[j]
      BY <2>1 DEF StoreInv, Collected, Knows
    <3>2. \A j \in In(commits) : j \in In(tx.rows) /\ commits[k] <= commits[j]
      BY <1>1, <2>1, <2>3, <3>1 DEF In, Oldest
    <3>3. Store!Evict(k)
      BY <2>1, <2>3, <3>2 DEF Store!Evict, Store!Stored, In
    <3> QED
      BY <3>3 DEF Store!Next
  <2> QED
    BY <2>2, <2>3
<1>4. ASSUME NEW k \in Key, RecoverIndex(p, k) PROVE UNCHANGED commits
  BY <1>4, RecoverIndexKeeps
<1>5. CASE \/ BeginWrite(p) \/ BeginAgain(p) \/ GiveUp(p)
           \/ MaintainBusy(p) \/ Maintain(p) \/ RebuildIndex(p) \/ Open(p)
           \/ CloseWrite(p) \/ EndRead(p) \/ \E k \in Key : Load(p, k)
  BY <1>5 DEF BeginWrite, BeginAgain, BeginAttempt, GiveUp, MaintainBusy, Maintain, RebuildIndex,
              Open, CloseWrite, EndRead, Load, disk
<1>6. CASE \/ \E h \in Hash : Dedup(p, h) \/ Stage(p, h) \/ FlushRename(p, h) \/ GcRemove(p, h)
           \/ \E k \in Key : CommitFound(p, k) \/ CommitStamp(p, k)
           \/ FlushBegin(p) \/ FlushCommit(p) \/ CommitIntent(p) \/ IndexRecord(p)
           \/ CommitReturn(p) \/ EndWrite(p)
  BY <1>6 DEF Dedup, Stage, FlushRename, GcRemove, CommitFound, CommitStamp, FlushBegin,
              FlushCommit, CommitIntent, IndexRecord, CommitReturn, EndWrite, disk
<1>7. CASE GcSweep(p) \/ GcCommit(p) \/ GcRefuse(p) \/ GcAbort(p) \/ RecoverWipe(p)
             \/ RecoverReclaim(p)
  BY <1>7 DEF GcSweep, GcCommit, GcRefuse, GcAbort, RecoverWipe, RecoverReclaim, disk
<1> QED
  BY <1>2, <1>3, <1>4, <1>5, <1>6, <1>7 DEF Step

\* The directory is a first-in, first-out store of complete checkpoints: one
\* appears when its commit file is renamed into place, only the oldest goes,
\* and kills, power loss, restarts and rebuilt indexes change nothing.
THEOREM StoreImplements == ASSUME ~RecoverKills PROVE Spec => ImplementsStore
<1>1. Init => Store!Init
  BY DEF Init, NoRows, Store!Init
<1>2. ASSUME StoreInv, [Next]_vars PROVE Store!Next \/ UNCHANGED commits
  <2>1. CASE \E p \in Proc : Step(p)
    BY <1>2, <2>1, TypeKeeps, StepPublishes
  <2>2. CASE \E p \in Proc : Kill(p)
    BY <2>2, KilledFacts DEF Kill
  <2>3. CASE PowerLoss
    BY <2>3, KilledFacts DEF PowerLoss
  <2>4. CASE LoseIndex \/ UNCHANGED vars
    BY <2>4 DEF LoseIndex, vars, disk
  <2> QED
    BY <1>2, <2>1, <2>2, <2>3, <2>4 DEF Next
<1>3. StoreInv /\ [Next]_vars => [Store!Next]_commits
  BY <1>2
<1> QED
  BY <1>1, <1>3, StoreInvariant, PTL DEF Spec, ImplementsStore, Store!Spec
-----------------------------------------------------------------------------
(* Sums over finite sets, as FiniteSetsExt adds them up *)

\* g adds f up over the subsets of S, one element after the other.
Adds(g, f, S) ==
  g = [T \in SUBSET S |->
         IF T = {} THEN 0 ELSE f[CHOOSE x \in T : TRUE] + g[T \ {CHOOSE x \in T : TRUE}]]

\* .. over those of at most n elements.
AddsUpTo(n, g, f, S) ==
  /\ g \in [SUBSET S -> Int]
  /\ \A T \in SUBSET S : Cardinality(T) <= n =>
       g[T] = IF T = {} THEN 0 ELSE f[CHOOSE x \in T : TRUE] + g[T \ {CHOOSE x \in T : TRUE}]

\* g adds up integers.
AddsInt(g, f, S) == Adds(g, f, S) /\ g \in [SUBSET S -> Int]

\* .. in any order.
AnyOrder(g, f, S) == \A T \in SUBSET S : \A y \in T : g[T] = f[y] + g[T \ {y}]

\* A set of naturals that is not empty has a least one.
LEMMA LeastNat ==
  ASSUME NEW S \in SUBSET Nat, S # {}
  PROVE  \E m \in S : \A y \in S : m <= y
<1> DEFINE R == OpToRel(<, Nat)
<1>1. IsWellFoundedOn(R, Nat)
  BY NatLessThanWellFounded, Zenon
<1>2. \A y \in S, m \in S : <<y, m>> \notin R => m <= y
  BY DEF OpToRel
<1> HIDE DEF R
<1>3. PICK m \in S : \A y \in S : <<y, m>> \notin R
  BY <1>1, WFMin
<1> QED
  BY <1>2, <1>3

\* A set of subsets of S that is not empty has one with the fewest elements.
LEMMA Smallest ==
  ASSUME NEW S, IsFiniteSet(S), NEW B \in SUBSET SUBSET S, B # {}
  PROVE  \E T \in B : \A U \in B : Cardinality(T) <= Cardinality(U)
<1> DEFINE N == {Cardinality(T) : T \in B}
<1>1. \A T \in B : IsFiniteSet(T) /\ Cardinality(T) \in Nat
  BY FS_Subset, FS_CardinalityType
<1>2. N \in SUBSET Nat /\ N # {}
  BY <1>1
<1>3. PICK m \in N : \A y \in N : m <= y
  BY <1>2, LeastNat
<1> QED
  BY <1>3

\* A set without one of its elements is one smaller.
LEMMA Smaller ==
  ASSUME NEW S, IsFiniteSet(S), NEW T \in SUBSET S, NEW x \in T
  PROVE  /\ T \ {x} \in SUBSET S /\ IsFiniteSet(T) /\ Cardinality(T) \in Nat \ {0}
         /\ Cardinality(T \ {x}) = Cardinality(T) - 1
<1>1. IsFiniteSet(T)
  BY FS_Subset
<1> QED
  BY <1>1, FS_CardinalityType, FS_RemoveElement, FS_EmptySet

\* There is such a g, however many elements there are.
LEMMA AddsUpToExists ==
  ASSUME NEW S, IsFiniteSet(S), NEW f, \A x \in S : f[x] \in Int, NEW n \in Nat
  PROVE  \E g : AddsUpTo(n, g, f, S)
<1> DEFINE Bad == {m \in Nat : ~\E g : AddsUpTo(m, g, f, S)}
<1>1. 0 \notin Bad
  <2>1. PICK g : g = [T \in SUBSET S |-> 0]
    OBVIOUS
  <2>2. \A T \in SUBSET S : Cardinality(T) <= 0 => T = {}
    BY FS_Subset, FS_CardinalityType, FS_EmptySet
  <2>3. AddsUpTo(0, g, f, S)
    BY <2>1, <2>2 DEF AddsUpTo
  <2> QED
    BY <2>3
<1>2. ASSUME NEW m \in Nat, m \notin Bad PROVE m + 1 \notin Bad
  <2>1. PICK g : AddsUpTo(m, g, f, S)
    BY <1>2
  <2>2. PICK h : h = [T \in SUBSET S |->
                        IF Cardinality(T) = m + 1
                        THEN f[CHOOSE x \in T : TRUE] + g[T \ {CHOOSE x \in T : TRUE}] ELSE g[T]]
    OBVIOUS
  <2>3. ASSUME NEW T \in SUBSET S, T # {}, NEW c, c = (CHOOSE x \in T : TRUE)
        PROVE  /\ c \in T /\ T \ {c} \in SUBSET S
               /\ Cardinality(T) \in Nat \ {0} /\ Cardinality(T \ {c}) = Cardinality(T) - 1
    <3>1. c \in T
      BY <2>3
    <3> QED
      BY <3>1, Smaller
  <2>4. h \in [SUBSET S -> Int]
    <3> SUFFICES ASSUME NEW T \in SUBSET S PROVE h[T] \in Int
      BY <2>2, Zenon
    <3>1. CASE Cardinality(T) = m + 1
      <4>1. T # {}
        BY <3>1, FS_EmptySet
      <4>2. PICK c : c = (CHOOSE x \in T : TRUE)
        OBVIOUS
      <4>3. c \in T /\ T \ {c} \in SUBSET S
        BY <2>3, <4>1, <4>2
      <4>4. h[T] = f[c] + g[T \ {c}]
        BY <2>2, <3>1, <4>2
      <4> QED
        BY <2>1, <4>3, <4>4 DEF AddsUpTo
    <3>2. CASE Cardinality(T) # m + 1
      BY <2>1, <2>2, <3>2 DEF AddsUpTo
    <3> QED
      BY <3>1, <3>2
  <2>5. ASSUME NEW T \in SUBSET S, Cardinality(T) <= m + 1
        PROVE  h[T] = IF T = {} THEN 0
                      ELSE f[CHOOSE x \in T : TRUE] + h[T \ {CHOOSE x \in T : TRUE}]
    <3>1. CASE T = {}
      <4>1. Cardinality(T) = 0
        BY <3>1, FS_EmptySet
      <4> QED
        BY <2>1, <2>2, <3>1, <4>1 DEF AddsUpTo
    <3>2. CASE T # {}
      <4>1. PICK c : c = (CHOOSE x \in T : TRUE)
        OBVIOUS
      <4>2. /\ c \in T /\ T \ {c} \in SUBSET S
            /\ Cardinality(T) \in Nat \ {0} /\ Cardinality(T \ {c}) = Cardinality(T) - 1
        BY <2>3, <3>2, <4>1
      <4>3. h[T \ {c}] = g[T \ {c}]
        BY <2>2, <2>5, <4>2
      <4>4. h[T] = f[c] + g[T \ {c}]
        <5>1. CASE Cardinality(T) = m + 1
          BY <2>2, <4>1, <5>1
        <5>2. CASE Cardinality(T) # m + 1
          <6>1. Cardinality(T) <= m
            BY <2>5, <4>2, <5>2
          <6> QED
            BY <2>1, <2>2, <3>2, <4>1, <5>2, <6>1 DEF AddsUpTo
        <5> QED
          BY <5>1, <5>2
      <4> QED
        BY <3>2, <4>1, <4>3, <4>4
    <3> QED
      BY <3>1, <3>2
  <2>6. AddsUpTo(m + 1, h, f, S)
    BY <2>4, <2>5 DEF AddsUpTo
  <2> QED
    BY <2>6
<1>3. Bad = {}
  <2> SUFFICES ASSUME Bad # {} PROVE FALSE
    OBVIOUS
  <2>1. Bad \in SUBSET Nat
    OBVIOUS
  <2> HIDE DEF Bad
  <2>2. PICK m \in Bad : \A y \in Bad : m <= y
    BY <2>1, LeastNat
  <2>3. m \in Nat /\ m # 0
    BY <1>1, <2>1, <2>2
  <2>4. m - 1 \in Nat /\ m - 1 \notin Bad /\ (m - 1) + 1 = m
    BY <2>2, <2>3
  <2> QED
    BY <1>2, <2>2, <2>4
<1> QED
  BY <1>3

\* The sum is what some g adds up.
LEMMA SumAdds ==
  ASSUME NEW S, IsFiniteSet(S), NEW f, \A x \in S : f[x] \in Int
  PROVE  \E g : AddsInt(g, f, S) /\ SumFunctionOnSet(f, S) = g[S]
<1>1. \E g : Adds(g, f, S)
  <2>1. Cardinality(S) \in Nat
    BY FS_CardinalityType
  <2>2. PICK g : AddsUpTo(Cardinality(S), g, f, S)
    BY <2>1, AddsUpToExists
  <2>3. \A T \in SUBSET S : Cardinality(T) <= Cardinality(S)
    BY FS_Subset
  <2>4. Adds(g, f, S)
    BY <2>2, <2>3 DEF AddsUpTo, Adds
  <2> QED
    BY <2>4
<1>2. SumFunctionOnSet(f, S) = (CHOOSE g : Adds(g, f, S))[S]
  BY Zenon DEF SumFunctionOnSet, FoldFunctionOnSet, MapThenFoldSet, Adds
<1>3. PICK g : g = (CHOOSE h : Adds(h, f, S))
  OBVIOUS
<1>4. Adds(g, f, S)
  BY <1>1, <1>3, Zenon
<1>5. SumFunctionOnSet(f, S) = g[S]
  BY <1>2, <1>3, Zenon
<1>6. \A T \in SUBSET S : g[T] \in Int
  <2> SUFFICES ASSUME {T \in SUBSET S : g[T] \notin Int} # {} PROVE FALSE
    OBVIOUS
  <2>1. PICK T \in {U \in SUBSET S : g[U] \notin Int} :
              \A U \in {V \in SUBSET S : g[V] \notin Int} : Cardinality(T) <= Cardinality(U)
    BY Smallest
  <2>2. T # {}
    BY <1>4, <2>1 DEF Adds
  <2>3. PICK c : c = (CHOOSE x \in T : TRUE)
    OBVIOUS
  <2>4. c \in T
    BY <2>2, <2>3
  <2>5. T \ {c} \in SUBSET S /\ Cardinality(T) \in Nat \ {0}
        /\ Cardinality(T \ {c}) = Cardinality(T) - 1
    BY <2>4, Smaller
  <2>6. g[T \ {c}] \in Int
    BY <2>1, <2>5
  <2>7. g[T] = f[c] + g[T \ {c}]
    BY <1>4, <2>1, <2>2, <2>3 DEF Adds
  <2> QED
    BY <2>1, <2>4, <2>6, <2>7
<1>7. g \in [SUBSET S -> Int]
  BY <1>4, <1>6 DEF Adds
<1> QED
  BY <1>4, <1>5, <1>7 DEF AddsInt

\* What g adds up does not depend on the element that goes first.
LEMMA AddsAnyOrder ==
  ASSUME NEW S, IsFiniteSet(S), NEW f, \A x \in S : f[x] \in Int,
         NEW g, AddsInt(g, f, S)
  PROVE  AnyOrder(g, f, S)
<1>0. Adds(g, f, S) /\ g \in [SUBSET S -> Int]
  BY DEF AddsInt
<1> DEFINE Bad == {U \in SUBSET S : \E z \in U : g[U] # f[z] + g[U \ {z}]}
<1> SUFFICES ASSUME Bad # {} PROVE FALSE
  BY DEF AnyOrder
<1>1. PICK U \in Bad : \A V \in Bad : Cardinality(U) <= Cardinality(V)
  BY Smallest
<1>2. PICK z \in U : g[U] # f[z] + g[U \ {z}]
  BY <1>1
<1>3. PICK c : c = (CHOOSE x \in U : TRUE)
  OBVIOUS
<1>4. c \in U /\ U \in SUBSET S
  BY <1>2, <1>3
<1>5. g[U] = f[c] + g[U \ {c}]
  BY <1>0, <1>2, <1>3, <1>4 DEF Adds
<1>6. c # z
  BY <1>2, <1>5
<1>7. \A x \in U : U \ {x} \in SUBSET S /\ U \ {x} \notin Bad
  <2> SUFFICES ASSUME NEW x \in U PROVE U \ {x} \in SUBSET S /\ U \ {x} \notin Bad
    OBVIOUS
  <2>1. U \ {x} \in SUBSET S /\ Cardinality(U) \in Nat /\ Cardinality(U \ {x}) = Cardinality(U) - 1
    BY <1>4, Smaller
  <2>2. ~(Cardinality(U) <= Cardinality(U \ {x}))
    BY <2>1
  <2>3. U \ {x} \notin Bad
    BY <1>1, <2>2, Zenon
  <2> QED
    BY <2>1, <2>3
<1>8. g[U \ {c}] = f[z] + g[(U \ {c}) \ {z}] /\ g[U \ {z}] = f[c] + g[(U \ {z}) \ {c}]
  BY <1>4, <1>6, <1>7
<1>9. PICK n \in Int : n = g[(U \ {c}) \ {z}]
  BY <1>0, <1>4
<1>10. (U \ {c}) \ {z} = (U \ {z}) \ {c}
  OBVIOUS
<1>11. g[U \ {c}] = f[z] + n /\ g[U \ {z}] = f[c] + n
  BY <1>8, <1>9, <1>10, Zenon
<1>12. f[c] \in Int /\ f[z] \in Int
  BY <1>4
<1>13. g[U] = f[c] + (f[z] + n)
  BY <1>5, <1>11, Zenon
<1>14. f[z] + g[U \ {z}] = f[z] + (f[c] + n)
  BY <1>11, Zenon
<1> QED
  BY <1>2, <1>9, <1>12, <1>13, <1>14

\* .. nor on the set it was meant for.
LEMMA AddsAgree ==
  ASSUME NEW S, IsFiniteSet(S), NEW Q \in SUBSET S, NEW f, NEW e, \A x \in Q : e[x] = f[x],
         NEW g, Adds(g, f, S), NEW h, Adds(h, e, Q)
  PROVE  \A T \in SUBSET Q : g[T] = h[T]
<1> DEFINE Bad == {T \in SUBSET Q : g[T] # h[T]}
<1> SUFFICES ASSUME Bad # {} PROVE FALSE
  OBVIOUS
<1>0. IsFiniteSet(Q)
  BY FS_Subset
<1>1. PICK T \in Bad : \A U \in Bad : Cardinality(T) <= Cardinality(U)
  BY <1>0, Smallest
<1>2. T \in SUBSET Q /\ T \in SUBSET S /\ T # {}
  BY <1>1 DEF Adds
<1>3. PICK c : c = (CHOOSE x \in T : TRUE)
  OBVIOUS
<1>4. c \in T
  BY <1>2, <1>3
<1>5. T \ {c} \in SUBSET Q /\ Cardinality(T) \in Nat /\ Cardinality(T \ {c}) = Cardinality(T) - 1
  BY <1>0, <1>2, <1>4, Smaller
<1>6. g[T \ {c}] = h[T \ {c}]
  BY <1>1, <1>5
<1>7. g[T] = f[c] + g[T \ {c}]
  BY <1>2, <1>3 DEF Adds
<1>8. h[T] = e[c] + h[T \ {c}]
  BY <1>2, <1>3 DEF Adds
<1>9. e[c] = f[c]
  BY <1>2, <1>4
<1> QED
  BY <1>1, <1>6, <1>7, <1>8, <1>9, Zenon

\* A sum of integers is an integer ..
LEMMA SumType ==
  ASSUME NEW S, IsFiniteSet(S), NEW f, \A x \in S : f[x] \in Int
  PROVE  SumFunctionOnSet(f, S) \in Int
<1>1. PICK g : AddsInt(g, f, S) /\ SumFunctionOnSet(f, S) = g[S]
  BY SumAdds
<1> QED
  BY <1>1 DEF AddsInt

\* .. of nothing is zero ..
LEMMA SumEmpty ==
  ASSUME NEW f
  PROVE  SumFunctionOnSet(f, {}) = 0
<1>1. PICK g : AddsInt(g, f, {}) /\ SumFunctionOnSet(f, {}) = g[{}]
  BY SumAdds, FS_EmptySet
<1> QED
  BY <1>1 DEF AddsInt, Adds

\* Functions that agree on a set have the same sum there.
LEMMA SumSame ==
  ASSUME NEW S, IsFiniteSet(S), NEW f, \A x \in S : f[x] \in Int, NEW e, \A x \in S : e[x] = f[x]
  PROVE  SumFunctionOnSet(e, S) = SumFunctionOnSet(f, S)
<1>1. \A x \in S : e[x] \in Int
  BY Zenon
<1>2. PICK g : AddsInt(g, f, S) /\ SumFunctionOnSet(f, S) = g[S]
  BY SumAdds
<1>3. PICK h : AddsInt(h, e, S) /\ SumFunctionOnSet(e, S) = h[S]
  BY <1>1, SumAdds
<1>4. S \in SUBSET S
  OBVIOUS
<1>5. \A T \in SUBSET S : g[T] = h[T]
  BY <1>2, <1>3, <1>4, AddsAgree DEF AddsInt
<1> QED
  BY <1>2, <1>3, <1>4, <1>5

\* A sum is any of its terms and the sum of the others.
LEMMA SumRemove ==
  ASSUME NEW S, IsFiniteSet(S), NEW f, \A x \in S : f[x] \in Int, NEW y \in S
  PROVE  SumFunctionOnSet(f, S) = f[y] + SumFunctionOnSet(f, S \ {y})
<1> DEFINE Q == S \ {y}
<1>1. Q \in SUBSET S /\ IsFiniteSet(Q) /\ S \in SUBSET S /\ Q \in SUBSET Q
  BY FS_Subset
<1>2. PICK g : AddsInt(g, f, S) /\ SumFunctionOnSet(f, S) = g[S]
  BY SumAdds
<1>3. PICK h : AddsInt(h, f, Q) /\ SumFunctionOnSet(f, Q) = h[Q]
  BY <1>1, SumAdds
<1>4. g[S] = f[y] + g[S \ {y}]
  <2>1. AnyOrder(g, f, S)
    BY <1>2, AddsAnyOrder
  <2> QED
    BY <1>1, <2>1 DEF AnyOrder
<1>5. g[Q] = h[Q]
  BY <1>1, <1>2, <1>3, AddsAgree DEF AddsInt
<1> QED
  BY <1>2, <1>3, <1>4, <1>5, Zenon

\* A sum changes by as much as one of its terms does.
LEMMA SumChange ==
  ASSUME NEW S, IsFiniteSet(S), NEW f, \A x \in S : f[x] \in Int, NEW e, NEW y \in S,
         e[y] \in Int, \A x \in S \ {y} : e[x] = f[x]
  PROVE  SumFunctionOnSet(e, S) = SumFunctionOnSet(f, S) + (e[y] - f[y])
<1> DEFINE Q == S \ {y}
<1>1. IsFiniteSet(Q) /\ \A x \in Q : f[x] \in Int
  BY FS_Subset
<1>2. \A x \in S : e[x] \in Int
  OBVIOUS
<1>3. PICK n \in Int : n = SumFunctionOnSet(f, Q)
  BY <1>1, SumType
<1>4. SumFunctionOnSet(e, Q) = n
  BY <1>1, <1>3, SumSame
<1>5. SumFunctionOnSet(f, S) = f[y] + n
  BY <1>3, SumRemove
<1>6. SumFunctionOnSet(e, S) = e[y] + n
  BY <1>2, <1>4, SumRemove
<1> QED
  BY <1>3, <1>5, <1>6

\* Sums are as ordered as their terms.
LEMMA SumOrder ==
  ASSUME NEW S, IsFiniteSet(S), NEW f, \A x \in S : f[x] \in Int,
         NEW e, \A x \in S : e[x] \in Int /\ e[x] <= f[x]
  PROVE  SumFunctionOnSet(e, S) <= SumFunctionOnSet(f, S)
<1> DEFINE Bad == {T \in SUBSET S : ~(SumFunctionOnSet(e, T) <= SumFunctionOnSet(f, T))}
<1> SUFFICES ASSUME Bad # {} PROVE FALSE
  BY Zenon
<1>1. PICK T \in Bad : \A U \in Bad : Cardinality(T) <= Cardinality(U)
  BY Smallest
<1>2. T \in SUBSET S /\ IsFiniteSet(T) /\ ~(SumFunctionOnSet(e, T) <= SumFunctionOnSet(f, T))
  BY <1>1, FS_Subset
<1>3. T # {}
  BY <1>2, SumEmpty
<1>4. PICK c : c \in T
  BY <1>3
<1>5. T \ {c} \in SUBSET S /\ Cardinality(T) \in Nat /\ Cardinality(T \ {c}) = Cardinality(T) - 1
  BY <1>2, <1>4, Smaller
<1>6. SumFunctionOnSet(e, T \ {c}) <= SumFunctionOnSet(f, T \ {c})
  BY <1>1, <1>5
<1>7. \A x \in T : e[x] \in Int /\ f[x] \in Int /\ e[x] <= f[x]
  BY <1>2
<1>8. /\ SumFunctionOnSet(f, T) = f[c] + SumFunctionOnSet(f, T \ {c})
      /\ SumFunctionOnSet(e, T) = e[c] + SumFunctionOnSet(e, T \ {c})
  BY <1>2, <1>4, <1>7, SumRemove
<1>9. SumFunctionOnSet(f, T \ {c}) \in Int /\ SumFunctionOnSet(e, T \ {c}) \in Int
  <2>1. IsFiniteSet(T \ {c})
    BY <1>2, FS_Subset
  <2> QED
    BY <1>7, <2>1, SumType
<1> QED
  BY <1>2, <1>4, <1>6, <1>7, <1>8, <1>9

\* A sum splits with its set.
LEMMA SumSplit ==
  ASSUME NEW S, IsFiniteSet(S), NEW f, \A x \in S : f[x] \in Int, NEW P \in SUBSET S
  PROVE  SumFunctionOnSet(f, S) = SumFunctionOnSet(f, P) + SumFunctionOnSet(f, S \ P)
<1> DEFINE Bad == {T \in SUBSET S :
                     SumFunctionOnSet(f, S) # SumFunctionOnSet(f, T) + SumFunctionOnSet(f, S \ T)}
<1> SUFFICES ASSUME Bad # {} PROVE FALSE
  BY Zenon
<1>1. PICK T \in Bad : \A U \in Bad : Cardinality(T) <= Cardinality(U)
  BY Smallest
<1>2. /\ T \in SUBSET S /\ IsFiniteSet(T)
      /\ SumFunctionOnSet(f, S) # SumFunctionOnSet(f, T) + SumFunctionOnSet(f, S \ T)
  BY <1>1, FS_Subset
<1>3. \A U \in SUBSET S : IsFiniteSet(U) /\ SumFunctionOnSet(f, U) \in Int
  <2> SUFFICES ASSUME NEW U \in SUBSET S PROVE IsFiniteSet(U) /\ SumFunctionOnSet(f, U) \in Int
    OBVIOUS
  <2>1. IsFiniteSet(U) /\ \A x \in U : f[x] \in Int
    BY FS_Subset
  <2> QED
    BY <2>1, SumType
<1>4. T # {}
  <2> SUFFICES ASSUME T = {} PROVE FALSE
    OBVIOUS
  <2>1. S \ T = S /\ S \in SUBSET S /\ SumFunctionOnSet(f, T) = 0
    BY SumEmpty
  <2>2. SumFunctionOnSet(f, S \ T) = SumFunctionOnSet(f, S)
    BY <2>1, Zenon
  <2>3. SumFunctionOnSet(f, S) \in Int
    BY <1>3, <2>1, Zenon
  <2> QED
    BY <1>2, <2>1, <2>2, <2>3
<1>5. PICK c : c \in T
  BY <1>4
<1>6. T \ {c} \in SUBSET S /\ Cardinality(T) \in Nat /\ Cardinality(T \ {c}) = Cardinality(T) - 1
  BY <1>2, <1>5, Smaller
<1>7. PICK R : R = S \ T
  OBVIOUS
<1>8. S \ (T \ {c}) = R \cup {c} /\ (R \cup {c}) \ {c} = R /\ R \cup {c} \in SUBSET S
  BY <1>2, <1>5, <1>7
<1>9. SumFunctionOnSet(f, S) = SumFunctionOnSet(f, T \ {c}) + SumFunctionOnSet(f, R \cup {c})
  BY <1>1, <1>6, <1>8
<1>10. SumFunctionOnSet(f, T) = f[c] + SumFunctionOnSet(f, T \ {c})
  BY <1>2, <1>5, SumRemove
<1>11. SumFunctionOnSet(f, R \cup {c}) = f[c] + SumFunctionOnSet(f, R)
  <2>1. c \in R \cup {c} /\ IsFiniteSet(R \cup {c}) /\ \A x \in R \cup {c} : f[x] \in Int
    BY <1>3, <1>8
  <2>2. SumFunctionOnSet(f, R \cup {c}) = f[c] + SumFunctionOnSet(f, (R \cup {c}) \ {c})
    BY <2>1, SumRemove
  <2> QED
    BY <1>8, <2>2, Zenon
<1>12. /\ f[c] \in Int /\ SumFunctionOnSet(f, T) \in Int /\ SumFunctionOnSet(f, T \ {c}) \in Int
       /\ SumFunctionOnSet(f, R) \in Int /\ SumFunctionOnSet(f, R \cup {c}) \in Int
  BY <1>2, <1>3, <1>5, <1>6, <1>7, <1>8
<1>13. SumFunctionOnSet(f, S) # SumFunctionOnSet(f, T) + SumFunctionOnSet(f, R)
  BY <1>2, <1>7, Zenon
<1> QED
  BY <1>9, <1>10, <1>11, <1>12, <1>13

\* A sum of zeros is zero, of naturals a natural.
LEMMA SumZero ==
  ASSUME NEW S, IsFiniteSet(S), NEW f, \A x \in S : f[x] = 0
  PROVE  SumFunctionOnSet(f, S) = 0
<1> DEFINE Bad == {T \in SUBSET S : SumFunctionOnSet(f, T) # 0}
<1> SUFFICES ASSUME Bad # {} PROVE FALSE
  OBVIOUS
<1>1. PICK T \in Bad : \A U \in Bad : Cardinality(T) <= Cardinality(U)
  BY Smallest
<1>2. T \in SUBSET S /\ IsFiniteSet(T) /\ SumFunctionOnSet(f, T) # 0
  BY <1>1, FS_Subset
<1>3. PICK c : c \in T
  BY <1>2, SumEmpty
<1>4. T \ {c} \in SUBSET S /\ Cardinality(T) \in Nat /\ Cardinality(T \ {c}) = Cardinality(T) - 1
  BY <1>2, <1>3, Smaller
<1>5. SumFunctionOnSet(f, T \ {c}) = 0
  BY <1>1, <1>4
<1>6. SumFunctionOnSet(f, T) = f[c] + SumFunctionOnSet(f, T \ {c})
  BY <1>2, <1>3, SumRemove
<1> QED
  BY <1>2, <1>3, <1>5, <1>6

LEMMA SumNat ==
  ASSUME NEW S, IsFiniteSet(S), NEW f, \A x \in S : f[x] \in Nat
  PROVE  SumFunctionOnSet(f, S) \in Nat
<1>1. PICK z : z = [x \in S |-> 0]
  OBVIOUS
<1>2. \A x \in S : z[x] = 0
  BY <1>1
<1>3. SumFunctionOnSet(z, S) = 0
  BY <1>2, SumZero
<1>4. \A x \in S : f[x] \in Int /\ z[x] \in Int /\ z[x] <= f[x]
  BY <1>2
<1>5. SumFunctionOnSet(z, S) <= SumFunctionOnSet(f, S) /\ SumFunctionOnSet(f, S) \in Int
  BY <1>4, SumOrder, SumType
<1> QED
  BY <1>3, <1>5

\* A term that goes takes along no less than what becomes of it.
LEMMA SumClear ==
  ASSUME NEW S, IsFiniteSet(S), NEW f, \A x \in S : f[x] \in Int, NEW P \in SUBSET S,
         NEW e, \A x \in S : e[x] = IF x \in P THEN 0 ELSE f[x],
         NEW d, \A x \in P : d[x] \in Int /\ d[x] <= f[x]
  PROVE  SumFunctionOnSet(d, P) + SumFunctionOnSet(e, S) <= SumFunctionOnSet(f, S)
<1>1. IsFiniteSet(P) /\ IsFiniteSet(S \ P) /\ \A x \in S : e[x] \in Int
  BY FS_Subset
<1>2. SumFunctionOnSet(d, P) <= SumFunctionOnSet(f, P)
  BY <1>1, SumOrder
<1>3. SumFunctionOnSet(e, S \ P) = SumFunctionOnSet(f, S \ P)
  BY <1>1, SumSame
<1>4. SumFunctionOnSet(e, P) = 0
  BY <1>1, SumZero
<1>5. /\ SumFunctionOnSet(e, S) = SumFunctionOnSet(e, P) + SumFunctionOnSet(e, S \ P)
      /\ SumFunctionOnSet(f, S) = SumFunctionOnSet(f, P) + SumFunctionOnSet(f, S \ P)
  BY <1>1, SumSplit
<1>6. /\ SumFunctionOnSet(d, P) \in Int /\ SumFunctionOnSet(f, P) \in Int
      /\ SumFunctionOnSet(e, S \ P) \in Int /\ SumFunctionOnSet(f, S \ P) \in Int
  BY <1>1, SumType
<1> QED
  BY <1>2, <1>3, <1>4, <1>5, <1>6
-----------------------------------------------------------------------------
(* Weights *)

\* So many bytes for each element.
Weigh(c, S) == c * Cardinality(S)

\* The weight of a set is a natural ..
LEMMA WeighNat ==
  ASSUME NEW c \in Nat, NEW S, IsFiniteSet(S)
  PROVE  Weigh(c, S) \in Nat
<1>1. Cardinality(S) \in Nat
  BY FS_CardinalityType
<1> QED
  BY <1>1 DEF Weigh

\* .. of the empty set zero ..
LEMMA WeighNothing ==
  ASSUME NEW c \in Nat
  PROVE  Weigh(c, {}) = 0
BY FS_EmptySet DEF Weigh

\* .. no more than that of a larger set ..
LEMMA WeighOrder ==
  ASSUME NEW c \in Nat, NEW S, IsFiniteSet(S), NEW T \in SUBSET S
  PROVE  Weigh(c, T) <= Weigh(c, S)
<1>1. PICK m \in Nat, n \in Nat : m = Cardinality(T) /\ n = Cardinality(S) /\ m <= n
  BY FS_Subset, FS_CardinalityType
<1>2. c * m <= c * n
  <2>1. PICK d \in Int : d = n - m
    OBVIOUS
  <2>2. d \in Nat /\ n = m + d
    BY <1>1, <2>1
  <2>3. c * (m + d) = c * m + c * d
    BY <2>2
  <2>4. c * n = c * m + c * d
    BY <2>2, <2>3, Zenon
  <2>5. c * m \in Nat /\ c * d \in Nat
    BY <2>2
  <2> QED
    BY <2>4, <2>5
<1> QED
  BY <1>1, <1>2 DEF Weigh

\* .. and goes down and up with one element by one weight.
LEMMA WeighLess ==
  ASSUME NEW c \in Nat, NEW S, IsFiniteSet(S), NEW x \in S
  PROVE  Weigh(c, S \ {x}) = Weigh(c, S) - c
<1>1. PICK m \in Nat, n \in Nat : m = Cardinality(S \ {x}) /\ n = Cardinality(S) /\ n = m + 1
  BY FS_RemoveElement, FS_CardinalityType, FS_Subset
<1>2. c * n = c * m + c /\ c * m \in Nat
  BY <1>1
<1>3. Weigh(c, S) = c * m + c /\ Weigh(c, S \ {x}) = c * m
  BY <1>1, <1>2 DEF Weigh
<1> QED
  BY <1>2, <1>3

LEMMA WeighMore ==
  ASSUME NEW c \in Nat, NEW S, IsFiniteSet(S), NEW x
  PROVE  /\ x \notin S => Weigh(c, S \cup {x}) = Weigh(c, S) + c
         /\ Weigh(c, S \cup {x}) <= Weigh(c, S) + c
<1>1. IsFiniteSet(S \cup {x}) /\ x \in S \cup {x}
  BY FS_AddElement
<1>2. Weigh(c, (S \cup {x}) \ {x}) = Weigh(c, S \cup {x}) - c
  BY <1>1, WeighLess
<1>3. Weigh(c, S \cup {x}) \in Nat /\ Weigh(c, S) \in Nat
  BY <1>1, WeighNat
<1>4. CASE x \in S
  <2>1. S \cup {x} = S
    BY <1>4
  <2> QED
    BY <1>3, <1>4, <2>1
<1>5. CASE x \notin S
  <2>1. (S \cup {x}) \ {x} = S
    BY <1>5
  <2> QED
    BY <1>2, <1>3, <1>5, <2>1
<1> QED
  BY <1>4, <1>5
-----------------------------------------------------------------------------
(* The quota *)

\* What a session may still turn into files.
Claim(s, n, R) ==
  IF s \in Writing
  THEN n - Weigh(BlobBytes, R) - (IF s \in {"index", "settle"} THEN CommitBytes ELSE 0)
  ELSE 0

Claims == [p \in Proc |-> Claim(pc[p], reserved[p], renamed[p])]

\* What it has to do yet: chunks staged, renamed and to come, and commits.
Due(P, R, W, G) ==
  Weigh(BlobBytes, P) + Weigh(BlobBytes, R) + Weigh(BlobBytes, W) + Weigh(CommitBytes, G) + Allowance

Promised(p) == Due(pending[p], renamed[p], Wanted(p), goal[p])

QuotaType ==
  /\ objects \subseteq Hash /\ tx.objects \subseteq Hash
  /\ leaked \in Nat /\ abandoned \in Nat
  /\ reserved \in [Proc -> Nat] /\ renamed \in [Proc -> SUBSET Hash]
  /\ goal \in [Proc -> SUBSET Key]

\* A reservation covers what its session promised, so that it is never topped up.
Ledger(p) ==
  /\ pc[p] \in Writing => Promised(p) <= reserved[p]
  /\ pc[p] \notin Writing \cup {"closing"} => reserved[p] = 0
  /\ pc[p] # "flushing" => renamed[p] = {}
  /\ pending[p] \cap renamed[p] = {}
  /\ pc[p] \in Publish => target[p] \in goal[p]

\* The files, and those the sessions may still write.
Taken == Bytes(commits, Present) + leaked + SumFunctionOnSet(Claims, Proc)

\* An index without a dead intent lists each chunk file, or a session is about to.
Listed ==
  ~stale /\ (\A p \in Proc : pc[p] # "scan") =>
    /\ Present \subseteq objects \cup UNION {renamed[p] : p \in Proc}
    /\ leaked <= abandoned

CollectorListed == \A p \in Proc : pc[p] \in Collecting => Present \subseteq tx.objects

QuotaInv ==
  /\ QuotaType /\ \A p \in Proc : Ledger(p)
  /\ Taken <= Limit /\ Listed /\ CollectorListed
-----------------------------------------------------------------------------
\* All sets and weights are finite.
LEMMA FiniteParts ==
  /\ IsFiniteSet(Proc) /\ BlobBytes \in Nat /\ CommitBytes \in Nat /\ Allowance \in Nat /\ Limit \in Nat
  /\ \A S \in SUBSET Hash : IsFiniteSet(S) /\ Weigh(BlobBytes, S) \in Nat
  /\ \A S \in SUBSET Key : IsFiniteSet(S) /\ Weigh(CommitBytes, S) \in Nat
<1>1. /\ IsFiniteSet(Proc) /\ BlobBytes \in Nat /\ CommitBytes \in Nat /\ Allowance \in Nat
      /\ Limit \in Nat /\ IsFiniteSet(Hash) /\ IsFiniteSet(Key)
  BY StoreAssumption
<1>2. /\ \A S \in SUBSET Hash : IsFiniteSet(S)
      /\ \A S \in SUBSET Key : IsFiniteSet(S)
  BY <1>1, FS_Subset
<1> QED
  BY <1>1, <1>2, WeighNat

\* What a reservation was made for fits in it.
LEMMA LedgerNumbers ==
  ASSUME StoreInv, QuotaType, NEW p \in Proc, Ledger(p)
  PROVE  /\ Claims[p] \in Int /\ Staged[p] \in Nat /\ reserved[p] \in Nat
         /\ Staged[p] = Weigh(BlobBytes, pending[p])
         /\ Staged[p] <= Claims[p] /\ Claims[p] <= reserved[p]
<1>1. /\ pending[p] \in SUBSET Hash /\ renamed[p] \in SUBSET Hash /\ goal[p] \in SUBSET Key
      /\ Wanted(p) \in SUBSET Hash /\ reserved[p] \in Nat
  BY StoreAssumption DEF QuotaType, StoreInv, StoreType, Wanted
<1>2. PICK a \in Nat, b \in Nat, c \in Nat, d \in Nat :
        /\ a = Weigh(BlobBytes, pending[p]) /\ b = Weigh(BlobBytes, renamed[p])
        /\ c = Weigh(BlobBytes, Wanted(p)) /\ d = Weigh(CommitBytes, goal[p])
  BY <1>1, FiniteParts
<1>3. Staged[p] = a
  BY <1>2 DEF Staged, Weigh
<1>4. Claims[p] = Claim(pc[p], reserved[p], renamed[p])
  BY DEF Claims
<1>5. CASE pc[p] \notin Writing
  <2>1. pending[p] = {}
    BY <1>5 DEF StoreInv, Session
  <2>2. a = 0
    BY <1>2, <2>1, WeighNothing, FiniteParts
  <2> QED
    BY <1>1, <1>2, <1>3, <1>4, <1>5, <2>2 DEF Claim
<1>6. CASE pc[p] \in Writing
  <2>1. a + b + c + d + Allowance <= reserved[p]
    BY <1>2, <1>6 DEF Ledger, Promised, Due
  <2>2. pc[p] \in {"index", "settle"} => CommitBytes <= d
    <3> SUFFICES ASSUME pc[p] \in {"index", "settle"} PROVE CommitBytes <= d
      OBVIOUS
    <3>1. target[p] \in goal[p]
      BY DEF Ledger, Publish
    <3>2. IsFiniteSet(goal[p])
      BY <1>1, FiniteParts
    <3>3. Weigh(CommitBytes, goal[p] \ {target[p]}) = d - CommitBytes
      BY <1>2, <3>1, <3>2, WeighLess, FiniteParts
    <3>4. Weigh(CommitBytes, goal[p] \ {target[p]}) \in Nat
      BY <1>1, FiniteParts
    <3> QED
      BY <3>3, <3>4, FiniteParts
  <2>3. Claims[p] = reserved[p] - b - (IF pc[p] \in {"index", "settle"} THEN CommitBytes ELSE 0)
    BY <1>2, <1>4, <1>6 DEF Claim
  <2> QED
    BY <1>1, <1>2, <1>3, <2>1, <2>2, <2>3, FiniteParts
<1> QED
  BY <1>5, <1>6

\* .. hence the sums are as ordered as their terms.
LEMMA QuotaNumbers ==
  ASSUME StoreInv, QuotaInv
  PROVE  /\ \A p \in Proc : Claims[p] \in Int
         /\ SumFunctionOnSet(Claims, Proc) \in Int
         /\ SumFunctionOnSet(Staged, Proc) \in Int
         /\ SumFunctionOnSet(reserved, Proc) \in Int
         /\ SumFunctionOnSet(Staged, Proc) <= SumFunctionOnSet(Claims, Proc)
         /\ SumFunctionOnSet(Claims, Proc) <= SumFunctionOnSet(reserved, Proc)
<1>1. \A p \in Proc : /\ Claims[p] \in Int /\ Staged[p] \in Int /\ reserved[p] \in Int
                      /\ Staged[p] <= Claims[p] /\ Claims[p] <= reserved[p]
  <2> SUFFICES ASSUME NEW p \in Proc
               PROVE  /\ Claims[p] \in Int /\ Staged[p] \in Int /\ reserved[p] \in Int
                      /\ Staged[p] <= Claims[p] /\ Claims[p] <= reserved[p]
    OBVIOUS
  <2> QED
    BY LedgerNumbers DEF QuotaInv
<1>2. PICK f, g, h : f = Claims /\ g = Staged /\ h = reserved
  OBVIOUS
<1>3. \A p \in Proc : f[p] \in Int /\ g[p] \in Int /\ h[p] \in Int /\ g[p] <= f[p] /\ f[p] <= h[p]
  BY <1>1, <1>2, Zenon
<1>4. /\ SumFunctionOnSet(f, Proc) \in Int /\ SumFunctionOnSet(g, Proc) \in Int
      /\ SumFunctionOnSet(h, Proc) \in Int
      /\ SumFunctionOnSet(g, Proc) <= SumFunctionOnSet(f, Proc)
      /\ SumFunctionOnSet(f, Proc) <= SumFunctionOnSet(h, Proc)
  BY <1>3, SumType, SumOrder, FiniteParts
<1> QED
  BY <1>1, <1>2, <1>4, Zenon

\* Bytes is a weight ..
LEMMA BytesNat ==
  ASSUME NEW r \in [Key -> Nat], NEW o \in SUBSET Hash
  PROVE  /\ In(r) \in SUBSET Key
         /\ Bytes(r, o) = Weigh(BlobBytes, o) + Weigh(CommitBytes, In(r))
         /\ Bytes(r, o) \in Nat
<1>1. In(r) \in SUBSET Key /\ Bytes(r, o) = Weigh(BlobBytes, o) + Weigh(CommitBytes, In(r))
  BY DEF In, Bytes, Weigh
<1>2. Weigh(BlobBytes, o) \in Nat /\ Weigh(CommitBytes, In(r)) \in Nat
  BY <1>1, FiniteParts
<1> QED
  BY <1>1, <1>2

\* .. that does not grow when files go.
LEMMA BytesOrder ==
  ASSUME NEW r \in [Key -> Nat], NEW o \in SUBSET Hash, NEW s \in [Key -> Nat],
         NEW n \in SUBSET o, In(s) \subseteq In(r)
  PROVE  Bytes(s, n) <= Bytes(r, o)
<1>1. n \in SUBSET Hash /\ In(r) \in SUBSET Key /\ In(s) \in SUBSET In(r)
  BY BytesNat
<1>2. Weigh(BlobBytes, n) <= Weigh(BlobBytes, o) /\ Weigh(CommitBytes, In(s)) <= Weigh(CommitBytes, In(r))
  BY <1>1, WeighOrder, FiniteParts
<1>3. /\ Weigh(BlobBytes, n) \in Nat /\ Weigh(BlobBytes, o) \in Nat
      /\ Weigh(CommitBytes, In(s)) \in Nat /\ Weigh(CommitBytes, In(r)) \in Nat
  BY <1>1, FiniteParts
<1>4. /\ Bytes(s, n) = Weigh(BlobBytes, n) + Weigh(CommitBytes, In(s))
      /\ Bytes(r, o) = Weigh(BlobBytes, o) + Weigh(CommitBytes, In(r))
  BY <1>1, BytesNat
<1> QED
  BY <1>2, <1>3, <1>4

\* The files before and after a step.
LEMMA PresentType ==
  ASSUME StoreInv, StoreType'
  PROVE  /\ commits \in [Key -> Nat] /\ commits' \in [Key -> Nat]
         /\ Present \in SUBSET Hash /\ Present' \in SUBSET Hash
         /\ Bytes(commits, Present) \in Nat /\ Bytes(commits', Present') \in Nat
<1>1. /\ commits \in [Key -> Nat] /\ commits' \in [Key -> Nat]
      /\ Present \in SUBSET Hash /\ Present' \in SUBSET Hash
  BY DEF StoreInv, StoreType, Present
<1> QED
  BY <1>1, BytesNat

\* A step of p that pays for its files out of its claim.
LEMMA TakenStep ==
  ASSUME StoreInv, StoreType', QuotaInv, QuotaType', NEW p \in Proc,
         \A q \in Proc \ {p} : pc'[q] = pc[q] /\ reserved'[q] = reserved[q] /\ renamed'[q] = renamed[q],
         Claims'[p] \in Int, leaked' <= leaked,
         Bytes(commits', Present') + Claims'[p] <= Bytes(commits, Present) + Claims[p]
  PROVE  Taken' <= Limit
<1>1. \A q \in Proc \ {p} : Claims'[q] = Claims[q]
  BY Zenon DEF Claims
<1>2. PICK f, g : f = Claims /\ g = Claims'
  OBVIOUS
<1>3. (\A q \in Proc : f[q] \in Int) /\ SumFunctionOnSet(f, Proc) \in Int
  BY <1>2, QuotaNumbers
<1>4. g[p] \in Int /\ \A q \in Proc \ {p} : g[q] = f[q]
  BY <1>1, <1>2, Zenon
<1>5. SumFunctionOnSet(g, Proc) = SumFunctionOnSet(f, Proc) + (g[p] - f[p])
  BY <1>3, <1>4, SumChange, FiniteParts
<1>6. PICK x, y, b, c : /\ x = SumFunctionOnSet(f, Proc) /\ y = SumFunctionOnSet(g, Proc)
                        /\ b = Bytes(commits, Present) /\ c = Bytes(commits', Present')
  OBVIOUS
<1>7. b \in Nat /\ c \in Nat /\ x \in Int /\ f[p] \in Int
  BY <1>3, <1>6, PresentType
<1>8. c + g[p] <= b + f[p]
  BY <1>2, <1>6, Zenon
<1>9. leaked \in Nat /\ leaked' \in Nat /\ Limit \in Nat
  BY FiniteParts DEF QuotaInv, QuotaType
<1>10. b + leaked + x <= Limit
  BY <1>2, <1>6, Zenon DEF QuotaInv, Taken
<1>11. y = x + (g[p] - f[p])
  BY <1>5, <1>6, Zenon
<1>12. c + leaked' + y <= Limit
  BY <1>4, <1>7, <1>8, <1>9, <1>10, <1>11
<1> QED
  BY <1>2, <1>6, <1>12, Zenon DEF Taken
-----------------------------------------------------------------------------
\* What a session has to do yet, before and after its steps.
LEMMA DueSteps ==
  ASSUME NEW P \in SUBSET Hash, NEW R \in SUBSET Hash, NEW W \in SUBSET Hash, NEW G \in SUBSET Key
  PROVE  /\ Due(P, R, W, G) \in Nat
         /\ \A V \in SUBSET W, F \in SUBSET G : Due(P, R, V, F) <= Due(P, R, W, G)
         /\ \A h \in W : Due(P \cup {h}, R, W \ {h}, G) <= Due(P, R, W, G)
         /\ Due(P, {}, W, G) = Due(P, R, W, G) - Weigh(BlobBytes, R)
         /\ \A k \in G : \A V \in SUBSET W : Due(P, R, V, G \ {k}) <= Due(P, R, W, G) - CommitBytes
         /\ W # {} => BlobBytes + Allowance <= Due(P, R, W, G)
         /\ G # {} => CommitBytes + Allowance <= Due(P, R, W, G)
<1>1. PICK a \in Nat, b \in Nat, c \in Nat, d \in Nat :
        /\ a = Weigh(BlobBytes, P) /\ b = Weigh(BlobBytes, R)
        /\ c = Weigh(BlobBytes, W) /\ d = Weigh(CommitBytes, G)
  BY FiniteParts
<1>2. PICK B \in Nat, C \in Nat, M \in Nat : B = BlobBytes /\ C = CommitBytes /\ M = Allowance
  BY FiniteParts
<1>3. IsFiniteSet(P) /\ IsFiniteSet(R) /\ IsFiniteSet(W) /\ IsFiniteSet(G)
  BY FiniteParts
<1>4. Due(P, R, W, G) = a + b + c + d + M
  BY <1>1, <1>2, Zenon DEF Due
<1>5. ASSUME NEW V \in SUBSET W, NEW F \in SUBSET G
      PROVE  /\ Weigh(BlobBytes, V) \in Nat /\ Weigh(CommitBytes, F) \in Nat
             /\ Weigh(BlobBytes, V) <= c /\ Weigh(CommitBytes, F) <= d
  <2>1. V \in SUBSET Hash /\ F \in SUBSET Key
    OBVIOUS
  <2> QED
    BY <1>1, <1>3, <2>1, WeighOrder, FiniteParts
<1>6. ASSUME NEW V \in SUBSET W, NEW F \in SUBSET G
      PROVE  Due(P, R, V, F) <= Due(P, R, W, G)
  <2>1. PICK v, f : v = Weigh(BlobBytes, V) /\ f = Weigh(CommitBytes, F)
    OBVIOUS
  <2>2. Due(P, R, V, F) = a + b + v + f + M
    BY <1>1, <1>2, <2>1, Zenon DEF Due
  <2>3. v \in Nat /\ f \in Nat /\ v <= c /\ f <= d
    BY <1>5, <2>1
  <2> QED
    BY <1>4, <2>2, <2>3
<1>7. ASSUME NEW h \in W PROVE Due(P \cup {h}, R, W \ {h}, G) <= Due(P, R, W, G)
  <2>1. PICK p, v : p = Weigh(BlobBytes, P \cup {h}) /\ v = Weigh(BlobBytes, W \ {h})
    OBVIOUS
  <2>2. P \cup {h} \in SUBSET Hash /\ W \ {h} \in SUBSET Hash
    OBVIOUS
  <2>3. p \in Nat /\ v \in Nat
    BY <2>1, <2>2, FiniteParts
  <2>4. p <= a + B
    BY <1>1, <1>2, <1>3, <2>1, WeighMore
  <2>5. v = c - B
    BY <1>1, <1>2, <1>3, <2>1, WeighLess
  <2>6. Due(P \cup {h}, R, W \ {h}, G) = p + b + v + d + M
    BY <1>1, <1>2, <2>1, Zenon DEF Due
  <2> QED
    BY <1>4, <2>3, <2>4, <2>5, <2>6
<1>9. Due(P, {}, W, G) = Due(P, R, W, G) - Weigh(BlobBytes, R)
  <2>1. Weigh(BlobBytes, {}) = 0
    BY <1>2, WeighNothing
  <2>2. Due(P, {}, W, G) = a + 0 + c + d + M
    BY <1>1, <1>2, <2>1, Zenon DEF Due
  <2>3. Due(P, {}, W, G) = Due(P, R, W, G) - b
    BY <1>4, <2>2
  <2> QED
    BY <1>1, <2>3, Zenon
<1>10. ASSUME NEW k \in G, NEW V \in SUBSET W
       PROVE  Due(P, R, V, G \ {k}) <= Due(P, R, W, G) - CommitBytes
  <2>1. PICK v, f : v = Weigh(BlobBytes, V) /\ f = Weigh(CommitBytes, G \ {k})
    OBVIOUS
  <2>2. f = d - C
    BY <1>1, <1>2, <1>3, <2>1, WeighLess
  <2>3. v \in Nat /\ v <= c
    BY <1>5, <2>1
  <2>4. Due(P, R, V, G \ {k}) = a + b + v + f + M
    BY <1>1, <1>2, <2>1, Zenon DEF Due
  <2>5. Due(P, R, V, G \ {k}) <= Due(P, R, W, G) - C
    BY <1>4, <2>2, <2>3, <2>4
  <2> QED
    BY <1>2, <2>5, Zenon
<1>11. ASSUME W # {} PROVE BlobBytes + Allowance <= Due(P, R, W, G)
  <2>1. PICK h : h \in W
    BY <1>11
  <2>2. c - B \in Nat
    <3>1. W \ {h} \in SUBSET Hash
      OBVIOUS
    <3> QED
      BY <1>1, <1>2, <1>3, <2>1, <3>1, WeighLess, FiniteParts
  <2>3. B + M <= Due(P, R, W, G)
    BY <1>4, <2>2
  <2> QED
    BY <1>2, <2>3, Zenon
<1>12. ASSUME G # {} PROVE CommitBytes + Allowance <= Due(P, R, W, G)
  <2>1. PICK k : k \in G
    BY <1>12
  <2>2. d - C \in Nat
    <3>1. G \ {k} \in SUBSET Key
      OBVIOUS
    <3> QED
      BY <1>1, <1>2, <1>3, <2>1, <3>1, WeighLess, FiniteParts
  <2>3. C + M <= Due(P, R, W, G)
    BY <1>4, <2>2
  <2> QED
    BY <1>2, <2>3, Zenon
<1>13. Due(P, R, W, G) \in Nat
  BY <1>4
<1> QED
  BY <1>6, <1>7, <1>9, <1>10, <1>11, <1>12, <1>13, Zenon

\* A chunk that is renamed was staged.
LEMMA DueRename ==
  ASSUME NEW P \in SUBSET Hash, NEW R \in SUBSET Hash, NEW W \in SUBSET Hash, NEW G \in SUBSET Key,
         NEW h \in P, h \notin R
  PROVE  Due(P \ {h}, R \cup {h}, W, G) = Due(P, R, W, G)
<1>1. PICK a \in Nat, b \in Nat, c \in Nat, d \in Nat :
        /\ a = Weigh(BlobBytes, P) /\ b = Weigh(BlobBytes, R)
        /\ c = Weigh(BlobBytes, W) /\ d = Weigh(CommitBytes, G)
  BY FiniteParts
<1>2. PICK B \in Nat, M \in Nat : B = BlobBytes /\ M = Allowance
  BY FiniteParts
<1>3. PICK p, v : p = Weigh(BlobBytes, P \ {h}) /\ v = Weigh(BlobBytes, R \cup {h})
  OBVIOUS
<1>4. IsFiniteSet(P) /\ IsFiniteSet(R)
  BY FiniteParts
<1>5. p = a - B
  BY <1>1, <1>2, <1>3, <1>4, WeighLess
<1>6. v = b + B
  BY <1>1, <1>2, <1>3, <1>4, WeighMore
<1>7. Due(P, R, W, G) = a + b + c + d + M
  BY <1>1, <1>2, Zenon DEF Due
<1>8. Due(P \ {h}, R \cup {h}, W, G) = p + v + c + d + M
  BY <1>1, <1>2, <1>3, Zenon DEF Due
<1> QED
  BY <1>5, <1>6, <1>7, <1>8
-----------------------------------------------------------------------------
(* The quota: steps *)

\* The step of p leaves the sessions of the others alone.
Others(p) ==
  \A q \in Proc \ {p} :
    /\ pc'[q] = pc[q] /\ reserved'[q] = reserved[q] /\ pending'[q] = pending[q]
    /\ renamed'[q] = renamed[q] /\ verified'[q] = verified[q]
    /\ goal'[q] = goal[q] /\ target'[q] = target[q]

\* The step of p leaves the ledgers of the others alone.
LEMMA OtherLedgers ==
  ASSUME QuotaInv, NEW p \in Proc, Others(p), Ledger(p)'
  PROVE  \A q \in Proc : Ledger(q)'
<1> SUFFICES ASSUME NEW q \in Proc \ {p} PROVE Ledger(q)'
  OBVIOUS
<1>1. /\ pc'[q] = pc[q] /\ reserved'[q] = reserved[q] /\ pending'[q] = pending[q]
      /\ renamed'[q] = renamed[q] /\ verified'[q] = verified[q]
      /\ goal'[q] = goal[q] /\ target'[q] = target[q]
  BY DEF Others
<1>2. Wanted(q)' = Wanted(q)
  BY <1>1, Zenon DEF Wanted
<1>3. Promised(q)' = Promised(q)
  BY <1>1, <1>2, Zenon DEF Promised
<1>4. Ledger(q)
  BY DEF QuotaInv
<1> QED
  BY <1>1, <1>3, <1>4, Zenon DEF Ledger

\* The claim of p after a step.
LEMMA ClaimTyped ==
  ASSUME QuotaType', NEW p \in Proc
  PROVE  Claims'[p] = Claim(pc'[p], reserved'[p], renamed'[p]) /\ Claims'[p] \in Int
<1>1. Claims'[p] = Claim(pc'[p], reserved'[p], renamed'[p])
  BY DEF Claims
<1>2. reserved'[p] \in Nat /\ renamed'[p] \in SUBSET Hash
  BY DEF QuotaType
<1>3. Weigh(BlobBytes, renamed'[p]) \in Nat
  BY <1>2, FiniteParts
<1> QED
  BY <1>1, <1>2, <1>3, FiniteParts DEF Claim

\* A step of a session.
LEMMA SessionQuota ==
  ASSUME StoreInv, StoreType', QuotaInv, QuotaType', NEW p \in Proc, Others(p),
         pc[p] \in Sharing, pc'[p] \notin Alone, UNCHANGED <<leaked, abandoned>>,
         stale => stale', Ledger(p)',
         Bytes(commits', Present') + Claims'[p] <= Bytes(commits, Present) + Claims[p],
         Present' \subseteq Present \cup renamed'[p],
         ~stale' => objects \cup renamed[p] \subseteq objects' \cup renamed'[p]
  PROVE  QuotaInv'
<1>1. leaked' <= leaked
  BY DEF QuotaInv, QuotaType
<1>2. Taken' <= Limit
  BY <1>1, ClaimTyped, TakenStep DEF Others
<1>3. \A q \in Proc : pc'[q] \notin Alone
  <2>1. \A q \in Proc : pc[q] \notin Alone
    BY SharingFacts DEF StoreInv
  <2> QED
    BY <2>1 DEF Others
<1>4. CollectorListed'
  BY <1>3 DEF CollectorListed, Alone
<1>5. Listed'
  <2> SUFFICES ASSUME ~stale'
               PROVE  /\ Present' \subseteq objects' \cup UNION {renamed'[q] : q \in Proc}
                      /\ leaked' <= abandoned'
    BY DEF Listed
  <2>1. ~stale /\ \A q \in Proc : pc[q] # "scan"
    BY SharingFacts DEF StoreInv, Alone
  <2>2. Present \subseteq objects \cup UNION {renamed[q] : q \in Proc} /\ leaked <= abandoned
    BY <2>1 DEF QuotaInv, Listed
  <2>3. ASSUME NEW h \in Present' PROVE h \in objects' \/ \E q \in Proc : h \in renamed'[q]
    <3>1. CASE h \in objects \cup renamed[p] \cup renamed'[p]
      BY <3>1
    <3>2. CASE h \notin objects \cup renamed[p] \cup renamed'[p]
      <4>1. h \in Present
        BY <2>3, <3>2
      <4>2. PICK q \in Proc : h \in renamed[q]
        BY <2>2, <3>2, <4>1
      <4>3. q # p
        BY <3>2, <4>2
      <4>4. renamed'[q] = renamed[q]
        BY <4>3 DEF Others
      <4> QED
        BY <4>2, <4>4
    <3> QED
      BY <3>1, <3>2
  <2> QED
    BY <2>2, <2>3
<1> QED
  BY <1>2, <1>4, <1>5, OtherLedgers DEF QuotaInv

\* The types of what a session keeps.
LEMMA SessionParts ==
  ASSUME StoreInv, QuotaType, NEW p \in Proc
  PROVE  /\ pending[p] \in SUBSET Hash /\ renamed[p] \in SUBSET Hash /\ goal[p] \in SUBSET Key
         /\ Wanted(p) \in SUBSET Hash /\ reserved[p] \in Nat /\ verified[p] \in SUBSET Hash
BY StoreAssumption DEF QuotaType, StoreInv, StoreType, Wanted

\* Estimate is what a session has to do when it begins.
LEMMA EstimateDue ==
  ASSUME NEW g \in SUBSET Key
  PROVE  /\ UNION {Content[k] : k \in g} \in SUBSET Hash
         /\ Estimate(g) = Due({}, {}, UNION {Content[k] : k \in g}, g)
         /\ Estimate(g) \in Nat
<1>1. PICK S : S = UNION {Content[k] : k \in g}
  OBVIOUS
<1>2. S \in SUBSET Hash
  BY <1>1, StoreAssumption
<1>3. PICK c \in Nat, d \in Nat : c = Weigh(BlobBytes, S) /\ d = Weigh(CommitBytes, g)
  BY <1>2, FiniteParts
<1>4. Weigh(BlobBytes, {}) = 0
  BY WeighNothing, FiniteParts
<1>5. Due({}, {}, S, g) = 0 + 0 + c + d + Allowance
  BY <1>3, <1>4, Zenon DEF Due
<1>6. Estimate(g) = c + d + Allowance
  BY <1>1, <1>3, Zenon DEF Estimate, Weigh
<1>7. Estimate(g) = Due({}, {}, S, g) /\ Estimate(g) \in Nat
  BY <1>3, <1>5, <1>6, FiniteParts
<1> QED
  BY <1>1, <1>2, <1>7, Zenon

\* A step of a session that moves no bytes.
LEMMA PlainQuota ==
  ASSUME StoreInv, StoreType', QuotaInv, QuotaType', NEW p \in Proc,
         \A q \in Proc \ {p} : /\ pc'[q] = pc[q] /\ verified'[q] = verified[q]
                               /\ goal'[q] = goal[q] /\ target'[q] = target[q],
         UNCHANGED <<blobs, commits, leaked, reserved, abandoned, stale, pending, renamed>>,
         pc[p] \in Writing, pc'[p] \in Writing, renamed[p] = {},
         pc'[p] \in {"index", "settle"} <=> pc[p] \in {"index", "settle"},
         objects \subseteq objects', goal'[p] \subseteq goal[p], verified[p] \subseteq verified'[p],
         pc'[p] \in Publish => target'[p] \in goal'[p]
  PROVE  QuotaInv'
<1>1. Others(p)
  BY DEF Others
<1>2. Wanted(p)' \subseteq Wanted(p)
  BY DEF Wanted
<1>3. QuotaType
  BY DEF QuotaInv
<1>4. PICK P, R, W, V, G, F :
        /\ P = pending[p] /\ R = renamed[p] /\ W = Wanted(p) /\ V = Wanted(p)'
        /\ G = goal[p] /\ F = goal'[p]
  OBVIOUS
<1>5. /\ P \in SUBSET Hash /\ R \in SUBSET Hash /\ W \in SUBSET Hash /\ G \in SUBSET Key
      /\ V \in SUBSET W /\ F \in SUBSET G
  BY <1>2, <1>3, <1>4, SessionParts
<1>6. Due(P, R, V, F) <= Due(P, R, W, G) /\ Due(P, R, V, F) \in Nat /\ Due(P, R, W, G) \in Nat
  <2>1. V \in SUBSET Hash /\ F \in SUBSET Key
    BY <1>5
  <2> QED
    BY <1>5, <2>1, DueSteps
<1>7. Promised(p) = Due(P, R, W, G) /\ Promised(p)' = Due(P, R, V, F)
  BY <1>4, Zenon DEF Promised
<1>8. Promised(p) <= reserved[p] /\ reserved[p] \in Nat
  BY <1>3, SessionParts DEF QuotaInv, Ledger
<1>9. Promised(p)' <= reserved'[p]
  BY <1>6, <1>7, <1>8
<1>10. Ledger(p)'
  BY <1>9 DEF Ledger, Writing
<1>11. Claims'[p] = Claims[p] /\ Present' = Present
  BY DEF Claims, Claim, Present
<1>12. Bytes(commits', Present') + Claims'[p] <= Bytes(commits, Present) + Claims[p]
  <2>1. Bytes(commits', Present') = Bytes(commits, Present)
    BY <1>11, Zenon
  <2>2. Bytes(commits, Present) \in Nat /\ Claims[p] \in Int
    BY PresentType, QuotaNumbers
  <2> QED
    BY <1>11, <2>1, <2>2
<1>13. pc[p] \in Sharing /\ pc'[p] \notin Alone
  BY DEF Sharing, Writing, Publish, Alone, Collecting
<1> QED
  BY <1>1, <1>10, <1>11, <1>12, <1>13, SessionQuota

\* Dedup, FlushBegin, CommitFound, CommitStamp and IndexRecord move none.
LEMMA WritingSteps ==
  ASSUME StoreInv, StoreType', QuotaInv, QuotaType', NEW p \in Proc,
         \/ \E h \in Hash : Dedup(p, h)
         \/ FlushBegin(p) \/ IndexRecord(p)
         \/ \E k \in Key : CommitFound(p, k) \/ CommitStamp(p, k)
  PROVE  QuotaInv'
<1>1. StoreType /\ QuotaType /\ Ledger(p)
  BY DEF StoreInv, QuotaInv
<1>2. \A s \in {"open", "stamped", "flushing", "index", "settle"} : s \in Writing
  BY DEF Writing, Publish
<1>3. /\ "open" \notin Publish /\ "flushing" \notin Publish /\ "index" \in Publish
  BY DEF Publish
<1>4. CASE \E h \in Hash : Dedup(p, h)
  BY <1>1, <1>2, <1>3, <1>4, PlainQuota
  DEF Dedup, disk, index, batch, Ledger, StoreType
<1>5. CASE FlushBegin(p)
  BY <1>1, <1>2, <1>3, <1>5, PlainQuota
  DEF FlushBegin, disk, Go, Ledger, StoreType
<1>6. CASE IndexRecord(p)
  BY <1>1, <1>2, <1>3, <1>6, PlainQuota
  DEF IndexRecord, disk, session, batch, Go, Ledger, StoreType
<1>7. CASE \E k \in Key : CommitFound(p, k)
  BY <1>1, <1>2, <1>3, <1>7, PlainQuota
  DEF CommitFound, disk, index, batch, Ledger, StoreType, QuotaType
<1>8. CASE \E k \in Key : CommitStamp(p, k)
  BY <1>1, <1>2, <1>3, <1>8, PlainQuota
  DEF CommitStamp, disk, index, batch, Go, Ledger, StoreType, QuotaType
<1> QED
  BY <1>4, <1>5, <1>6, <1>7, <1>8

\* The reservation has room for the chunk, and for the commit.
LEMMA CommitIntentQuota ==
  ASSUME StoreInv, StoreType', QuotaInv, QuotaType', NEW p \in Proc, CommitIntent(p)
  PROVE  QuotaInv'
<1>1. StoreType /\ QuotaType /\ Ledger(p)
  BY DEF StoreInv, QuotaInv
<1>2. pc[p] = "stamped" /\ pc[p] \in Writing /\ pc[p] \in Publish
  BY DEF CommitIntent, Writing, Publish
<1>3. target[p] \in goal[p] /\ Promised(p) <= reserved[p]
  BY <1>1, <1>2 DEF Ledger
<1>4. CommitBytes + Allowance <= Promised(p) /\ Promised(p) \in Nat
  <2>1. goal[p] # {}
    BY <1>3
  <2> QED
    BY <1>1, <2>1, SessionParts, DueSteps DEF Promised
<1>5. reserved[p] >= CommitBytes + Allowance
  BY <1>1, <1>3, <1>4, SessionParts, FiniteParts
<1>6. UNCHANGED reserved
  BY <1>5 DEF CommitIntent, Reserve
<1>7. /\ UNCHANGED <<blobs, commits, leaked, abandoned, stale, pending, renamed, objects, goal,
                     verified, target>>
      /\ Go(p, "publish")
  BY DEF CommitIntent, disk, session, batch
<1>8. pc'[p] = "publish" /\ \A q \in Proc \ {p} : pc'[q] = pc[q]
  BY <1>1, <1>7 DEF Go, StoreType
<1>9. "publish" \in Writing
  BY DEF Writing, Publish
<1> QED
  BY <1>1, <1>2, <1>3, <1>6, <1>7, <1>8, <1>9, PlainQuota DEF Ledger

LEMMA StageQuota ==
  ASSUME StoreInv, StoreType', QuotaInv, QuotaType', NEW p \in Proc, NEW h \in Hash, Stage(p, h)
  PROVE  QuotaInv'
<1>1. StoreType /\ QuotaType /\ Ledger(p)
  BY DEF StoreInv, QuotaInv
<1>2. /\ pc[p] = "open" /\ pc[p] \in Writing /\ pc[p] \notin Publish /\ pc[p] \in Sharing
      /\ pc[p] \notin Alone /\ h \in Wanted(p) /\ renamed[p] = {}
  BY <1>1 DEF Stage, Writing, Publish, Sharing, Alone, Collecting, Ledger
<1>3. PICK P, W, G : P = pending[p] /\ W = Wanted(p) /\ G = goal[p]
  OBVIOUS
<1>4. /\ P \in SUBSET Hash /\ W \in SUBSET Hash /\ G \in SUBSET Key /\ {} \in SUBSET Hash
      /\ reserved[p] \in Nat /\ h \in W
  BY <1>1, <1>2, <1>3, SessionParts
<1>5. Promised(p) = Due(P, {}, W, G) /\ Promised(p) <= reserved[p]
  BY <1>1, <1>2, <1>3, Zenon DEF Promised, Ledger
<1>6. /\ BlobBytes + Allowance <= Due(P, {}, W, G) /\ Due(P, {}, W, G) \in Nat
      /\ Due(P \cup {h}, {}, W \ {h}, G) <= Due(P, {}, W, G)
      /\ Due(P \cup {h}, {}, W \ {h}, G) \in Nat
  <2>1. P \cup {h} \in SUBSET Hash /\ W \ {h} \in SUBSET Hash
    BY <1>4
  <2> QED
    BY <1>4, <2>1, DueSteps
<1>7. reserved[p] >= BlobBytes + Allowance /\ Due(P \cup {h}, {}, W \ {h}, G) <= reserved[p]
  BY <1>4, <1>5, <1>6, FiniteParts
<1>8. UNCHANGED reserved
  BY <1>7 DEF Stage, Reserve
<1>9. /\ UNCHANGED <<blobs, commits, leaked, abandoned, stale, renamed, objects, goal, pc, target>>
      /\ pending' = [pending EXCEPT ![p] = @ \cup {h}]
      /\ verified' = [verified EXCEPT ![p] = @ \cup {h}]
  BY DEF Stage, disk
<1>10. /\ pending'[p] = P \cup {h} /\ verified'[p] = verified[p] \cup {h}
       /\ \A q \in Proc \ {p} : pending'[q] = pending[q] /\ verified'[q] = verified[q]
  BY <1>1, <1>3, <1>9 DEF StoreType
<1>11. Wanted(p)' = W \ {h}
  <2>1. PICK S : S = UNION {Content[k] : k \in goal[p]}
    OBVIOUS
  <2>2. Wanted(p) = S \ verified[p] /\ Wanted(p)' = S \ verified'[p]
    BY <1>9, <2>1, Zenon DEF Wanted
  <2> QED
    BY <1>3, <1>10, <2>2
<1>12. Promised(p)' = Due(P \cup {h}, {}, W \ {h}, G)
  BY <1>2, <1>3, <1>9, <1>10, <1>11, Zenon DEF Promised
<1>13. Ledger(p)'
  BY <1>2, <1>7, <1>8, <1>9, <1>12 DEF Ledger
<1>14. Claims'[p] = Claims[p] /\ Present' = Present
  BY <1>8, <1>9 DEF Claims, Present
<1>15. Bytes(commits', Present') + Claims'[p] <= Bytes(commits, Present) + Claims[p]
  <2>1. Bytes(commits', Present') = Bytes(commits, Present)
    BY <1>9, <1>14, Zenon
  <2>2. Bytes(commits, Present) \in Nat /\ Claims[p] \in Int
    BY PresentType, QuotaNumbers
  <2> QED
    BY <1>14, <2>1, <2>2
<1>16. Others(p)
  BY <1>8, <1>9, <1>10 DEF Others
<1> QED
  BY <1>2, <1>9, <1>13, <1>14, <1>15, <1>16, SessionQuota

\* A chunk file is paid for by the reservation.
LEMMA FlushRenameQuota ==
  ASSUME StoreInv, StoreType', QuotaInv, QuotaType', NEW p \in Proc, NEW h \in Hash,
         FlushRename(p, h)
  PROVE  QuotaInv'
<1>1. StoreType /\ QuotaType /\ Ledger(p)
  BY DEF StoreInv, QuotaInv
<1>2. /\ pc[p] = "flushing" /\ pc[p] \in Writing /\ pc[p] \notin Publish /\ pc[p] \in Sharing
      /\ pc[p] \notin Alone /\ h \in pending[p] /\ h \notin renamed[p]
  BY <1>1 DEF FlushRename, Writing, Publish, Sharing, Alone, Collecting, Ledger
<1>3. PICK P, R, W, G : P = pending[p] /\ R = renamed[p] /\ W = Wanted(p) /\ G = goal[p]
  OBVIOUS
<1>4. /\ P \in SUBSET Hash /\ R \in SUBSET Hash /\ W \in SUBSET Hash /\ G \in SUBSET Key
      /\ reserved[p] \in Nat /\ h \in P /\ h \notin R
  BY <1>1, <1>2, <1>3, SessionParts
<1>5. Promised(p) = Due(P, R, W, G) /\ Promised(p) <= reserved[p]
  BY <1>1, <1>2, <1>3, Zenon DEF Promised, Ledger
<1>6. Due(P \ {h}, R \cup {h}, W, G) = Due(P, R, W, G)
  BY <1>4, DueRename
<1>7. /\ UNCHANGED <<commits, leaked, reserved, abandoned, stale, objects, goal, pc, target, verified>>
      /\ blobs' = [blobs EXCEPT ![h] = "good"]
      /\ pending' = [pending EXCEPT ![p] = @ \ {h}]
      /\ renamed' = [renamed EXCEPT ![p] = @ \cup {h}]
  BY DEF FlushRename, index
<1>8. /\ pending'[p] = P \ {h} /\ renamed'[p] = R \cup {h}
      /\ \A q \in Proc \ {p} : pending'[q] = pending[q] /\ renamed'[q] = renamed[q]
  BY <1>1, <1>3, <1>7 DEF StoreType, QuotaType
<1>9. Wanted(p)' = W
  BY <1>3, <1>7, Zenon DEF Wanted
<1>10. Promised(p)' = Due(P \ {h}, R \cup {h}, W, G)
  BY <1>3, <1>7, <1>8, <1>9, Zenon DEF Promised
<1>11. Promised(p)' <= reserved'[p]
  BY <1>5, <1>6, <1>7, <1>10, Zenon
<1>12. Ledger(p)'
  BY <1>1, <1>2, <1>3, <1>7, <1>8, <1>11 DEF Ledger
<1>13. Present' = Present \cup {h}
  BY <1>1, <1>7 DEF Present, StoreType
<1>14. Bytes(commits', Present') + Claims'[p] <= Bytes(commits, Present) + Claims[p]
  <2>1. PICK a, b, c, d : /\ a = Bytes(commits, Present) /\ b = Bytes(commits', Present')
                          /\ c = Weigh(BlobBytes, Present) /\ d = Weigh(BlobBytes, Present')
    OBVIOUS
  <2>2. PICK n : n = Weigh(CommitBytes, In(commits))
    OBVIOUS
  <2>3. a = c + n /\ b = d + n
    BY <1>7, <2>1, <2>2, PresentType, BytesNat
  <2>4. c \in Nat /\ d \in Nat /\ n \in Nat
    BY <2>1, <2>2, PresentType, BytesNat, FiniteParts
  <2>5. d <= c + BlobBytes
    BY <1>13, <2>1, PresentType, WeighMore, FiniteParts
  <2>6. Claims[p] = reserved[p] - Weigh(BlobBytes, R) /\ Claims'[p] = reserved[p] - Weigh(BlobBytes, R \cup {h})
    <3>1. Claims[p] = Claim("flushing", reserved[p], R)
      BY <1>2, <1>3 DEF Claims
    <3>2. Claims'[p] = Claim("flushing", reserved[p], R \cup {h})
      BY <1>2, <1>7, <1>8 DEF Claims
    <3>3. \A S \in SUBSET Hash : Claim("flushing", reserved[p], S) = reserved[p] - Weigh(BlobBytes, S)
      BY <1>2, <1>4, FiniteParts DEF Claim
    <3>4. R \cup {h} \in SUBSET Hash
      BY <1>4
    <3> QED
      BY <1>4, <3>1, <3>2, <3>3, <3>4
  <2>7. /\ Weigh(BlobBytes, R \cup {h}) = Weigh(BlobBytes, R) + BlobBytes
        /\ Weigh(BlobBytes, R) \in Nat
    BY <1>4, WeighMore, FiniteParts
  <2>8. b + Claims'[p] <= a + Claims[p]
    BY <1>4, <2>3, <2>4, <2>5, <2>6, <2>7, FiniteParts
  <2> QED
    BY <2>1, <2>8, Zenon
<1>15. Others(p)
  BY <1>7, <1>8 DEF Others
<1> QED
  BY <1>2, <1>3, <1>7, <1>8, <1>12, <1>13, <1>14, <1>15, SessionQuota

\* A step of a session that changes no file.
LEMMA SameFiles ==
  ASSUME StoreInv, StoreType', QuotaInv, UNCHANGED <<blobs, commits>>,
         NEW p \in Proc, Claims'[p] \in Int, Claims'[p] <= Claims[p]
  PROVE  /\ Bytes(commits', Present') + Claims'[p] <= Bytes(commits, Present) + Claims[p]
         /\ Present' = Present
<1>1. Present' = Present
  BY DEF Present
<1>2. Bytes(commits', Present') = Bytes(commits, Present)
  BY <1>1, Zenon
<1>3. Bytes(commits, Present) \in Nat /\ Claims[p] \in Int
  BY PresentType, QuotaNumbers
<1> QED
  BY <1>1, <1>2, <1>3

\* The chunks of a flush leave the reservation when its transaction commits.
LEMMA FlushCommitQuota ==
  ASSUME StoreInv, StoreType', QuotaInv, QuotaType', NEW p \in Proc, FlushCommit(p)
  PROVE  QuotaInv'
<1>1. StoreType /\ QuotaType /\ Ledger(p)
  BY DEF StoreInv, QuotaInv
<1>2. /\ pc[p] = "flushing" /\ pc[p] \in Writing /\ pc[p] \in Sharing /\ pending[p] = {}
  BY DEF FlushCommit, Writing, Sharing
<1>3. PICK R, W, G : R = renamed[p] /\ W = Wanted(p) /\ G = goal[p]
  OBVIOUS
<1>4. /\ {} \in SUBSET Hash /\ R \in SUBSET Hash /\ W \in SUBSET Hash /\ G \in SUBSET Key
      /\ reserved[p] \in Nat
  BY <1>1, <1>3, SessionParts
<1>5. Promised(p) = Due({}, R, W, G) /\ Promised(p) <= reserved[p]
  BY <1>1, <1>2, <1>3, Zenon DEF Promised, Ledger
<1>6. Due({}, {}, W, G) = Due({}, R, W, G) - Weigh(BlobBytes, R) /\ Due({}, R, W, G) \in Nat
  BY <1>4, DueSteps
<1>7. /\ UNCHANGED <<blobs, commits, leaked, abandoned, stale, goal, target, pending, verified>>
      /\ objects' = objects \cup R
      /\ reserved' = [reserved EXCEPT ![p] = @ - Weigh(BlobBytes, R)]
      /\ renamed' = [renamed EXCEPT ![p] = {}] /\ pc' = [pc EXCEPT ![p] = "open"]
  BY <1>3 DEF FlushCommit, disk, Consume, Go, Weigh
<1>8. /\ reserved'[p] = reserved[p] - Weigh(BlobBytes, R) /\ renamed'[p] = {} /\ pc'[p] = "open"
      /\ \A q \in Proc \ {p} : /\ reserved'[q] = reserved[q] /\ renamed'[q] = renamed[q]
                               /\ pc'[q] = pc[q]
  BY <1>1, <1>7 DEF StoreType, QuotaType
<1>9. Promised(p)' = Due({}, {}, W, G)
  <2>1. Wanted(p)' = W
    BY <1>3, <1>7, Zenon DEF Wanted
  <2> QED
    BY <1>2, <1>3, <1>7, <1>8, <2>1, Zenon DEF Promised
<1>10. Promised(p)' <= reserved'[p]
  <2>1. PICK w : w = Weigh(BlobBytes, R)
    OBVIOUS
  <2>2. w \in Nat
    BY <1>4, <2>1, FiniteParts
  <2>3. Promised(p)' = Promised(p) - w /\ Promised(p) \in Nat
    BY <1>5, <1>6, <1>9, <2>1, Zenon
  <2>4. reserved'[p] = reserved[p] - w
    BY <1>8, <2>1, Zenon
  <2> QED
    BY <1>4, <1>5, <2>2, <2>3, <2>4
<1>11. "open" \in Writing /\ "open" \notin Publish /\ "open" \notin Alone
  BY DEF Writing, Publish, Alone, Collecting
<1>12. Ledger(p)'
  BY <1>8, <1>10, <1>11 DEF Ledger
<1>13. Claims'[p] \in Int /\ Claims'[p] <= Claims[p]
  <2>1. Claims[p] = reserved[p] - Weigh(BlobBytes, R)
    BY <1>2, <1>3, <1>4, FiniteParts DEF Claims, Claim
  <2>2. Claims'[p] = Claim("open", reserved'[p], {})
    BY <1>8 DEF Claims
  <2>3. Weigh(BlobBytes, R) \in Nat /\ Weigh(BlobBytes, {}) = 0
    BY <1>4, WeighNothing, FiniteParts
  <2>4. Claims'[p] = reserved'[p] - 0
    <3>1. reserved'[p] \in Nat
      BY DEF QuotaType
    <3> QED
      BY <1>11, <2>2, <2>3, <3>1 DEF Claim
  <2> QED
    BY <1>4, <1>8, <2>1, <2>3, <2>4
<1>14. Others(p)
  BY <1>7, <1>8 DEF Others
<1>15. UNCHANGED <<blobs, commits, leaked, abandoned, stale>> /\ pc'[p] \notin Alone
       /\ objects \cup renamed[p] \subseteq objects' \cup renamed'[p]
  BY <1>3, <1>7, <1>8, <1>11
<1> QED
  BY <1>2, <1>12, <1>13, <1>14, <1>15, SameFiles, SessionQuota

\* A commit file is paid for, and leaves the reservation, in the same way.
LEMMA AtomicWriteQuota ==
  ASSUME StoreInv, StoreType', QuotaInv, QuotaType', NEW p \in Proc, AtomicWrite(p)
  PROVE  QuotaInv'
<1>1. StoreType /\ QuotaType /\ Ledger(p) /\ Publication(p)
  BY DEF StoreInv, QuotaInv
<1>2. /\ pc[p] = "publish" /\ pc[p] \in Writing /\ pc[p] \in Publish /\ pc[p] \in Sharing
      /\ renamed[p] = {}
  BY <1>1 DEF AtomicWrite, Writing, Publish, Sharing, Ledger
<1>3. target[p] \in Key /\ commits[target[p]] = 0 /\ target[p] \in goal[p]
  BY <1>1, <1>2 DEF Publication, Ledger
<1>4. /\ UNCHANGED <<blobs, leaked, reserved, abandoned, stale, objects, goal, target, pending,
                     renamed, verified>>
      /\ commits' = [commits EXCEPT ![target[p]] = stamp[p]]
      /\ pc' = [pc EXCEPT ![p] = "index"]
  BY DEF AtomicWrite, index, session, batch, Go
<1>5. pc'[p] = "index" /\ \A q \in Proc \ {p} : pc'[q] = pc[q]
  BY <1>1, <1>4 DEF StoreType
<1>6. "index" \in Writing /\ "index" \notin Alone
  BY DEF Writing, Publish, Alone, Collecting
<1>7. Promised(p)' = Promised(p)
  <2>1. Wanted(p)' = Wanted(p)
    BY <1>4, Zenon DEF Wanted
  <2> QED
    BY <1>4, <2>1, Zenon DEF Promised
<1>8. Ledger(p)'
  <2>1. Promised(p)' <= reserved'[p]
    BY <1>1, <1>2, <1>4, <1>7 DEF Ledger
  <2> QED
    BY <1>2, <1>3, <1>4, <1>5, <1>6, <2>1 DEF Ledger
<1>9. Present' = Present
  BY <1>4 DEF Present
<1>10. In(commits') \subseteq In(commits) \cup {target[p]}
  BY <1>1, <1>4 DEF In, StoreType
<1>11. Bytes(commits', Present') <= Bytes(commits, Present) + CommitBytes
  <2>1. PICK a, c, d : /\ a = Weigh(BlobBytes, Present) /\ c = Weigh(CommitBytes, In(commits))
                       /\ d = Weigh(CommitBytes, In(commits'))
    OBVIOUS
  <2>2. /\ Bytes(commits, Present) = a + c /\ Bytes(commits', Present') = a + d
        /\ In(commits) \in SUBSET Key /\ In(commits') \in SUBSET Key
    <3>1. /\ Bytes(commits, Present) = a + c /\ Bytes(commits', Present) = a + d
          /\ In(commits) \in SUBSET Key /\ In(commits') \in SUBSET Key
      BY <2>1, PresentType, BytesNat
    <3> QED
      BY <1>9, <3>1, Zenon
  <2>3. PICK S : S = In(commits) \cup {target[p]}
    OBVIOUS
  <2>4. S \in SUBSET Key /\ In(commits') \in SUBSET S
    BY <1>3, <1>10, <2>2, <2>3
  <2>5. d <= Weigh(CommitBytes, S) /\ Weigh(CommitBytes, S) <= c + CommitBytes
    BY <2>1, <2>2, <2>3, <2>4, WeighOrder, WeighMore, FiniteParts
  <2>6. a \in Nat /\ c \in Nat /\ d \in Nat /\ Weigh(CommitBytes, S) \in Nat
    BY <2>1, <2>2, <2>4, PresentType, FiniteParts
  <2> QED
    BY <2>2, <2>5, <2>6, FiniteParts
<1>12. Claims'[p] = Claims[p] - CommitBytes
  <2>1. Claims[p] = Claim("publish", reserved[p], {})
    BY <1>2 DEF Claims
  <2>2. Claims'[p] = Claim("index", reserved[p], {})
    BY <1>2, <1>4, <1>5 DEF Claims
  <2>3. Weigh(BlobBytes, {}) = 0 /\ reserved[p] \in Nat
    BY <1>1, WeighNothing, FiniteParts DEF QuotaType
  <2> QED
    BY <1>2, <1>6, <2>1, <2>2, <2>3, FiniteParts DEF Claim
<1>13. Bytes(commits', Present') + Claims'[p] <= Bytes(commits, Present) + Claims[p]
  BY <1>11, <1>12, PresentType, QuotaNumbers, FiniteParts
<1>14. Others(p)
  BY <1>4, <1>5 DEF Others
<1>15. UNCHANGED <<leaked, abandoned, stale, objects, renamed>> /\ pc'[p] \notin Alone
  BY <1>4, <1>5, <1>6
<1> QED
  BY <1>2, <1>8, <1>9, <1>13, <1>14, <1>15, SessionQuota

LEMMA CommitReturnQuota ==
  ASSUME StoreInv, StoreType', QuotaInv, QuotaType', NEW p \in Proc, CommitReturn(p)
  PROVE  QuotaInv'
<1>1. StoreType /\ QuotaType /\ Ledger(p)
  BY DEF StoreInv, QuotaInv
<1>2. /\ pc[p] = "settle" /\ pc[p] \in Writing /\ pc[p] \in Publish /\ pc[p] \in Sharing
      /\ renamed[p] = {} /\ target[p] \in goal[p]
  BY <1>1 DEF CommitReturn, Writing, Publish, Sharing, Ledger
<1>3. PICK P, W, G, k : P = pending[p] /\ W = Wanted(p) /\ G = goal[p] /\ k = target[p]
  OBVIOUS
<1>4. /\ P \in SUBSET Hash /\ {} \in SUBSET Hash /\ W \in SUBSET Hash /\ G \in SUBSET Key
      /\ reserved[p] \in Nat /\ k \in G
  BY <1>1, <1>2, <1>3, SessionParts
<1>5. Promised(p) = Due(P, {}, W, G) /\ Promised(p) <= reserved[p]
  BY <1>1, <1>2, <1>3, Zenon DEF Promised, Ledger
<1>6. /\ UNCHANGED <<blobs, commits, leaked, abandoned, stale, objects, pending, renamed, verified>>
      /\ reserved' = [reserved EXCEPT ![p] = @ - CommitBytes]
      /\ goal' = [goal EXCEPT ![p] = @ \ {target[p]}]
      /\ target' = [target EXCEPT ![p] = NoKey] /\ pc' = [pc EXCEPT ![p] = "open"]
  BY DEF CommitReturn, disk, batch, Consume, Go
<1>7. /\ reserved'[p] = reserved[p] - CommitBytes /\ goal'[p] = G \ {k} /\ pc'[p] = "open"
      /\ \A q \in Proc \ {p} : /\ reserved'[q] = reserved[q] /\ goal'[q] = goal[q]
                               /\ pc'[q] = pc[q] /\ target'[q] = target[q]
  BY <1>1, <1>3, <1>6 DEF StoreType, QuotaType
<1>8. Wanted(p)' \in SUBSET W
  BY <1>3, <1>6, <1>7 DEF Wanted
<1>9. PICK V \in SUBSET W : V = Wanted(p)'
  BY <1>8
<1>10. Promised(p)' = Due(P, {}, V, G \ {k})
  BY <1>2, <1>3, <1>6, <1>7, <1>9, Zenon DEF Promised
<1>11. /\ Due(P, {}, V, G \ {k}) <= Due(P, {}, W, G) - CommitBytes
       /\ Due(P, {}, W, G) \in Nat /\ Due(P, {}, V, G \ {k}) \in Nat
  <2>1. V \in SUBSET Hash /\ G \ {k} \in SUBSET Key
    BY <1>4
  <2> QED
    BY <1>4, <2>1, DueSteps
<1>12. Promised(p)' <= reserved'[p]
  BY <1>4, <1>5, <1>7, <1>10, <1>11, FiniteParts
<1>13. "open" \in Writing /\ "open" \notin Publish /\ "open" \notin Alone
  BY DEF Writing, Publish, Alone, Collecting
<1>14. Ledger(p)'
  BY <1>2, <1>6, <1>7, <1>12, <1>13 DEF Ledger
<1>15. Claims'[p] \in Int /\ Claims'[p] <= Claims[p]
  <2>1. Claims[p] = Claim("settle", reserved[p], {})
    BY <1>2 DEF Claims
  <2>2. Claims'[p] = Claim("open", reserved[p] - CommitBytes, {})
    BY <1>2, <1>6, <1>7 DEF Claims
  <2>3. Weigh(BlobBytes, {}) = 0
    BY WeighNothing, FiniteParts
  <2> QED
    BY <1>2, <1>4, <1>13, <2>1, <2>2, <2>3, FiniteParts DEF Claim
<1>16. Others(p)
  BY <1>6, <1>7 DEF Others
<1>17. UNCHANGED <<blobs, commits, leaked, abandoned, stale, objects, renamed>> /\ pc'[p] \notin Alone
  BY <1>6, <1>7, <1>13
<1> QED
  BY <1>2, <1>14, <1>15, <1>16, <1>17, SameFiles, SessionQuota

\* The end of a session gives up its claim.
LEMMA EndWriteQuota ==
  ASSUME StoreInv, StoreType', QuotaInv, QuotaType', NEW p \in Proc, EndWrite(p)
  PROVE  QuotaInv'
<1>1. StoreType /\ QuotaType /\ Ledger(p) /\ Session(p)
  BY DEF StoreInv, QuotaInv
<1>2. pc[p] \in Writing /\ pc[p] \in Sharing
  BY DEF EndWrite, Writing, Publish, Sharing
<1>3. /\ UNCHANGED <<blobs, commits, leaked, reserved, abandoned, objects>>
      /\ stale' = (stale \/ p \in intents)
      /\ pending' = [pending EXCEPT ![p] = {}] /\ renamed' = [renamed EXCEPT ![p] = {}]
      /\ verified' = [verified EXCEPT ![p] = {}] /\ goal' = [goal EXCEPT ![p] = {}]
      /\ target' = [target EXCEPT ![p] = NoKey] /\ pc' = [pc EXCEPT ![p] = "closing"]
  BY DEF EndWrite, disk, Go
<1>4. /\ pending'[p] = {} /\ renamed'[p] = {} /\ pc'[p] = "closing"
      /\ Others(p)
  BY <1>1, <1>3 DEF StoreType, QuotaType, Others
<1>5. "closing" \notin Writing /\ "closing" \notin Publish /\ "closing" \notin Alone
  BY DEF Writing, Publish, Alone, Collecting
<1>6. Ledger(p)'
  BY <1>4, <1>5 DEF Ledger
<1>7. Claims'[p] \in Int /\ Claims'[p] <= Claims[p]
  <2>1. Claims'[p] = 0
    BY <1>4, <1>5 DEF Claims, Claim
  <2> QED
    BY <1>1, <2>1, LedgerNumbers
<1>8. ~stale' => renamed[p] = {}
  BY <1>1, <1>3 DEF Session, Intending, Ledger
<1> QED
  BY <1>2, <1>3, <1>4, <1>5, <1>6, <1>7, <1>8, SameFiles, SessionQuota

\* Only a flush has chunks that the index does not list.
LEMMA NoFiles ==
  ASSUME QuotaInv, \A q \in Proc : pc[q] # "flushing"
  PROVE  UNION {renamed[q] : q \in Proc} = {}
BY DEF QuotaInv, Ledger

\* A step from one place outside a session to another.
LEMMA OutsideQuota ==
  ASSUME StoreInv, StoreType', QuotaInv, QuotaType', NEW p \in Proc, Others(p),
         pc[p] \notin Writing \cup Alone, pc'[p] \notin Writing \cup {"scan", "closing"},
         UNCHANGED <<blobs, commits, leaked, objects, abandoned, stale, renamed, pending>>,
         reserved'[p] = reserved[p] \/ reserved'[p] = 0,
         pc[p] = "closing" => reserved'[p] = 0,
         IF pc'[p] \in Collecting THEN ~stale /\ ~Leased /\ Begun(rows, objects) ELSE UNCHANGED tx
  PROVE  QuotaInv'
<1>1. StoreType /\ QuotaType /\ Ledger(p)
  BY DEF StoreInv, QuotaInv
<1>2. reserved'[p] = 0
  BY <1>1 DEF Ledger
<1>3. pc[p] \notin Publish /\ pc'[p] \notin Publish /\ pc[p] # "flushing" /\ pc[p] # "scan"
  BY DEF Writing, Alone
<1>4. Ledger(p)'
  BY <1>1, <1>2, <1>3 DEF Ledger
<1>5. Claims'[p] \in Int /\ Claims'[p] <= Claims[p]
  BY DEF Claims, Claim
<1>6. /\ Bytes(commits', Present') + Claims'[p] <= Bytes(commits, Present) + Claims[p]
      /\ Present' = Present
  BY <1>5, SameFiles
<1>7. leaked' <= leaked
  BY <1>1 DEF QuotaType
<1>8. Taken' <= Limit
  BY <1>5, <1>6, <1>7, TakenStep DEF Others
<1>9. Listed'
  <2>1. (\A q \in Proc : pc'[q] # "scan") => \A q \in Proc : pc[q] # "scan"
    BY <1>3 DEF Others
  <2> QED
    BY <1>6, <2>1 DEF QuotaInv, Listed
<1>10. CollectorListed'
  <2>1. CASE pc'[p] \in Collecting
    <3>1. \A q \in Proc : pc[q] \notin Alone /\ pc[q] \notin Sharing
      BY <1>1, <2>1, FreeFacts DEF StoreInv
    <3>2. Present \subseteq objects
      BY <2>1, <3>1, NoFiles DEF QuotaInv, Listed, Alone, Sharing, Writing
    <3>3. tx'.objects = objects
      BY <2>1 DEF Begun
    <3> QED
      BY <1>6, <3>2, <3>3 DEF CollectorListed
  <2>2. CASE pc'[p] \notin Collecting
    <3>1. \A q \in Proc : pc'[q] \in Collecting => pc[q] \in Collecting
      BY <2>2 DEF Others
    <3> QED
      BY <1>6, <2>2, <3>1 DEF QuotaInv, CollectorListed
  <2> QED
    BY <2>1, <2>2
<1> QED
  BY <1>4, <1>8, <1>9, <1>10, OtherLedgers DEF QuotaInv

\* Steps before, between and after sessions.
LEMMA OutsideSteps ==
  ASSUME StoreInv, StoreType', QuotaInv, QuotaType', NEW p \in Proc,
         \/ GiveUp(p) \/ CloseWrite(p) \/ EndRead(p) \/ \E k \in Key : Load(p, k)
         \/ MaintainBusy(p) \/ Maintain(p) \/ RebuildIndex(p) \/ Open(p)
  PROVE  QuotaInv'
<1>1. StoreType /\ QuotaType
  BY DEF StoreInv, QuotaInv
<1>2. \A s \in {"failed", "idle", "closing", "reading", "maintain", "down"} :
        s \notin Writing \cup Alone
  BY DEF Writing, Alone, Collecting, Publish
<1>3. \A s \in {"idle", "reading", "failed", "wipe", "gc"} : s \notin Writing \cup {"scan", "closing"}
  BY DEF Writing, Publish
<1>4. "gc" \in Collecting /\ \A s \in {"idle", "reading", "failed", "wipe"} : s \notin Collecting
  BY DEF Collecting
<1>5. CASE GiveUp(p)
  BY <1>1, <1>2, <1>3, <1>4, <1>5, OutsideQuota
  DEF GiveUp, disk, index, batch, collector, Go, Others, StoreType, QuotaType
<1>6. CASE CloseWrite(p)
  BY <1>1, <1>2, <1>3, <1>4, <1>6, OutsideQuota
  DEF CloseWrite, disk, session, batch, collector, Go, Others, StoreType, QuotaType
<1>7. CASE EndRead(p)
  BY <1>1, <1>2, <1>3, <1>4, <1>7, OutsideQuota
  DEF EndRead, disk, index, batch, collector, Go, Others, StoreType
<1>8. CASE \E k \in Key : Load(p, k)
  BY <1>1, <1>2, <1>3, <1>4, <1>8, OutsideQuota
  DEF Load, disk, index, batch, collector, Go, Others, StoreType
<1>9. CASE MaintainBusy(p)
  BY <1>1, <1>2, <1>3, <1>4, <1>9, OutsideQuota
  DEF MaintainBusy, disk, index, session, batch, collector, Go, Others, StoreType
<1>10. CASE Maintain(p)
  BY <1>1, <1>2, <1>3, <1>4, <1>10, OutsideQuota
  DEF Maintain, disk, index, session, batch, Go, Others, StoreType, Dirty
<1>11. CASE RebuildIndex(p)
  BY <1>1, <1>2, <1>3, <1>4, <1>11, OutsideQuota
  DEF RebuildIndex, disk, index, session, batch, collector, Go, Others, StoreType
<1>12. CASE Open(p)
  BY <1>1, <1>2, <1>3, <1>4, <1>12, OutsideQuota
  DEF Open, disk, index, session, batch, collector, Go, Others, StoreType
<1> QED
  BY <1>5, <1>6, <1>7, <1>8, <1>9, <1>10, <1>11, <1>12

\* A session begins: the index counts at least what is there.
LEMMA BeginQuota ==
  ASSUME StoreInv, StoreType', QuotaInv, QuotaType', NEW p \in Proc, NEW g \in SUBSET Key,
         NEW s \in {"maintain", "failed"}, BeginAttempt(p, g, s), pc[p] \in {"idle", "retry"}
  PROVE  QuotaInv'
<1>1. StoreType /\ QuotaType /\ Ledger(p) /\ Session(p)
  BY DEF StoreInv, QuotaInv
<1>2. /\ pc[p] \notin Writing \cup Alone /\ pc[p] # "closing" /\ pc[p] # "flushing"
      /\ s \notin Writing \cup {"scan", "closing"} /\ s \notin Collecting
  BY DEF Writing, Publish, Alone, Collecting
<1>3. /\ UNCHANGED <<blobs, commits, leaked, objects, rows, abandoned, intents, stale, target,
                     pending, renamed, verified, tx>>
      /\ goal' = [goal EXCEPT ![p] = g]
  BY DEF BeginAttempt, disk, batch, collector
<1>4. CASE UNCHANGED reserved /\ Go(p, s)
  <2>1. pc'[p] = s /\ Others(p)
    BY <1>1, <1>3, <1>4 DEF Go, Others, StoreType, QuotaType
  <2> QED
    BY <1>2, <1>3, <1>4, <2>1, OutsideQuota
<1>5. CASE ~Dirty /\ CanReserve(p, Estimate(g)) /\ Reserve(p, Estimate(g)) /\ Go(p, "open")
  <2>1. reserved[p] = 0 /\ renamed[p] = {} /\ pending[p] = {} /\ verified[p] = {}
    BY <1>1, <1>2 DEF Ledger, Session
  <2>2. PICK n \in Nat : n = Estimate(g)
    BY EstimateDue
  <2>3. reserved'[p] = n /\ pc'[p] = "open" /\ goal'[p] = g /\ Others(p)
    BY <1>1, <1>3, <1>5, <2>1, <2>2 DEF Reserve, Go, Others, StoreType, QuotaType
  <2>4. "open" \in Writing /\ "open" \notin Publish /\ "open" \notin Alone
    BY DEF Writing, Publish, Alone, Collecting
  <2>5. Promised(p)' = n
    <3>1. PICK S : S = UNION {Content[k] : k \in g}
      OBVIOUS
    <3>2. Wanted(p)' = S \ {}
      BY <1>3, <2>1, <2>3, <3>1, Zenon DEF Wanted
    <3>3. Wanted(p)' = S
      BY <3>2
    <3>4. Promised(p)' = Due({}, {}, S, g)
      BY <1>3, <2>1, <2>3, <3>3, Zenon DEF Promised
    <3> QED
      BY <2>2, <3>1, <3>4, EstimateDue, Zenon
  <2>6. Ledger(p)'
    BY <1>3, <2>1, <2>3, <2>4, <2>5 DEF Ledger
  <2>7. ~stale /\ intents = {} /\ \A q \in Proc : pc[q] \notin Alone
    BY <1>1, <1>5 DEF BeginAttempt, Dirty, Exclusive, StoreInv, Leases, LeaseOf
  <2>8. \A q \in Proc : pc[q] # "flushing" /\ pc[q] # "index" /\ pc[q] # "scan"
    BY <2>7 DEF StoreInv, Session, Intending, Alone
  <2>9. Present \subseteq objects /\ leaked <= abandoned
    BY <2>7, <2>8, NoFiles DEF QuotaInv, Listed
  <2>10. In(commits) \subseteq In(rows)
    BY <2>7, <2>8 DEF StoreInv, Indexed, Knows, In
  <2>11. Present' = Present /\ Claims[p] = 0 /\ Claims'[p] = n
    <3>1. Claims'[p] = Claim("open", n, {})
      BY <1>3, <2>1, <2>3 DEF Claims
    <3>2. Weigh(BlobBytes, {}) = 0
      BY WeighNothing, FiniteParts
    <3> QED
      BY <1>2, <1>3, <2>4, <3>1, <3>2 DEF Claims, Claim, Present
  <2>12. Taken' <= Limit
    <3>1. PICK a, b, c, d, r : /\ a = Bytes(commits, Present) /\ b = Bytes(rows, objects)
                               /\ c = SumFunctionOnSet(Claims, Proc) /\ d = SumFunctionOnSet(Claims', Proc)
                               /\ r = SumFunctionOnSet(reserved, Proc)
      OBVIOUS
    <3>2. a \in Nat /\ b \in Nat /\ a <= b
      BY <1>1, <2>9, <2>10, <3>1, BytesNat, BytesOrder, PresentType DEF StoreType, QuotaType
    <3>3. c \in Int /\ r \in Int /\ c <= r
      BY <3>1, QuotaNumbers
    <3>4. d = c + n
      <4>1. PICK e, f : e = Claims /\ f = Claims'
        OBVIOUS
      <4>2. \A q \in Proc : e[q] \in Int
        BY <4>1, QuotaNumbers
      <4>3. \A q \in Proc \ {p} : f[q] = e[q]
        BY <2>3, <4>1, Zenon DEF Others, Claims
      <4>4. f[p] = n /\ e[p] = 0
        BY <2>11, <4>1
      <4>5. SumFunctionOnSet(f, Proc) = SumFunctionOnSet(e, Proc) + (f[p] - e[p])
        BY <4>2, <4>3, <4>4, SumChange, FiniteParts
      <4>6. d = c + (n - 0)
        BY <3>1, <4>1, <4>4, <4>5, Zenon
      <4> QED
        BY <3>3, <4>6
    <3>5. Taken' = a + leaked + d
      BY <1>3, <2>11, <3>1, Zenon DEF Taken
    <3>6. leaked \in Nat /\ abandoned \in Nat /\ Limit \in Nat
      BY <1>1, FiniteParts DEF QuotaType
    <3>7. CASE n = 0
      <4>1. a + leaked + c <= Limit
        BY <3>1, Zenon DEF QuotaInv, Taken
      <4> QED
        BY <3>2, <3>3, <3>4, <3>5, <3>6, <3>7, <4>1
    <3>8. CASE n # 0
      <4>1. Used(rows, objects) + (n - 0) <= Limit
        BY <1>5, <2>1, <2>2, <3>8 DEF CanReserve
      <4>2. Used(rows, objects) = b + abandoned + r
        BY <3>1, Zenon DEF Used
      <4> QED
        BY <2>9, <3>2, <3>3, <3>4, <3>5, <3>6, <4>1, <4>2
    <3> QED
      BY <3>7, <3>8
  <2>13. Listed'
    BY <1>3, <2>9, <2>11 DEF Listed
  <2>14. CollectorListed'
    BY <2>3, <2>4, <2>7 DEF CollectorListed, Others, Alone
  <2> QED
    BY <2>3, <2>6, <2>12, <2>13, <2>14, OtherLedgers DEF QuotaInv
<1> QED
  BY <1>4, <1>5 DEF BeginAttempt

\* Nobody else has anything in hand while p collects.
LEMMA CollectorAlone ==
  ASSUME StoreInv, QuotaInv, NEW p \in Proc, pc[p] \in Alone
  PROVE  /\ \A q \in Proc : pc[q] \notin Writing \cup {"closing"} /\ reserved[q] = 0 /\ Claims[q] = 0
         /\ \A q \in Proc \ {p} : pc[q] \notin Alone
         /\ UNION {renamed[q] : q \in Proc} = {}
<1>1. \A q \in Proc : pc[q] \notin Sharing /\ (q # p => pc[q] \notin Alone)
  BY AloneFacts DEF StoreInv
<1>2. \A q \in Proc : pc[q] \notin Writing \cup {"closing"} /\ pc[q] # "flushing"
  BY <1>1 DEF Sharing, Writing
<1>3. \A q \in Proc : reserved[q] = 0
  BY <1>2 DEF QuotaInv, Ledger
<1>4. \A q \in Proc : Claims[q] = 0
  BY <1>2 DEF Claims, Claim
<1> QED
  BY <1>1, <1>2, <1>3, <1>4, NoFiles

\* A step of the collector, or of a recovery.
LEMMA CollectorQuota ==
  ASSUME StoreInv, StoreType', QuotaInv, QuotaType', NEW p \in Proc, NEW s, Go(p, s),
         pc[p] \in Alone, s \notin Writing \cup {"closing"},
         UNCHANGED <<abandoned, stale, target, pending, renamed, goal, verified>>,
         \A q \in Proc : reserved'[q] = 0,
         Present' \subseteq Present, In(commits') \subseteq In(commits), leaked' <= leaked,
         s # "scan" /\ ~stale' => Present' \subseteq objects' /\ leaked' <= abandoned',
         s \in Collecting => Present' \subseteq tx'.objects
  PROVE  QuotaInv'
<1>1. StoreType /\ QuotaType
  BY DEF StoreInv, QuotaInv
<1>2. pc'[p] = s /\ \A q \in Proc \ {p} : pc'[q] = pc[q]
  BY <1>1 DEF Go, StoreType
<1>3. /\ \A q \in Proc : pc[q] \notin Writing \cup {"closing"} /\ reserved[q] = 0 /\ Claims[q] = 0
      /\ \A q \in Proc \ {p} : pc[q] \notin Alone
  BY CollectorAlone
<1>4. \A q \in Proc : pc'[q] \notin Writing \cup {"closing"} /\ pc'[q] # "flushing" /\ pc'[q] \notin Publish
  BY <1>2, <1>3 DEF Writing
<1>5. ASSUME NEW q \in Proc PROVE Ledger(q)'
  <2>1. renamed[q] = {}
    BY <1>3 DEF QuotaInv, Ledger, Writing
  <2> QED
    BY <1>4, <2>1 DEF Ledger
<1>6. Claims'[p] = 0
  BY <1>4 DEF Claims, Claim
<1>7. Taken' <= Limit
  <2>1. Bytes(commits', Present') <= Bytes(commits, Present)
    <3>1. /\ commits \in [Key -> Nat] /\ commits' \in [Key -> Nat] /\ Present \in SUBSET Hash
          /\ Present' \in SUBSET Present
      BY PresentType
    <3> QED
      BY <3>1, BytesOrder
  <2>2. Bytes(commits', Present') + Claims'[p] <= Bytes(commits, Present) + Claims[p]
    BY <1>3, <1>6, <2>1, PresentType
  <2>3. \A q \in Proc \ {p} : pc'[q] = pc[q] /\ reserved'[q] = reserved[q] /\ renamed'[q] = renamed[q]
    BY <1>2, <1>3
  <2> QED
    BY <1>6, <2>2, <2>3, TakenStep
<1>8. Listed'
  BY <1>2 DEF Listed
<1>9. CollectorListed'
  BY <1>2, <1>3 DEF CollectorListed, Alone
<1> QED
  BY <1>5, <1>7, <1>8, <1>9 DEF QuotaInv

\* The collector: what goes is listed by its transaction until it is gone.
LEMMA GcQuota ==
  ASSUME StoreInv, StoreType', QuotaInv, QuotaType', NEW p \in Proc,
         \/ \E k \in Key : GcWithdraw(p, k)
         \/ \E h \in Hash : GcRemove(p, h)
         \/ GcSweep(p) \/ GcCommit(p) \/ GcRefuse(p) \/ GcAbort(p)
  PROVE  QuotaInv'
<1>1. StoreType /\ QuotaType
  BY DEF StoreInv, QuotaInv
<1>2. pc[p] \in Collecting /\ pc[p] \in Alone /\ pc[p] # "scan"
  BY DEF GcWithdraw, GcRemove, GcSweep, GcCommit, GcRefuse, GcAbort, Collecting, Alone
<1>3. /\ \A q \in Proc : reserved[q] = 0
      /\ \A q \in Proc : pc[q] # "scan"
      /\ UNION {renamed[q] : q \in Proc} = {}
  BY <1>2, CollectorAlone DEF Alone
<1>4. Present \subseteq tx.objects /\ (~stale => Present \subseteq objects /\ leaked <= abandoned)
  BY <1>2, <1>3 DEF QuotaInv, Listed, CollectorListed
<1>5. \A s \in {"gc", "sweep", "retry", "failed"} : s \notin Writing \cup {"closing"} /\ s # "scan"
  BY DEF Writing, Publish
<1>6. "retry" \notin Collecting /\ "failed" \notin Collecting
  BY DEF Collecting
<1>7. leaked \in Nat
  BY <1>1 DEF QuotaType
<1>8. ASSUME NEW k \in Key, GcWithdraw(p, k) PROVE QuotaInv'
  <2>1. /\ UNCHANGED <<blobs, leaked, objects, abandoned, stale, target, pending, renamed, goal,
                       verified, reserved, pc>>
        /\ commits' = [commits EXCEPT ![k] = 0] /\ tx'.objects = tx.objects
    BY <1>8 DEF GcWithdraw, index, session, batch, Begun
  <2>2. Go(p, pc[p]) /\ Present' = Present /\ In(commits') \subseteq In(commits)
    BY <1>1, <2>1 DEF Go, Present, In, StoreType
  <2>3. pc[p] \notin Writing \cup {"closing"}
    BY <1>2, CollectorAlone
  <2>4. /\ Present' \subseteq tx'.objects /\ Present' \subseteq Present /\ leaked' <= leaked
        /\ ~stale' => Present' \subseteq objects' /\ leaked' <= abandoned'
        /\ \A q \in Proc : reserved'[q] = 0
    BY <1>3, <1>4, <1>7, <2>1, <2>2
  <2>5. PICK s : s = pc[p]
    OBVIOUS
  <2>6. UNCHANGED <<abandoned, stale, target, pending, renamed, goal, verified>>
    BY <2>1
  <2>7. Go(p, s) /\ s \notin Writing \cup {"closing"}
    BY <2>2, <2>3, <2>5, Zenon
  <2> QED
    BY <1>2, <2>2, <2>4, <2>6, <2>7, CollectorQuota
<1>9. ASSUME NEW h \in Hash, GcRemove(p, h) PROVE QuotaInv'
  <2>1. /\ UNCHANGED <<commits, leaked, objects, abandoned, stale, target, pending, renamed, goal,
                       verified, reserved, pc>>
        /\ blobs' = [blobs EXCEPT ![h] = "none"] /\ tx'.objects = tx.objects \ {h}
    BY <1>9 DEF GcRemove, index, session, batch, Begun
  <2>2. Go(p, pc[p]) /\ Present' = Present \ {h} /\ In(commits') = In(commits)
    BY <1>1, <2>1 DEF Go, Present, In, StoreType
  <2>3. pc[p] \notin Writing \cup {"closing"}
    BY <1>2, CollectorAlone
  <2>4. Present' \subseteq tx'.objects /\ (~stale' => Present' \subseteq objects' /\ leaked' <= abandoned')
    BY <1>4, <2>1, <2>2
  <2> QED
    BY <1>2, <1>3, <1>7, <2>1, <2>2, <2>3, <2>4, CollectorQuota
<1>10. ASSUME UNCHANGED <<blobs, commits, leaked, abandoned, stale, target, pending, renamed, goal,
                          verified, reserved>>,
              NEW s \in {"sweep", "retry", "failed"}, Go(p, s),
              objects' = objects \/ objects' = tx.objects,
              s = "sweep" => UNCHANGED tx
       PROVE  QuotaInv'
  <2>1. Present' = Present /\ In(commits') = In(commits)
    BY <1>10 DEF Present, In
  <2>2. /\ s # "scan" /\ ~stale' => Present' \subseteq objects' /\ leaked' <= abandoned'
        /\ s \in Collecting => Present' \subseteq tx'.objects
    BY <1>4, <1>6, <1>10, <2>1
  <2> QED
    BY <1>2, <1>3, <1>5, <1>7, <1>10, <2>1, <2>2, CollectorQuota
<1>11. CASE GcSweep(p) \/ GcAbort(p)
  BY <1>10, <1>11 DEF GcSweep, GcAbort, disk, index, session, batch
<1>12. CASE GcCommit(p) \/ GcRefuse(p)
  BY <1>10, <1>12 DEF GcCommit, GcRefuse, disk, session, batch
<1> QED
  BY <1>8, <1>9, <1>11, <1>12

\* Recover: what it leaves in the directory it has listed.
LEMMA RecoverQuota ==
  ASSUME StoreInv, StoreType', QuotaInv, QuotaType', NEW p \in Proc,
         RecoverWipe(p) \/ (\E k \in Key : RecoverIndex(p, k)) \/ RecoverReclaim(p)
  PROVE  QuotaInv'
<1>1. StoreType /\ QuotaType
  BY DEF StoreInv, QuotaInv
<1>2. pc[p] \in Alone
  BY DEF RecoverWipe, RecoverIndex, RecoverReclaim, Alone
<1>3. \A q \in Proc : reserved[q] = 0 /\ Claims[q] = 0
  BY <1>2, CollectorAlone
<1>4. /\ \A s \in {"scan", "idle", "gc"} : s \notin Writing \cup {"closing"}
      /\ "scan" \notin Collecting /\ "idle" \notin Collecting
  BY DEF Writing, Publish, Collecting
<1>5. leaked \in Nat /\ abandoned \in Nat
  BY <1>1 DEF QuotaType
<1>6. CASE RecoverWipe(p)
  <2>1. /\ UNCHANGED <<blobs, commits, leaked, target, pending, renamed, goal, verified>>
        /\ \A q \in Proc : reserved'[q] = 0
        /\ pc' = [pc EXCEPT ![p] = "scan"]
    BY <1>6 DEF RecoverWipe, disk, session, batch, Go
  <2>2. pc'[p] = "scan" /\ \A q \in Proc \ {p} : pc'[q] = pc[q]
    BY <1>1, <2>1 DEF StoreType
  <2>3. /\ \A q \in Proc : pc[q] \notin Writing \cup {"closing"}
        /\ \A q \in Proc \ {p} : pc[q] \notin Alone
    BY <1>2, CollectorAlone
  <2>4. \A q \in Proc : /\ pc'[q] \notin Writing \cup {"closing"} /\ pc'[q] # "flushing"
                        /\ pc'[q] \notin Publish
    BY <1>4, <2>2, <2>3 DEF Writing
  <2>5. ASSUME NEW q \in Proc PROVE Ledger(q)'
    <3>1. renamed[q] = {}
      BY <2>3 DEF QuotaInv, Ledger, Writing
    <3> QED
      BY <2>1, <2>4, <3>1 DEF Ledger
  <2>6. Claims'[p] = 0
    BY <2>4 DEF Claims, Claim
  <2>7. /\ Bytes(commits', Present') + Claims'[p] <= Bytes(commits, Present) + Claims[p]
        /\ leaked' <= leaked
    BY <1>3, <1>5, <2>1, <2>6, SameFiles
  <2>8. Taken' <= Limit
    BY <1>3, <2>1, <2>2, <2>6, <2>7, TakenStep
  <2>9. Listed' /\ CollectorListed'
    BY <1>4, <2>2, <2>3 DEF Listed, CollectorListed, Alone
  <2> QED
    BY <2>5, <2>8, <2>9 DEF QuotaInv
<1>7. ASSUME NEW k \in Key, RecoverIndex(p, k) PROVE QuotaInv'
  <2>1. /\ UNCHANGED <<blobs, leaked, abandoned, stale, target, pending, renamed, goal, verified,
                       reserved, pc>>
        /\ UNCHANGED commits /\ pc[p] = "scan"
    BY <1>7, RecoverIndexKeeps DEF RecoverIndex, session, batch
  <2>2. Go(p, "scan") /\ Present' = Present /\ In(commits') = In(commits)
    BY <1>1, <2>1 DEF Go, Present, In, StoreType
  <2> QED
    BY <1>2, <1>3, <1>4, <1>5, <2>1, <2>2, CollectorQuota
<1>8. CASE RecoverReclaim(p)
  <2>1. /\ UNCHANGED <<commits, objects, abandoned, stale, target, pending, renamed, goal, verified,
                       reserved>>
        /\ leaked' = 0
        /\ blobs' = [h \in Hash |-> IF h \in objects THEN blobs[h] ELSE "none"]
        /\ Go(p, "idle") \/ (Go(p, "gc") /\ Begun(rows, objects))
    BY <1>8 DEF RecoverReclaim, index, session, batch
  <2>2. Present' \subseteq Present /\ Present' \subseteq objects /\ In(commits') = In(commits)
    BY <2>1 DEF Present, In
  <2>3. leaked' <= leaked /\ leaked' <= abandoned'
    BY <1>5, <2>1
  <2>4. CASE Go(p, "idle")
    BY <1>2, <1>3, <1>4, <2>1, <2>2, <2>3, <2>4, CollectorQuota
  <2>5. CASE Go(p, "gc") /\ Begun(rows, objects)
    <3>1. tx'.objects = objects
      BY <2>5 DEF Begun
    <3> QED
      BY <1>2, <1>3, <1>4, <2>1, <2>2, <2>3, <2>5, <3>1, CollectorQuota
  <2> QED
    BY <2>1, <2>4, <2>5
<1> QED
  BY <1>6, <1>7, <1>8
-----------------------------------------------------------------------------
(* The quota: faults *)

\* What a kill does to the numbers.
LEMMA KilledSums ==
  ASSUME NEW P, Killed(P)
  PROVE  /\ leaked' = leaked + SumFunctionOnSet(Staged, P)
         /\ abandoned' = abandoned + SumFunctionOnSet(reserved, P)
         /\ reserved' = [p \in Proc |-> IF p \in P THEN 0 ELSE reserved[p]]
         /\ renamed' = [p \in Proc |-> IF p \in P THEN {} ELSE renamed[p]]
         /\ goal' = [p \in Proc |-> IF p \in P THEN {} ELSE goal[p]]
BY Zenon DEF Killed

\* What a killed process staged is less than what it had reserved.
LEMMA KilledNumbers ==
  ASSUME StoreInv, QuotaInv, NEW P \in SUBSET Proc
  PROVE  /\ SumFunctionOnSet(Staged, P) \in Nat /\ SumFunctionOnSet(reserved, P) \in Nat
         /\ SumFunctionOnSet(Staged, P) <= SumFunctionOnSet(reserved, P)
<1>1. \A p \in Proc : /\ Staged[p] \in Nat /\ reserved[p] \in Nat /\ Staged[p] <= reserved[p]
  <2> SUFFICES ASSUME NEW p \in Proc
               PROVE  Staged[p] \in Nat /\ reserved[p] \in Nat /\ Staged[p] <= reserved[p]
    OBVIOUS
  <2> QED
    BY LedgerNumbers DEF QuotaInv
<1>2. PICK f, g : f = reserved /\ g = Staged
  OBVIOUS
<1>3. \A p \in P : g[p] \in Nat /\ f[p] \in Nat /\ g[p] <= f[p]
  BY <1>1, <1>2
<1>4. IsFiniteSet(P)
  BY FS_Subset, FiniteParts
<1>5. /\ SumFunctionOnSet(g, P) \in Nat /\ SumFunctionOnSet(f, P) \in Nat
      /\ SumFunctionOnSet(g, P) <= SumFunctionOnSet(f, P)
  BY <1>3, <1>4, SumNat, SumOrder
<1> QED
  BY <1>2, <1>5, Zenon

\* What a killed process staged was paid for by its reservation, which stays.
LEMMA KilledQuota ==
  ASSUME StoreInv, StoreType', QuotaInv, QuotaType', ~RecoverKills, NEW P \in SUBSET Proc, Killed(P),
         UNCHANGED blobs
  PROVE  QuotaInv'
<1>1. StoreType /\ QuotaType
  BY DEF StoreInv, QuotaInv
<1>2. /\ \A q \in P : pc[q] # "scan"
      /\ stale' = (stale \/ intents \cap P # {})
      /\ UNCHANGED <<commits, objects>>
  BY KilledFacts
<1>3. \A q \in P : /\ pc'[q] = "down" /\ pending'[q] = {} /\ reserved'[q] = 0 /\ renamed'[q] = {}
  BY KilledFacts, KilledSums
<1>4. \A q \in Proc \ P :
        /\ pc'[q] = pc[q] /\ target'[q] = target[q] /\ pending'[q] = pending[q]
        /\ verified'[q] = verified[q] /\ reserved'[q] = reserved[q] /\ renamed'[q] = renamed[q]
        /\ goal'[q] = goal[q]
  BY KilledFacts, KilledSums
<1>5. "down" \notin Writing \cup Alone /\ "down" \notin Publish
  BY DEF Writing, Publish, Alone, Collecting
<1>6. ASSUME NEW q \in Proc PROVE Ledger(q)'
  <2>1. CASE q \in P
    BY <1>3, <1>5, <2>1 DEF Ledger
  <2>2. CASE q \notin P
    <3>1. Wanted(q)' = Wanted(q)
      BY <1>4, <2>2, Zenon DEF Wanted
    <3>2. Promised(q)' = Promised(q)
      BY <1>4, <2>2, <3>1, Zenon DEF Promised
    <3>3. Ledger(q)
      BY DEF QuotaInv
    <3> QED
      BY <1>4, <2>2, <3>2, <3>3, Zenon DEF Ledger
  <2> QED
    BY <2>1, <2>2
<1>7. /\ leaked' = leaked + SumFunctionOnSet(Staged, P)
      /\ abandoned' = abandoned + SumFunctionOnSet(reserved, P)
  BY KilledSums
<1>8. Taken' <= Limit
  <2>1. PICK d, e, f : d = Staged /\ e = Claims' /\ f = Claims
    OBVIOUS
  <2>2. \A q \in Proc : e[q] = IF q \in P THEN 0 ELSE f[q]
    BY <1>3, <1>4, <1>5, <2>1 DEF Claims, Claim
  <2>3. \A q \in P : d[q] \in Int /\ d[q] <= f[q]
    <3>1. \A q \in Proc : Ledger(q)
      BY DEF QuotaInv
    <3> QED
      BY <1>1, <2>1, <3>1, LedgerNumbers
  <2>4. \A q \in Proc : f[q] \in Int
    BY <2>1, QuotaNumbers
  <2>5. SumFunctionOnSet(d, P) + SumFunctionOnSet(e, Proc) <= SumFunctionOnSet(f, Proc)
    BY <2>2, <2>3, <2>4, SumClear, FiniteParts
  <2>6. SumFunctionOnSet(e, Proc) \in Int
    <3>1. \A q \in Proc : e[q] \in Int
      BY <2>2, <2>4
    <3> QED
      BY <3>1, SumType, FiniteParts
  <2>7. PICK a, x, y, z : /\ a = Bytes(commits, Present) /\ x = SumFunctionOnSet(d, P)
                          /\ y = SumFunctionOnSet(e, Proc) /\ z = SumFunctionOnSet(f, Proc)
    OBVIOUS
  <2>8. a \in Nat /\ x \in Nat /\ y \in Int /\ z \in Int /\ x + y <= z /\ leaked \in Nat /\ Limit \in Nat
    BY <1>1, <2>1, <2>5, <2>6, <2>7, PresentType, KilledNumbers, QuotaNumbers, FiniteParts DEF QuotaType
  <2>9. a + leaked + z <= Limit
    BY <2>1, <2>7, Zenon DEF QuotaInv, Taken
  <2>10. Present' = Present
    BY DEF Present
  <2>11. Taken' = a + leaked' + y
    BY <1>2, <2>1, <2>7, <2>10, Zenon DEF Taken
  <2>12. leaked' = leaked + x
    BY <1>7, <2>1, <2>7, Zenon
  <2> QED
    BY <2>8, <2>9, <2>11, <2>12
<1>9. Listed'
  <2> SUFFICES ASSUME ~stale', \A q \in Proc : pc'[q] # "scan"
               PROVE  /\ Present' \subseteq objects' \cup UNION {renamed'[q] : q \in Proc}
                      /\ leaked' <= abandoned'
    BY DEF Listed
  <2>1. ~stale /\ intents \cap P = {} /\ \A q \in Proc : pc[q] # "scan"
    BY <1>2, <1>4
  <2>2. \A q \in P : renamed[q] = {}
    <3>1. \A q \in P : pc[q] # "flushing"
      BY <2>1 DEF StoreInv, Session, Intending
    <3> QED
      BY <3>1 DEF QuotaInv, Ledger
  <2>3. \A q \in Proc : renamed'[q] = renamed[q]
    BY <1>3, <1>4, <2>2
  <2>4. Present \subseteq objects \cup UNION {renamed[q] : q \in Proc} /\ leaked <= abandoned
    BY <2>1 DEF QuotaInv, Listed
  <2>5. Present' = Present
    BY DEF Present
  <2>6. Present' \subseteq objects' \cup UNION {renamed'[q] : q \in Proc}
    BY <1>2, <2>3, <2>4, <2>5
  <2>7. leaked' <= abandoned'
    BY <1>1, <1>7, <2>4, KilledNumbers DEF QuotaType
  <2> QED
    BY <2>6, <2>7
<1>10. CollectorListed'
  <2> SUFFICES ASSUME NEW q \in Proc, pc'[q] \in Collecting PROVE Present' \subseteq tx'.objects
    BY DEF CollectorListed
  <2>1. q \notin P /\ pc[q] \in Collecting /\ pc[q] \in Alone
    BY <1>3, <1>4, <1>5 DEF Alone
  <2>2. ~(\E r \in P : lease[r] = "exclusive")
    BY <2>1 DEF StoreInv, Leases
  <2>3. UNCHANGED tx
    BY <2>2, KilledFacts DEF collector
  <2>4. Present' = Present
    BY DEF Present
  <2> QED
    BY <2>1, <2>3, <2>4 DEF QuotaInv, CollectorListed
<1> QED
  BY <1>6, <1>8, <1>9, <1>10 DEF QuotaInv

\* The index is lost, or nothing happens.
LEMMA IdleQuota ==
  ASSUME StoreInv, QuotaInv, QuotaType', UNCHANGED <<disk, reserved, pc, session, collector>>,
         \/ UNCHANGED <<objects, abandoned, stale>>
         \/ stale' /\ \A p \in Proc : pc[p] = "down"
  PROVE  QuotaInv'
<1>1. UNCHANGED <<blobs, commits, leaked, pc, goal, target, pending, renamed, verified, reserved, tx>>
  BY DEF disk, session, batch, collector
<1>2. ASSUME NEW q \in Proc PROVE Ledger(q)'
  <2>1. Wanted(q)' = Wanted(q)
    BY <1>1, Zenon DEF Wanted
  <2>2. Promised(q)' = Promised(q)
    BY <1>1, <2>1, Zenon DEF Promised
  <2>3. Ledger(q)
    BY DEF QuotaInv
  <2> QED
    BY <1>1, <2>2, <2>3, Zenon DEF Ledger
<1>3. Present' = Present /\ Claims' = Claims
  BY <1>1 DEF Present, Claims
<1>4. Taken' = Taken
  BY <1>1, <1>3, Zenon DEF Taken
<1>5. Taken' <= Limit
  BY <1>4 DEF QuotaInv
<1>6. Listed' /\ CollectorListed'
  BY <1>1, <1>3 DEF QuotaInv, Listed, CollectorListed, Collecting
<1> QED
  BY <1>2, <1>5, <1>6 DEF QuotaInv

\* Nothing is there yet.
LEMMA InitQuota == Init => QuotaInv
<1> SUFFICES ASSUME Init PROVE QuotaInv
  OBVIOUS
<1>1. \A p \in Proc : pc[p] = "down" /\ reserved[p] = 0 /\ renamed[p] = {} /\ pending[p] = {}
  BY DEF Init
<1>2. QuotaType
  BY DEF Init, QuotaType
<1>3. \A p \in Proc : Ledger(p)
  BY <1>1 DEF Ledger, Writing, Publish
<1>4. Present = {} /\ In(commits) = {} /\ leaked = 0 /\ stale
  BY DEF Init, Present, In, NoRows
<1>5. Bytes(commits, Present) = 0
  <2>1. Bytes(commits, Present) = Weigh(BlobBytes, {}) + Weigh(CommitBytes, {})
    BY <1>4 DEF Bytes, Weigh
  <2> QED
    BY <2>1, WeighNothing, FiniteParts
<1>6. SumFunctionOnSet(Claims, Proc) = 0
  <2>1. PICK f : f = Claims
    OBVIOUS
  <2>2. \A p \in Proc : f[p] = 0
    BY <1>1, <2>1 DEF Claims, Claim, Writing, Publish
  <2> QED
    BY <2>1, <2>2, SumZero, FiniteParts
<1>7. Taken <= Limit
  BY <1>4, <1>5, <1>6, FiniteParts DEF Taken
<1>8. Listed /\ CollectorListed
  BY <1>1, <1>4 DEF Listed, CollectorListed, Collecting
<1> QED
  BY <1>2, <1>3, <1>7, <1>8 DEF QuotaInv

\* The types of a step of a session ..
LEMMA SessionQuotaType ==
  ASSUME StoreInv, QuotaInv, NEW p \in Proc,
         \/ BeginWrite(p) \/ BeginAgain(p) \/ GiveUp(p)
         \/ \E h \in Hash : Dedup(p, h) \/ Stage(p, h) \/ FlushRename(p, h)
         \/ FlushBegin(p) \/ FlushCommit(p)
         \/ \E k \in Key : CommitFound(p, k) \/ CommitStamp(p, k) \/ Load(p, k)
         \/ CommitIntent(p) \/ AtomicWrite(p) \/ IndexRecord(p) \/ CommitReturn(p)
         \/ EndWrite(p) \/ CloseWrite(p) \/ EndRead(p)
  PROVE  QuotaType'
<1>1. StoreType /\ QuotaType /\ Publication(p)
  BY DEF StoreInv, QuotaInv
<1>2. /\ BlobBytes \in Nat /\ CommitBytes \in Nat /\ Allowance \in Nat
      /\ Content \in [Key -> SUBSET Hash]
  BY StoreAssumption
<1> USE DEF QuotaType, disk, index, batch, session, collector, history
<1>3. ASSUME NEW n \in Nat, Reserve(p, n) PROVE reserved' \in [Proc -> Nat]
  BY <1>1, <1>3 DEF Reserve
<1>4. ASSUME NEW n \in Nat, n <= reserved[p], Consume(p, n) PROVE reserved' \in [Proc -> Nat]
  BY <1>1, <1>4 DEF Consume
<1>5. ASSUME NEW g \in SUBSET Key, NEW s, BeginAttempt(p, g, s) PROVE QuotaType'
  <2>1. Estimate(g) \in Nat
    BY EstimateDue
  <2>2. reserved' \in [Proc -> Nat]
    BY <1>1, <1>3, <1>5, <2>1 DEF BeginAttempt
  <2> QED
    BY <1>1, <1>5, <2>2 DEF BeginAttempt
<1>6. CASE BeginWrite(p) \/ BeginAgain(p)
  <2>1. goal[p] \in SUBSET Key
    BY <1>1
  <2> QED
    BY <1>5, <1>6, <2>1 DEF BeginWrite, BeginAgain
<1>7. CASE \/ GiveUp(p) \/ FlushBegin(p) \/ EndWrite(p) \/ CloseWrite(p) \/ EndRead(p) \/ AtomicWrite(p)
           \/ \E k \in Key : CommitFound(p, k) \/ CommitStamp(p, k) \/ Load(p, k)
  BY <1>1, <1>7 DEF GiveUp, FlushBegin, EndWrite, CloseWrite, EndRead, AtomicWrite,
                    CommitFound, CommitStamp, Load
<1>8. CASE \E h \in Hash : Dedup(p, h) \/ FlushRename(p, h)
  BY <1>1, <1>8 DEF Dedup, FlushRename
<1>9. ASSUME NEW h \in Hash, Stage(p, h) PROVE QuotaType'
  <2>1. BlobBytes + Allowance \in Nat
    BY <1>2
  <2>2. reserved' \in [Proc -> Nat]
    BY <1>3, <1>9, <2>1 DEF Stage
  <2> QED
    BY <1>1, <1>9, <2>2 DEF Stage
<1>10. CASE CommitIntent(p)
  <2>1. CommitBytes + Allowance \in Nat
    BY <1>2
  <2>2. reserved' \in [Proc -> Nat]
    BY <1>3, <1>10, <2>1 DEF CommitIntent
  <2> QED
    BY <1>1, <1>10, <2>2 DEF CommitIntent
<1>11. CASE FlushCommit(p)
  <2>1. renamed[p] \in SUBSET Hash
    BY <1>1
  <2>2. BlobBytes * Cardinality(renamed[p]) \in Nat
    BY <2>1, FiniteParts DEF Weigh
  <2>3. reserved' \in [Proc -> Nat]
    BY <1>4, <1>11, <2>2 DEF FlushCommit
  <2> QED
    BY <1>1, <1>11, <2>1, <2>3 DEF FlushCommit
<1>12. CASE CommitReturn(p)
  <2>1. reserved' \in [Proc -> Nat]
    BY <1>2, <1>4, <1>12 DEF CommitReturn
  <2> QED
    BY <1>1, <1>12, <2>1 DEF CommitReturn
<1>13. CASE IndexRecord(p)
  <2>1. target[p] \in Key
    BY <1>1, <1>13 DEF IndexRecord, Publication, Publish
  <2>2. Content[target[p]] \in SUBSET Hash
    BY <1>2, <2>1
  <2> QED
    BY <1>1, <1>13, <2>2 DEF IndexRecord
<1> QED
  BY <1>6, <1>7, <1>8, <1>9, <1>10, <1>11, <1>12, <1>13

\* .. of the collector ..
LEMMA CollectorQuotaType ==
  ASSUME QuotaType, NEW p \in Proc,
         \/ MaintainBusy(p) \/ Maintain(p) \/ RebuildIndex(p) \/ Open(p)
         \/ \E k \in Key : GcWithdraw(p, k) \/ RecoverIndex(p, k)
         \/ \E h \in Hash : GcRemove(p, h)
         \/ GcSweep(p) \/ GcCommit(p) \/ GcRefuse(p) \/ GcAbort(p)
         \/ RecoverWipe(p) \/ RecoverReclaim(p)
  PROVE  QuotaType'
<1> USE StoreAssumption DEF QuotaType, disk, index, batch, session, collector, Begun, NoTx
<1>1. CASE MaintainBusy(p) \/ Maintain(p) \/ RebuildIndex(p) \/ Open(p)
  BY <1>1 DEF MaintainBusy, Maintain, RebuildIndex, Open
<1>2. CASE \E k \in Key : GcWithdraw(p, k)
  BY <1>2 DEF GcWithdraw
<1>3. CASE \E k \in Key : RecoverIndex(p, k)
  BY <1>3 DEF RecoverIndex
<1>4. CASE \E h \in Hash : GcRemove(p, h)
  BY <1>4 DEF GcRemove
<1>5. CASE GcSweep(p) \/ GcCommit(p) \/ GcRefuse(p) \/ GcAbort(p)
  BY <1>5 DEF GcSweep, GcCommit, GcRefuse, GcAbort
<1>6. CASE RecoverWipe(p)
  BY <1>6 DEF RecoverWipe
<1>7. CASE RecoverReclaim(p)
  BY <1>7 DEF RecoverReclaim
<1> QED
  BY <1>1, <1>2, <1>3, <1>4, <1>5, <1>6, <1>7

\* .. and of a fault.
LEMMA FaultQuotaType ==
  ASSUME StoreInv, QuotaInv, (\E p \in Proc : Kill(p)) \/ PowerLoss \/ LoseIndex
  PROVE  QuotaType'
<1>1. QuotaType
  BY DEF QuotaInv
<1>2. ASSUME NEW P \in SUBSET Proc, Killed(P) PROVE QuotaType'
  <2>1. leaked' \in Nat /\ abandoned' \in Nat
    <3>1. PICK a \in Nat, b \in Nat : /\ a = SumFunctionOnSet(Staged, P)
                                      /\ b = SumFunctionOnSet(reserved, P)
      BY KilledNumbers
    <3>2. leaked' = leaked + a /\ abandoned' = abandoned + b
      BY <1>2, <3>1, KilledSums, Zenon
    <3> QED
      BY <1>1, <3>2 DEF QuotaType
  <2>2. objects' \subseteq Hash /\ tx'.objects \subseteq Hash
    BY <1>1, <1>2, KilledFacts DEF QuotaType, NoTx, collector
  <2>3. reserved' \in [Proc -> Nat] /\ renamed' \in [Proc -> SUBSET Hash] /\ goal' \in [Proc -> SUBSET Key]
    BY <1>1, <1>2, KilledSums DEF QuotaType
  <2> QED
    BY <2>1, <2>2, <2>3 DEF QuotaType
<1>3. ASSUME NEW p \in Proc, Kill(p) PROVE QuotaType'
  BY <1>2, <1>3 DEF Kill
<1>4. CASE PowerLoss
  BY <1>2, <1>4 DEF PowerLoss
<1>5. CASE LoseIndex
  BY <1>1, <1>5 DEF LoseIndex, QuotaType, disk, session, batch, collector
<1> QED
  BY <1>3, <1>4, <1>5

\* Every step keeps the types ..
LEMMA QuotaTypeKeeps ==
  ASSUME StoreInv, QuotaInv, [Next]_vars
  PROVE  QuotaType'
<1>1. ASSUME NEW p \in Proc, Step(p) PROVE QuotaType'
  BY <1>1, SessionQuotaType, CollectorQuotaType DEF Step, QuotaInv
<1>2. CASE UNCHANGED vars
  BY <1>2 DEF QuotaInv, QuotaType, vars, disk, index, session, batch, collector
<1> QED
  BY <1>1, <1>2, FaultQuotaType DEF Next

\* .. and every step of a process the quota ..
LEMMA StepQuota ==
  ASSUME StoreInv, StoreType', QuotaInv, QuotaType', NEW p \in Proc, Step(p)
  PROVE  QuotaInv'
<1>1. CASE BeginWrite(p) \/ BeginAgain(p)
  <2>1. goal[p] \in SUBSET Key
    BY DEF QuotaInv, QuotaType
  <2>2. PICK g \in SUBSET Key, s \in {"maintain", "failed"} :
          BeginAttempt(p, g, s) /\ pc[p] \in {"idle", "retry"}
    BY <1>1, <2>1 DEF BeginWrite, BeginAgain
  <2> QED
    BY <2>2, BeginQuota
<1>2. CASE \/ GiveUp(p) \/ CloseWrite(p) \/ EndRead(p) \/ \E k \in Key : Load(p, k)
           \/ MaintainBusy(p) \/ Maintain(p) \/ RebuildIndex(p) \/ Open(p)
  BY <1>2, OutsideSteps
<1>3. CASE \/ \E h \in Hash : Dedup(p, h)
           \/ FlushBegin(p) \/ IndexRecord(p)
           \/ \E k \in Key : CommitFound(p, k) \/ CommitStamp(p, k)
  BY <1>3, WritingSteps
<1>4. CASE \E h \in Hash : Stage(p, h) \/ FlushRename(p, h)
  BY <1>4, StageQuota, FlushRenameQuota
<1>5. CASE FlushCommit(p) \/ CommitIntent(p) \/ AtomicWrite(p) \/ CommitReturn(p) \/ EndWrite(p)
  BY <1>5, FlushCommitQuota, CommitIntentQuota, AtomicWriteQuota, CommitReturnQuota, EndWriteQuota
<1>6. CASE \/ \E k \in Key : GcWithdraw(p, k)
           \/ \E h \in Hash : GcRemove(p, h)
           \/ GcSweep(p) \/ GcCommit(p) \/ GcRefuse(p) \/ GcAbort(p)
  BY <1>6, GcQuota
<1>7. CASE RecoverWipe(p) \/ (\E k \in Key : RecoverIndex(p, k)) \/ RecoverReclaim(p)
  BY <1>7, RecoverQuota
<1> QED
  BY <1>1, <1>2, <1>3, <1>4, <1>5, <1>6, <1>7 DEF Step

\* .. as does every fault.
LEMMA QuotaKeeps ==
  ASSUME StoreInv, QuotaInv, ~RecoverKills, [Next]_vars
  PROVE  QuotaInv'
<1>1. StoreType' /\ QuotaType'
  BY TypeKeeps, QuotaTypeKeeps
<1>2. CASE \E p \in Proc : Step(p)
  BY <1>1, <1>2, StepQuota
<1>3. ASSUME NEW p \in Proc, Kill(p) PROVE QuotaInv'
  BY <1>1, <1>3, KilledQuota DEF Kill
<1>4. CASE PowerLoss
  <2>1. cached = {} /\ blobs \in [Hash -> {"none", "good", "bad"}]
    BY DEF StoreInv, StoreType
  <2>2. UNCHANGED blobs /\ Killed(Proc)
    BY <1>4, <2>1 DEF PowerLoss
  <2> QED
    BY <1>1, <2>2, KilledQuota
<1>5. CASE LoseIndex
  BY <1>1, <1>5, IdleQuota DEF LoseIndex
<1>6. CASE UNCHANGED vars
  BY <1>1, <1>6, IdleQuota DEF vars, index
<1> QED
  BY <1>2, <1>3, <1>4, <1>5, <1>6 DEF Next

\* The files of the cache, those staged or left behind by dead sessions among
\* them, never take more than limitBytes (Reserve, Consume, ~State, RunGC).
THEOREM StoreQuota == ASSUME ~RecoverKills PROVE Spec => []QuotaKept
<1>1. ASSUME StoreInv, QuotaInv PROVE QuotaKept
  <2>1. PICK a, x, y : /\ a = Bytes(commits, Present) /\ x = SumFunctionOnSet(Staged, Proc)
                       /\ y = SumFunctionOnSet(Claims, Proc)
    OBVIOUS
  <2>2. x \in Int /\ y \in Int /\ x <= y
    BY <1>1, <2>1, QuotaNumbers
  <2>3. commits \in [Key -> Nat] /\ Present \in SUBSET Hash
    BY <1>1 DEF StoreInv, StoreType, Present
  <2>4. a \in Nat /\ leaked \in Nat /\ Limit \in Nat
    BY <1>1, <2>1, <2>3, BytesNat, FiniteParts DEF QuotaInv, QuotaType
  <2>5. a + leaked + y <= Limit
    BY <1>1, <2>1, Zenon DEF QuotaInv, Taken
  <2>6. OnDisk = a + leaked + x
    BY <2>1, Zenon DEF OnDisk
  <2> QED
    BY <2>2, <2>4, <2>5, <2>6 DEF QuotaKept
<1>2. QuotaInv /\ StoreInv /\ ~RecoverKills /\ [Next]_vars => QuotaInv'
  BY QuotaKeeps
<1> QED
  BY <1>1, <1>2, InitQuota, StoreInvariant, PTL DEF Spec
=============================================================================
