------------------------- MODULE PrefixExportProofs -------------------------
(***************************************************************************)
(* Proofs about PrefixExport for any requests, ranks, lengths and budgets. *)
(* The jobs of a request that did not fail follow each other without a     *)
(* gap: each begins where the one before it ended, the first where the     *)
(* exported references end, and the last ends at what was issued.  What is *)
(* charged for them is counted job by job at the end of the module.        *)
(***************************************************************************)
EXTENDS PrefixExport, SequenceTheorems, FiniteSetTheorems, WellFoundedInduction, TLAPS

Job == [of : Request \cup {NoRequest}, length : Nat, mark : BOOLEAN, bytes : Nat,
        left : [Rank -> SUBSET Nat], out : {<<>>} \cup (Rank \X Nat \X Nat)]

Exporting == {"opened", "copy", "copied", "store", "commit"}
WorkerPlaces == {"loop", "exited", "notify", "begin", "settle"} \cup Exporting

ExportType ==
  /\ live \subseteq Request /\ capture \in Request \cup {NoRequest}
  /\ cacheLen \in [Request -> Nat] /\ computed \in [Request -> Nat] /\ issued \in [Request -> Nat]
  /\ failed \in [Request -> BOOLEAN] /\ writer \in [Request -> BOOLEAN]
  /\ inherited \in [Request -> BOOLEAN]
  /\ kv \in [Request -> [Rank -> Seq(Nat)]]
  /\ queue \in Seq(Job) /\ job \in Job
  /\ worker \in WorkerPlaces

\* The chunks 1 .. n, in order.
Whole(n) == [i \in 1..n |-> i]

\* The bundles of r stored for rank k.
Stored(r, k) == Len(kv[r][k])

\* A capture that waits has something new.
Captures == capture # NoRequest => capture \in live /\ computed[capture] > issued[capture]

Within(j) == j.of # NoRequest => 0 < j.length /\ j.length <= issued[j.of]

Jobs == (\A n \in DOMAIN queue : Within(queue[n])) /\ (Working => Within(job))

\* The worker exports a request that did not fail, in a write session.
Sessions == worker \in Exporting => job.of \in Request /\ ~failed[job.of] /\ writer[job.of]

\* What is left of the job in hand, and the bundle that is on its way.
InHand ==
  Working /\ job.of \in Request /\ ~failed[job.of] =>
    /\ \A k \in Rank :
         /\ Stored(job.of, k) <= job.length
         /\ job.left[k] = Stored(job.of, k) + (IF worker = "store" /\ k = job.out[1] THEN 2 ELSE 1)
                            ..job.length
         /\ worker \in {"commit", "settle"} => Stored(job.of, k) = job.length
    /\ worker \in {"copied", "store"} =>
         /\ job.out[1] \in Rank
         /\ job.out[2] = Stored(job.of, job.out[1]) + 1 /\ job.out[3] = job.out[2]
         /\ job.out[2] <= job.length

\* Where the jobs of r that are queued begin.
Base(r, k) == IF Working /\ job.of = r THEN job.length ELSE Stored(r, k)

Starts(n, k, from) == from < queue[n].length /\ queue[n].left[k] = from + 1..queue[n].length

Chain(r) ==
  /\ \A n \in DOMAIN queue : queue[n].of = r =>
       /\ (\A i \in 1..n - 1 : queue[i].of # r) => \A k \in Rank : Starts(n, k, Base(r, k))
       /\ \A m \in 1..n - 1 : queue[m].of = r /\ (\A i \in m + 1..n - 1 : queue[i].of # r) =>
            \A k \in Rank : Starts(n, k, queue[m].length)
       /\ (\A i \in n + 1..Len(queue) : queue[i].of # r) => queue[n].length = issued[r]
  /\ r \in live /\ (\A n \in DOMAIN queue : queue[n].of # r) =>
       \A k \in Rank : Base(r, k) = issued[r]

\* Of a request that did not fail, nothing is missing and nothing comes twice.
Gapless(r) == ~failed[r] => Chain(r) /\ \A k \in Rank : kv[r][k] = Whole(Stored(r, k))

ExportInv ==
  /\ ExportType /\ Captures /\ Jobs /\ Sessions /\ InHand
  /\ \A r \in Request : Gapless(r)
  /\ WholeCheckpoints /\ RefsLeased
-----------------------------------------------------------------------------
LEMMA MinOf ==
  ASSUME NEW S \in SUBSET Nat, S # {}
  PROVE  Min(S) \in S /\ \A y \in S : Min(S) <= y
<1> DEFINE R == OpToRel(<, Nat)
<1>1. IsWellFoundedOn(R, Nat)
  BY NatLessThanWellFounded, Zenon
<1>2. \A y \in S, m \in S : <<y, m>> \notin R => m <= y
  BY DEF OpToRel
<1> HIDE DEF R
<1>3. PICK m \in S : \A y \in S : <<y, m>> \notin R
  BY <1>1, WFMin
<1>4. \A y \in S : m <= y
  BY <1>2, <1>3
<1> QED
  BY <1>4 DEF Min

LEMMA JobsTyped ==
  ASSUME ExportType, NEW r \in Request, capture = r
  PROVE  NoJob \in Job /\ ImageJob \in Job /\ CaptureJob(r, issued[r], computed[r]) \in Job
<1>1. NoJob \in Job
  BY ExportAssumption DEF NoJob, Job, Rank
<1>2. ImageJob \in Job
  BY <1>1, ExportAssumption DEF ImageJob, NoJob, Job, Rank
<1>3. issued[r] \in Nat /\ computed[r] \in Nat /\ issued[r] + 1..computed[r] \subseteq Nat
  BY DEF ExportType
<1>4. CaptureJob(r, issued[r], computed[r]) \in Job
  BY <1>3, ExportAssumption DEF CaptureJob, Job, Rank
<1> QED
  BY <1>1, <1>2, <1>4

\* The chain of r stays as it is as long as its bounds do.
LEMMA ChainKept ==
  ASSUME NEW r \in Request, Chain(r), queue' = queue, issued'[r] = issued[r],
         r \in live' => r \in live, \A k \in Rank : Base(r, k)' = Base(r, k)
  PROVE  Chain(r)'
<1>1. \A n : \A k \in Rank : Starts(n, k, Base(r, k))' <=> Starts(n, k, Base(r, k))
  BY Zenon DEF Starts
<1>2. \A n, m : \A k \in Rank : Starts(n, k, queue[m].length)' <=> Starts(n, k, queue[m].length)
  BY Zenon DEF Starts
<1>3. \A n \in DOMAIN queue' : queue'[n].of = r =>
        /\ (\A i \in 1..n - 1 : queue'[i].of # r) => \A k \in Rank : Starts(n, k, Base(r, k))'
        /\ \A m \in 1..n - 1 : queue'[m].of = r /\ (\A i \in m + 1..n - 1 : queue'[i].of # r) =>
             \A k \in Rank : Starts(n, k, queue[m].length)'
        /\ (\A i \in n + 1..Len(queue') : queue'[i].of # r) => queue'[n].length = issued'[r]
  BY <1>1, <1>2, Zenon DEF Chain
<1>4. r \in live' /\ (\A n \in DOMAIN queue' : queue'[n].of # r) =>
        \A k \in Rank : Base(r, k)' = issued'[r]
  BY Zenon DEF Chain
<1> QED
  BY <1>3, <1>4, Zenon DEF Chain

\* A step that touches neither the queue, the job, nor what is stored.
LEMMA SameInv ==
  ASSUME ExportInv, UNCHANGED <<live, state, queue, job, committed>>,
         cacheLen' \in [Request -> Nat], computed' \in [Request -> Nat],
         capture' \in Request \cup {NoRequest}, Captures',
         worker' = worker \/ {worker, worker'} \subseteq {"loop", "exited", "notify"}
  PROVE  ExportInv'
<1> USE DEF state
<1>0. (Working' <=> Working) /\ worker' \in WorkerPlaces
      /\ (worker' \in Exporting => worker' = worker) /\ (Working => worker' = worker)
  BY DEF Working, Exporting, WorkerPlaces, ExportInv, ExportType
<1>1. ExportType' /\ Sessions'
  BY <1>0 DEF ExportInv, ExportType, Sessions
<1>2. Jobs'
  BY <1>0 DEF ExportInv, Jobs, Within
<1>3. InHand'
  BY <1>0 DEF ExportInv, InHand, Stored
<1>4. \A r \in Request : Gapless(r)'
  <2> SUFFICES ASSUME NEW r \in Request
               PROVE  Gapless(r)'
    OBVIOUS
  <2>1. \A k \in Rank : Base(r, k)' = Base(r, k)
    BY <1>0 DEF Base, Stored
  <2>2. Chain(r) => Chain(r)'
    BY <2>1, ChainKept
  <2> QED
    BY <2>2 DEF ExportInv, Gapless, Stored, Whole
<1>5. WholeCheckpoints' /\ RefsLeased'
  BY DEF ExportInv, WholeCheckpoints, RefsLeased
<1> QED
  BY <1>1, <1>2, <1>3, <1>4, <1>5 DEF ExportInv

LEMMA InitExport == Init => ExportInv
<1> SUFFICES ASSUME Init PROVE ExportInv
  OBVIOUS
<1>1. NoJob \in Job
  BY ExportAssumption DEF NoJob, Job, Rank
<1>2. ~Working
  BY DEF Init, Working
<1>3. kv \in [Request -> [Rank -> Seq(Nat)]]
  BY DEF Init, NoKv
<1>4. ExportType
  BY <1>1, <1>3, ExportAssumption DEF Init, ExportType, WorkerPlaces
<1>5. Captures /\ Jobs /\ Sessions /\ InHand
  BY <1>2 DEF Init, Captures, Jobs, Sessions, InHand, Exporting
<1>6. ASSUME NEW r \in Request
      PROVE  Gapless(r)
  <2>1. \A k \in Rank : Stored(r, k) = 0 /\ kv[r][k] = <<>>
    BY DEF Init, NoKv, Stored
  <2>2. \A k \in Rank : kv[r][k] = Whole(Stored(r, k))
    BY <2>1 DEF Whole
  <2>3. Chain(r)
    BY <1>2, <2>1 DEF Init, Chain, Base
  <2> QED
    BY <2>2, <2>3 DEF Gapless
<1>7. WholeCheckpoints /\ RefsLeased
  BY DEF Init, WholeCheckpoints, RefsLeased
<1> QED
  BY <1>4, <1>5, <1>6, <1>7 DEF ExportInv
-----------------------------------------------------------------------------
(* The worker between Take and Settle *)

\* As long as the job in hand is the same, the chains are.
LEMMA WorkSteps ==
  ASSUME ExportInv, UNCHANGED <<requests, issued, queue>>, Working, Working',
         job'.of = job.of, job'.length = job.length,
         \A r \in Request \ {job.of} : kv'[r] = kv[r]
  PROVE  Captures' /\ Jobs' /\ \A r \in Request : Chain(r) => Chain(r)'
<1> USE DEF requests
<1>1. Captures'
  BY DEF ExportInv, Captures
<1>2. Jobs'
  BY DEF ExportInv, Jobs, Within
<1>3. ASSUME NEW r \in Request, Chain(r)
      PROVE  Chain(r)'
  <2>1. \A k \in Rank : Base(r, k)' = Base(r, k)
    BY DEF Base, Stored
  <2> QED
    BY <1>3, <2>1, ChainKept
<1> QED
  BY <1>1, <1>2, <1>3

\* A step that moves the worker and leaves what it works on.
LEMMA MoveKeeps ==
  ASSUME ExportInv, UNCHANGED <<requests, issued, queue, job, kv>>, Working,
         worker' \in WorkerPlaces \ {"loop", "exited", "notify"},
         failed' \in [Request -> BOOLEAN], \A r \in Request : failed[r] => failed'[r],
         writer' \in [Request -> BOOLEAN], inherited' \in [Request -> BOOLEAN],
         worker' \in Exporting => worker \in {"begin"} \cup Exporting /\ job.of \in Request
                                  /\ ~failed'[job.of] /\ writer'[job.of],
         worker' \notin {"copied", "store"}, worker # "store" \/ failed'[job.of],
         worker' \in {"commit", "settle"} /\ job.of \in Request /\ ~failed'[job.of] =>
           \A k \in Rank : Stored(job.of, k) = job.length,
         committed' = committed,
         \A r \in Request : kv[r] # NoKv => writer'[r] \/ inherited'[r]
  PROVE  ExportInv'
<1>1. Working'
  BY DEF Working, WorkerPlaces, Exporting
<1>2. Captures' /\ Jobs' /\ \A r \in Request : Chain(r) => Chain(r)'
  BY <1>1, WorkSteps
<1>3. ExportType'
  BY DEF ExportInv, ExportType, requests
<1>4. Sessions'
  BY DEF ExportInv, Sessions
<1>5. InHand'
  <2> SUFFICES ASSUME job.of \in Request, ~failed'[job.of]
               PROVE  InHand'
    BY DEF InHand
  <2>1. ~failed[job.of]
    OBVIOUS
  <2> QED
    BY <2>1 DEF ExportInv, InHand, Stored
<1>6. \A r \in Request : Gapless(r)'
  BY <1>2 DEF ExportInv, Gapless, Stored, Whole
<1>7. WholeCheckpoints' /\ RefsLeased'
  BY DEF ExportInv, WholeCheckpoints, RefsLeased
<1> QED
  BY <1>2, <1>3, <1>4, <1>5, <1>6, <1>7 DEF ExportInv

LEMMA BeginKeeps ==
  ASSUME ExportInv, BeginWrite
  PROVE  ExportInv'
<1> USE DEF BeginWrite, Go, pipeline
<1>1. Working /\ worker' \in WorkerPlaces /\ job.of \in Request
  BY DEF Working, WorkerPlaces, Exporting, ExportInv, ExportType, Job
<1>2. writer' \in [Request -> BOOLEAN] /\ writer'[job.of]
      /\ \A r \in Request : writer[r] => writer'[r]
  BY <1>1 DEF ExportInv, ExportType
<1>3. failed' \in [Request -> BOOLEAN] /\ inherited' \in [Request -> BOOLEAN]
  BY DEF ExportInv, ExportType
<1>4. \A r \in Request : kv[r] # NoKv => writer'[r] \/ inherited'[r]
  BY <1>2 DEF ExportInv, RefsLeased
<1> QED
  BY <1>1, <1>2, <1>3, <1>4, MoveKeeps DEF Exporting, history

LEMMA ResetKeeps ==
  ASSUME ExportInv, ResetInherited
  PROVE  ExportInv'
<1> USE DEF ResetInherited, Go, pipeline
<1>1. Working /\ worker' \in WorkerPlaces
  BY DEF Working, WorkerPlaces, Exporting
<1>2. job.of \in Request /\ ~failed[job.of] /\ writer[job.of]
  BY DEF ExportInv, Sessions, Exporting
<1>3. failed' \in [Request -> BOOLEAN] /\ writer' \in [Request -> BOOLEAN]
      /\ inherited' \in [Request -> BOOLEAN]
  BY <1>2 DEF ExportInv, ExportType
<1>4. \A r \in Request : kv[r] # NoKv => writer'[r] \/ inherited'[r]
  BY <1>2 DEF ExportInv, ExportType, RefsLeased
<1> QED
  BY <1>1, <1>2, <1>3, <1>4, MoveKeeps DEF Exporting, history

LEMMA OtherKeeps ==
  ASSUME ExportInv, ExportOther
  PROVE  ExportInv'
<1> USE DEF ExportOther, Go, pipeline, state
<1>1. Working /\ worker' \in WorkerPlaces \ Exporting
  BY DEF Working, WorkerPlaces, Exporting
<1>2. job.of \in Request => failed[job.of]
  BY ExportAssumption
<1>3. failed \in [Request -> BOOLEAN] /\ writer \in [Request -> BOOLEAN]
      /\ inherited \in [Request -> BOOLEAN]
      /\ \A r \in Request : kv[r] # NoKv => writer[r] \/ inherited[r]
  BY DEF ExportInv, ExportType, RefsLeased
<1> QED
  BY <1>1, <1>2, <1>3, MoveKeeps DEF history, Exporting
LEMMA FailsKeeps ==
  ASSUME ExportInv, ExportFails
  PROVE  ExportInv'
<1> USE DEF ExportFails, Go, pipeline
<1>1. Working /\ worker' \in WorkerPlaces \ Exporting /\ worker' \notin {"loop", "exited", "notify"}
  BY DEF WorkerPlaces, Exporting
<1>2. job.of \in Request => failed'[job.of]
  BY ExportAssumption DEF ExportInv, ExportType
<1>3. failed' \in [Request -> BOOLEAN] /\ \A r \in Request : failed[r] => failed'[r]
  BY DEF ExportInv, ExportType, Job
<1>4. worker = "store" => job.of \in Request
  BY DEF ExportInv, Sessions, Exporting
<1>5. writer \in [Request -> BOOLEAN] /\ inherited \in [Request -> BOOLEAN]
      /\ \A r \in Request : kv[r] # NoKv => writer[r] \/ inherited[r]
  BY DEF ExportInv, ExportType, RefsLeased
<1> QED
  BY <1>1, <1>2, <1>3, <1>4, <1>5, MoveKeeps DEF history, Exporting

\* Of the job in hand, which did not fail, everything is still to come or stored.
LEMMA Whereabouts ==
  ASSUME ExportInv, worker \in Exporting
  PROVE  /\ Working /\ job.of \in Request /\ ~failed[job.of] /\ writer[job.of]
         /\ job \in Job /\ \A k \in Rank : Stored(job.of, k) \in Nat
         /\ \A k \in Rank :
              /\ Stored(job.of, k) <= job.length
              /\ job.left[k] = Stored(job.of, k)
                               + (IF worker = "store" /\ k = job.out[1] THEN 2 ELSE 1)..job.length
              /\ worker \in {"commit", "settle"} => Stored(job.of, k) = job.length
         /\ worker \in {"copied", "store"} =>
              /\ job.out[1] \in Rank
              /\ job.out[2] = Stored(job.of, job.out[1]) + 1 /\ job.out[3] = job.out[2]
              /\ job.out[2] <= job.length
<1>1. Working
  BY DEF Working, Exporting
<1>2. job.of \in Request /\ ~failed[job.of] /\ writer[job.of]
  BY DEF ExportInv, Sessions
<1>3. job \in Job /\ \A k \in Rank : Stored(job.of, k) \in Nat
  BY <1>2 DEF ExportInv, ExportType, Stored
<1> QED
  BY <1>1, <1>2, <1>3 DEF ExportInv, InHand

LEMMA ExportedKeeps ==
  ASSUME ExportInv, Exported
  PROVE  ExportInv'
<1> USE DEF Exported, Go, pipeline, state
<1>1. worker \in Exporting /\ worker' \in {"commit", "settle"}
  BY DEF Exporting
<1>2. \A k \in Rank : Stored(job.of, k) = job.length
  <2> SUFFICES ASSUME NEW k \in Rank
               PROVE  Stored(job.of, k) = job.length
    OBVIOUS
  <2>1. job.left[k] = {}
    BY DEF LeftRanks
  <2>2. Stored(job.of, k) + 1..job.length = {} /\ Stored(job.of, k) <= job.length
    BY <1>1, <2>1, Whereabouts
  <2>3. Stored(job.of, k) \in Nat /\ job.length \in Nat
    BY <1>1, Whereabouts DEF Job
  <2> QED
    BY <2>2, <2>3
<1>3. failed \in [Request -> BOOLEAN] /\ writer \in [Request -> BOOLEAN]
      /\ inherited \in [Request -> BOOLEAN]
      /\ \A r \in Request : kv[r] # NoKv => writer[r] \/ inherited[r]
  BY DEF ExportInv, ExportType, RefsLeased
<1>4. Working /\ job.of \in Request /\ ~failed[job.of] /\ writer[job.of]
  BY <1>1, Whereabouts
<1>5. worker' \in WorkerPlaces \ {"loop", "exited", "notify"}
  BY <1>1 DEF WorkerPlaces, Exporting
<1> QED
  BY <1>1, <1>2, <1>3, <1>4, <1>5, MoveKeeps DEF history

LEMMA CommitKeeps ==
  ASSUME ExportInv, Commit
  PROVE  ExportInv'
<1> USE DEF Commit, Go, pipeline, state
<1>1. worker \in Exporting /\ worker' \in WorkerPlaces /\ Working'
  BY DEF Exporting, WorkerPlaces, Working
<1>2. Working /\ job.of \in Request /\ ~failed[job.of]
      /\ \A k \in Rank : Stored(job.of, k) = job.length
  BY <1>1, Whereabouts
<1>3. kv[job.of] = [k \in Rank |-> [i \in 1..job.length |-> i]]
  <2>1. \A k \in Rank : kv[job.of][k] = [i \in 1..job.length |-> i]
    BY <1>2 DEF ExportInv, Gapless, Whole
  <2>2. kv[job.of] \in [Rank -> Seq(Nat)]
    BY <1>2 DEF ExportInv, ExportType
  <2> QED
    BY <2>1, <2>2
<1>4. WholeCheckpoints'
  <2> SUFFICES ASSUME NEW c \in committed'
               PROVE  c.kv = [k \in Rank |-> [i \in 1..c.length |-> i]]
    BY Zenon DEF WholeCheckpoints
  <2>1. CASE c \in committed
    BY <2>1, Zenon DEF ExportInv, WholeCheckpoints
  <2>2. CASE c = [length |-> job.length, kv |-> kv[job.of]]
    <3>1. c.length = job.length /\ c.kv = kv[job.of]
      BY <2>2
    <3> QED
      BY <1>3, <3>1, Zenon
  <2> QED
    BY <2>1, <2>2
<1>5. Captures' /\ Jobs' /\ \A r \in Request : Chain(r) => Chain(r)'
  BY <1>1, <1>2, WorkSteps
<1>6. ExportType' /\ Sessions' /\ RefsLeased'
  BY <1>1 DEF ExportInv, ExportType, Sessions, RefsLeased, requests, Exporting
<1>7. InHand'
  BY <1>2 DEF ExportInv, InHand, Stored
<1>8. \A r \in Request : Gapless(r)'
  BY <1>5 DEF ExportInv, Gapless, Stored, Whole
<1> QED
  BY <1>4, <1>5, <1>6, <1>7, <1>8 DEF ExportInv

LEMMA CopyKeeps ==
  ASSUME ExportInv, CopyBundle
  PROVE  ExportInv'
<1> DEFINE k == Min(LeftRanks)
           i == Min(job.left[k])
<1> USE DEF CopyBundle, Go, pipeline, state
<1>1. worker \in Exporting /\ worker' \in WorkerPlaces /\ Working'
  BY DEF Exporting, WorkerPlaces, Working
<1>2. Working /\ job.of \in Request /\ ~failed[job.of] /\ job \in Job
  BY <1>1, Whereabouts
<1>3. k \in Rank /\ job.left[k] # {}
  <2>1. LeftRanks \in SUBSET Nat
    BY DEF LeftRanks, Rank
  <2>2. k \in LeftRanks
    BY <2>1, MinOf
  <2> QED
    BY <2>2 DEF LeftRanks
<1>4. i \in job.left[k] /\ (\A y \in job.left[k] : i <= y) /\ i \in Nat
  <2>1. job.left[k] \in SUBSET Nat
    BY <1>2, <1>3 DEF Job
  <2> HIDE DEF k
  <2> QED
    BY <1>3, <2>1, MinOf
<1> HIDE DEF k, i
<1>5. Held(job.of, k, i)
  BY <1>2, <1>4 DEF Held, Charged
<1>6. job' = [job EXCEPT !.out = <<k, i, i>>]
  BY <1>5 DEF k, i
<1>7. /\ job' \in Job /\ job'.of = job.of /\ job'.length = job.length /\ job'.left = job.left
      /\ job'.out[1] = k /\ job'.out[2] = i /\ job'.out[3] = i
  BY <1>2, <1>3, <1>4, <1>6 DEF Job
<1>8. i = Stored(job.of, k) + 1 /\ i <= job.length
  <2>1. job.left[k] = Stored(job.of, k) + 1..job.length
    BY <1>1, <1>3, Whereabouts
  <2>2. Stored(job.of, k) \in Nat /\ job.length \in Nat
    BY <1>1, <1>3, Whereabouts DEF Job
  <2>3. Stored(job.of, k) + 1 \in job.left[k]
    BY <1>4, <2>1, <2>2
  <2> QED
    BY <1>4, <2>1, <2>2, <2>3
<1>9. Captures' /\ Jobs' /\ \A r \in Request : Chain(r) => Chain(r)'
  BY <1>1, <1>2, <1>7, WorkSteps
<1>10. ExportType' /\ Sessions' /\ RefsLeased' /\ WholeCheckpoints'
  BY <1>1, <1>7 DEF ExportInv, ExportType, Sessions, RefsLeased, WholeCheckpoints, requests,
                    history
<1>11. InHand'
  <2>1. /\ \A x \in Rank : /\ Stored(job.of, x) <= job.length
                           /\ job.left[x] = Stored(job.of, x) + 1..job.length
    BY <1>1, Whereabouts
  <2> QED
    BY <1>3, <1>7, <1>8, <2>1 DEF InHand, Stored
<1>12. \A r \in Request : Gapless(r)'
  BY <1>9 DEF ExportInv, Gapless, Stored, Whole
<1> QED
  BY <1>9, <1>10, <1>11, <1>12 DEF ExportInv
LEMMA ReleaseKeeps ==
  ASSUME ExportInv, ReleasePages
  PROVE  ExportInv'
<1> DEFINE k == job.out[1]
           i == job.out[2]
<1> USE DEF ReleasePages, Go, state
<1>1. worker \in Exporting /\ worker' \in WorkerPlaces /\ Working' /\ worker' = "store"
  BY DEF Exporting, WorkerPlaces, Working
<1>2. Working /\ job.of \in Request /\ ~failed[job.of] /\ job \in Job
  BY <1>1, Whereabouts
<1>3. k \in Rank /\ i = Stored(job.of, k) + 1 /\ job.out[3] = i /\ i <= job.length
  BY <1>1, Whereabouts
<1>4. /\ job' \in Job /\ job'.of = job.of /\ job'.length = job.length /\ job'.out = job.out
      /\ job'.left = [job.left EXCEPT ![k] = @ \ {i}]
  BY <1>2, <1>3 DEF Job
<1>5. Captures' /\ Jobs' /\ \A r \in Request : Chain(r) => Chain(r)'
  BY <1>1, <1>2, <1>4, WorkSteps
<1>6. ExportType' /\ Sessions' /\ RefsLeased' /\ WholeCheckpoints'
  BY <1>1, <1>4 DEF ExportInv, ExportType, Sessions, RefsLeased, WholeCheckpoints, requests,
                    history
<1>7. \A x \in Rank :
        /\ Stored(job.of, x) <= job.length
        /\ job'.left[x] = Stored(job.of, x) + (IF x = k THEN 2 ELSE 1)..job.length
  <2> SUFFICES ASSUME NEW x \in Rank
               PROVE  /\ Stored(job.of, x) <= job.length
                      /\ job'.left[x] = Stored(job.of, x) + (IF x = k THEN 2 ELSE 1)..job.length
    OBVIOUS
  <2>1. /\ Stored(job.of, x) <= job.length
        /\ job.left[x] = Stored(job.of, x) + 1..job.length
        /\ Stored(job.of, x) \in Nat /\ job.length \in Nat
    BY <1>1, Whereabouts DEF Job
  <2>2. CASE x = k
    <3>1. job'.left[x] = job.left[x] \ {i} /\ i = Stored(job.of, x) + 1
      BY <1>2, <1>3, <1>4, <2>2 DEF Job
    <3>2. \A a \in Nat, b \in Nat : (a + 1..b) \ {a + 1} = a + 2..b
      OBVIOUS
    <3>3. job'.left[x] = Stored(job.of, x) + 2..job.length
      BY <2>1, <3>1, <3>2
    <3> QED
      BY <2>1, <2>2, <3>3
  <2>3. CASE x # k
    <3>1. job'.left[x] = job.left[x]
      BY <1>2, <1>4, <2>3 DEF Job
    <3> QED
      BY <2>1, <2>3, <3>1
  <2> QED
    BY <2>2, <2>3
<1>8. InHand'
  BY <1>1, <1>3, <1>4, <1>7 DEF InHand, Stored
<1>9. \A r \in Request : Gapless(r)'
  BY <1>5 DEF ExportInv, Gapless, Stored, Whole
<1> QED
  BY <1>5, <1>6, <1>8, <1>9 DEF ExportInv

LEMMA StoreKeeps ==
  ASSUME ExportInv, StoreBytes
  PROVE  ExportInv'
<1> DEFINE o == job.of
           k == job.out[1]
           n == Stored(job.of, job.out[1])
<1> USE DEF StoreBytes, Go
<1>1. worker \in Exporting /\ worker' \in WorkerPlaces /\ Working' /\ worker' = "copy"
  BY DEF Exporting, WorkerPlaces, Working
<1>2. Working /\ o \in Request /\ ~failed[o] /\ job \in Job /\ writer[o]
  BY <1>1, Whereabouts
<1>3. /\ k \in Rank /\ n \in Nat /\ job.out[2] = n + 1 /\ job.out[3] = n + 1
      /\ n + 1 <= job.length
  BY <1>1, Whereabouts
<1>4. /\ job' \in Job /\ job'.of = o /\ job'.length = job.length /\ job'.left = job.left
  BY <1>2 DEF Job
<1>5. /\ kv' \in [Request -> [Rank -> Seq(Nat)]]
      /\ kv'[o] = [kv[o] EXCEPT ![k] = Append(@, n + 1)]
      /\ \A r \in Request \ {o} : kv'[r] = kv[r]
  <2>1. kv \in [Request -> [Rank -> Seq(Nat)]] /\ kv[o] \in [Rank -> Seq(Nat)]
        /\ kv[o][k] \in Seq(Nat)
    BY <1>2, <1>3 DEF ExportInv, ExportType
  <2>2. Append(kv[o][k], n + 1) \in Seq(Nat)
    BY <1>3, <2>1
  <2>3. kv' = [kv EXCEPT ![o] = [kv[o] EXCEPT ![k] = Append(kv[o][k], n + 1)]]
    BY <1>3
  <2>4. [kv[o] EXCEPT ![k] = Append(kv[o][k], n + 1)] \in [Rank -> Seq(Nat)]
    BY <2>1, <2>2
  <2> QED
    BY <1>2, <2>1, <2>3, <2>4
<1>6. /\ kv'[o][k] = Append(kv[o][k], n + 1) /\ Len(kv'[o][k]) = n + 1
      /\ \A x \in Rank \ {k} : kv'[o][x] = kv[o][x]
  <2>1. kv[o] \in [Rank -> Seq(Nat)] /\ kv[o][k] \in Seq(Nat)
    BY <1>2, <1>3 DEF ExportInv, ExportType
  <2>2. kv'[o][k] = Append(kv[o][k], n + 1) /\ \A x \in Rank \ {k} : kv'[o][x] = kv[o][x]
    <3>1. kv'[o] = [kv[o] EXCEPT ![k] = Append(kv[o][k], n + 1)]
      BY <1>5
    <3>2. \A f \in [Rank -> Seq(Nat)], x \in Rank : \A e :
            [f EXCEPT ![x] = e][x] = e
            /\ \A y \in Rank \ {x} : [f EXCEPT ![x] = e][y] = f[y]
      OBVIOUS
    <3>3. [kv[o] EXCEPT ![k] = Append(kv[o][k], n + 1)][k] = Append(kv[o][k], n + 1)
      BY <1>3, <2>1, <3>2, Zenon
    <3>4. \A y \in Rank \ {k} : [kv[o] EXCEPT ![k] = Append(kv[o][k], n + 1)][y] = kv[o][y]
      BY <1>3, <2>1, <3>2, Zenon
    <3> QED
      BY <3>1, <3>3, <3>4
  <2>3. Len(Append(kv[o][k], n + 1)) = Len(kv[o][k]) + 1
    BY <1>3, <2>1
  <2> QED
    BY <2>2, <2>3 DEF Stored
<1>7. Captures' /\ Jobs' /\ \A r \in Request : Chain(r) => Chain(r)'
  BY <1>1, <1>2, <1>4, <1>5, WorkSteps
<1>8. ExportType' /\ Sessions' /\ WholeCheckpoints'
  BY <1>1, <1>4, <1>5 DEF ExportInv, ExportType, Sessions, WholeCheckpoints, requests, history
<1>9. RefsLeased'
  BY <1>2, <1>5 DEF ExportInv, RefsLeased
<1>10. \A x \in Rank :
        /\ Len(kv'[o][x]) <= job.length
        /\ job'.left[x] = Len(kv'[o][x]) + 1..job.length
  <2> SUFFICES ASSUME NEW x \in Rank
               PROVE  /\ Len(kv'[o][x]) <= job.length
                      /\ job'.left[x] = Len(kv'[o][x]) + 1..job.length
    OBVIOUS
  <2>1. /\ Stored(o, x) <= job.length /\ Stored(o, x) \in Nat
        /\ job.left[x] = Stored(o, x) + (IF x = k THEN 2 ELSE 1)..job.length
    BY <1>1, Whereabouts
  <2>2. CASE x = k
    <3>1. job'.left[x] = n + 2..job.length
      BY <1>4, <2>1, <2>2
    <3>2. Len(kv'[o][x]) = n + 1
      BY <1>6, <2>2, Zenon
    <3>3. \A a \in Nat : (a + 1) + 1 = a + 2
      OBVIOUS
    <3>4. Len(kv'[o][x]) + 1..job.length = n + 2..job.length
      BY <1>3, <3>2, <3>3, Zenon
    <3>5. Len(kv'[o][x]) <= job.length
      BY <1>3, <3>2, Zenon
    <3> QED
      BY <3>1, <3>4, <3>5, Zenon
  <2>3. CASE x # k
    BY <1>4, <1>6, <2>1, <2>3 DEF Stored
  <2> QED
    BY <2>2, <2>3
<1>11. InHand'
  BY <1>1, <1>4, <1>10 DEF InHand, Stored
<1>12. ASSUME NEW r \in Request
       PROVE  Gapless(r)'
  <2>1. CASE r # o
    BY <1>5, <1>7, <2>1 DEF ExportInv, Gapless, Stored, Whole
  <2>2. CASE r = o
    <3>1. Chain(o) /\ \A x \in Rank : kv[o][x] = Whole(Stored(o, x))
      BY <1>2 DEF ExportInv, Gapless
    <3>2. kv'[o][k] = Whole(n + 1)
      <4>1. kv[o][k] = Whole(n)
        BY <1>3, <3>1
      <4>2. Append(Whole(n), n + 1) = Whole(n + 1)
        BY <1>3 DEF Whole
      <4> QED
        BY <1>6, <4>1, <4>2
    <3>3. \A x \in Rank : kv'[o][x] = Whole(Len(kv'[o][x]))
      BY <1>6, <3>1, <3>2 DEF Stored
    <3>4. Chain(r)'
      BY <1>7, <2>2, <3>1
    <3> QED
      BY <2>2, <3>3, <3>4 DEF Gapless, Stored, Whole
  <2> QED
    BY <2>1, <2>2
<1> QED
  BY <1>7, <1>8, <1>9, <1>11, <1>12 DEF ExportInv
-----------------------------------------------------------------------------
(* Steps that leave the jobs alone *)

LEMMA RestKeeps ==
  ASSUME ExportInv, \/ Rest \/ NotifyAll \/ StopFlag \/ StopNotify \/ StopJoin
                    \/ \E w \in Waiter : WaitCall(w) \/ WaitTest(w) \/ WaitTimeout(w)
  PROVE  ExportInv'
<1>1. UNCHANGED <<requests, state, queue, job, committed>>
  BY DEF Rest, NotifyAll, StopFlag, StopNotify, StopJoin, WaitCall, WaitTest, WaitTimeout, pipeline,
         history
<1>2. worker' = worker \/ {worker, worker'} \subseteq {"loop", "exited", "notify"}
  BY DEF Rest, NotifyAll, StopFlag, StopNotify, StopJoin, WaitCall, WaitTest, WaitTimeout, Go
<1>3. /\ cacheLen' \in [Request -> Nat] /\ computed' \in [Request -> Nat]
      /\ capture' \in Request \cup {NoRequest} /\ Captures'
  BY <1>1 DEF ExportInv, ExportType, Captures, requests, state
<1> QED
  BY <1>1, <1>2, <1>3, SameInv DEF requests

LEMMA SkippedKeeps ==
  ASSUME ExportInv, NEW r \in Request, CaptureSkipped(r)
  PROVE  ExportInv'
<1>1. /\ cacheLen' \in [Request -> Nat] /\ computed' \in [Request -> Nat]
      /\ capture' \in Request \cup {NoRequest} /\ Captures'
  BY DEF CaptureSkipped, ExportInv, ExportType, Captures
<1> QED
  BY <1>1, SameInv DEF CaptureSkipped, pipeline, history

LEMMA EvictKeeps ==
  ASSUME ExportInv, NEW r \in Request, Evict(r)
  PROVE  ExportInv'
<1>1. /\ cacheLen' \in [Request -> Nat] /\ computed' \in [Request -> Nat]
      /\ capture' \in Request \cup {NoRequest} /\ Captures'
  BY DEF Evict, ExportInv, ExportType, Captures
<1> QED
  BY <1>1, SameInv DEF Evict, pipeline

\* No job of r is queued or exported.
Idle(r) == (\A n \in DOMAIN queue : queue[n].of # r) /\ (Working => job.of # r)

LEMMA IdleWhenNone ==
  ASSUME NEW r, ~ \E j \in Charged : j.of = r
  PROVE  Idle(r)
BY DEF Idle, Charged

LEMMA PrefillKeeps ==
  ASSUME ExportInv, NEW r \in Request, Prefill(r)
  PROVE  ExportInv'
<1> USE DEF pipeline, history
<1>1. /\ cacheLen' \in [Request -> Nat] /\ computed' \in [Request -> Nat]
      /\ capture' \in Request \cup {NoRequest}
  BY DEF Prefill, ExportInv, ExportType
<1>2. issued' \in [Request -> Nat] => Captures'
  BY DEF Prefill, ExportInv, ExportType, Captures
<1>3. CASE UNCHANGED state
  <2>1. Captures'
    BY <1>2, <1>3 DEF ExportInv, ExportType, state
  <2> QED
    BY <1>1, <1>3, <2>1, SameInv DEF Prefill
<1>4. CASE Adopted(r)
  <2> DEFINE c == cacheLen[r]
  <2>1. c \in Nat \ {0} /\ issued[r] = 0
    BY <1>4 DEF ExportInv, ExportType, Adopted
  <2>2. UNCHANGED <<live, queue, job, worker, committed, failed, writer>> /\ (Working' <=> Working)
    BY <1>4 DEF Prefill, Working, Adopted
  <2>3. Idle(r)
    <3>1. \A j \in Job : j.of = r => ~Within(j)
      BY <2>1, ExportAssumption DEF Job, Within
    <3>2. \A n \in DOMAIN queue : queue[n] \in Job
      BY DEF ExportInv, ExportType
    <3> QED
      BY <3>1, <3>2 DEF ExportInv, ExportType, Jobs, Idle
  <2>4. /\ kv' \in [Request -> [Rank -> Seq(Nat)]]
        /\ kv'[r] = [k \in Rank |-> Whole(c)]
        /\ \A q \in Request \ {r} : kv'[q] = kv[q]
    <3>1. [i \in 1..c |-> i] \in Seq(Nat)
      BY <2>1
    <3> QED
      BY <1>4, <3>1 DEF ExportInv, ExportType, Whole, Adopted
  <2>5. /\ issued' \in [Request -> Nat] /\ issued'[r] = c
        /\ \A q \in Request \ {r} : issued'[q] = issued[q]
    BY <1>4, <2>1 DEF ExportInv, ExportType, Adopted
  <2>6. ExportType' /\ Captures' /\ Sessions' /\ WholeCheckpoints'
    <3>1. inherited' \in [Request -> BOOLEAN]
      BY <1>4 DEF ExportInv, ExportType, Adopted
    <3> QED
      BY <1>1, <1>2, <2>2, <2>4, <2>5, <3>1
         DEF ExportInv, ExportType, Sessions, WholeCheckpoints, Prefill
  <2>7. Jobs'
    <3>1. \A j \in Job : Within(j) /\ j.of # r => Within(j)'
      BY <2>5 DEF Within, Job
    <3>2. (\A n \in DOMAIN queue : queue[n] \in Job) /\ job \in Job
      BY DEF ExportInv, ExportType
    <3> QED
      BY <2>2, <2>3, <3>1, <3>2 DEF ExportInv, Jobs, Within, Idle
  <2>8. InHand'
    <3> SUFFICES ASSUME Working, job.of \in Request, ~failed[job.of]
                 PROVE  InHand'
      BY <2>2 DEF InHand
    <3>1. kv'[job.of] = kv[job.of]
      BY <2>3, <2>4 DEF Idle
    <3> QED
      BY <2>2, <3>1 DEF ExportInv, InHand, Stored
  <2>9. RefsLeased'
    BY <1>4, <2>2, <2>4 DEF Adopted, ExportInv, ExportType, RefsLeased
  <2>10. ASSUME NEW q \in Request, q # r
         PROVE  Gapless(q)'
    <3>1. kv'[q] = kv[q] /\ issued'[q] = issued[q]
      BY <2>4, <2>5, <2>10
    <3>2. \A k \in Rank : Base(q, k)' = Base(q, k)
      BY <2>2, <3>1, Zenon DEF Base, Stored
    <3>3. Chain(q) => Chain(q)'
      BY <2>2, <3>1, <3>2, ChainKept
    <3> QED
      BY <2>2, <3>1, <3>3 DEF ExportInv, Gapless, Stored, Whole
  <2>11. Gapless(r)'
    <3>1. \A k \in Rank : kv'[r][k] = Whole(c) /\ Len(kv'[r][k]) = c
      BY <2>1, <2>4 DEF Whole
    <3>2. Chain(r)'
      BY <2>2, <2>3, <2>5, <3>1 DEF Chain, Idle, Base, Stored
    <3> QED
      BY <3>1, <3>2 DEF Gapless, Stored, Whole
  <2> QED
    BY <2>6, <2>7, <2>8, <2>9, <2>10, <2>11 DEF ExportInv
<1> QED
  BY <1>3, <1>4 DEF Prefill, state

LEMMA DroppedType ==
  ASSUME ExportInv, NEW r \in Request, Dropped(r)
  PROVE  /\ writer' \in [Request -> BOOLEAN] /\ inherited' \in [Request -> BOOLEAN]
         /\ kv' \in [Request -> [Rank -> Seq(Nat)]]
         /\ \A q \in Request \ {r} : kv'[q] = kv[q] /\ writer'[q] = writer[q]
         /\ RefsLeased' /\ \A k \in Rank : kv'[r][k] = <<>>
<1>1. NoKv \in [Rank -> Seq(Nat)] /\ \A k \in Rank : NoKv[k] = <<>>
  BY DEF NoKv
<1>2. /\ writer' \in [Request -> BOOLEAN] /\ inherited' \in [Request -> BOOLEAN]
      /\ kv' \in [Request -> [Rank -> Seq(Nat)]]
  BY <1>1 DEF Dropped, ExportInv, ExportType
<1>3. /\ kv'[r] = NoKv
      /\ \A q \in Request \ {r} : /\ kv'[q] = kv[q] /\ writer'[q] = writer[q]
                                  /\ inherited'[q] = inherited[q]
  BY DEF Dropped, ExportInv, ExportType
<1>4. RefsLeased'
  BY <1>3 DEF ExportInv, RefsLeased
<1> QED
  BY <1>1, <1>2, <1>3, <1>4

LEMMA RemovedKeeps ==
  ASSUME ExportInv, NEW r \in Request, Removed(r)
  PROVE  ExportInv'
<1> USE DEF Removed, pipeline, history
<1>1. /\ UNCHANGED <<queue, job, worker, committed, failed, issued>> /\ (Working' <=> Working)
      /\ live' = live \ {r}
  BY DEF Working
<1>2. \/ UNCHANGED <<writer, inherited, kv>>
      \/ Idle(r) /\ Dropped(r)
  BY IdleWhenNone, Zenon
<1>3. /\ writer' \in [Request -> BOOLEAN] /\ inherited' \in [Request -> BOOLEAN]
      /\ kv' \in [Request -> [Rank -> Seq(Nat)]] /\ RefsLeased'
  BY <1>2, DroppedType DEF ExportInv, ExportType, RefsLeased
<1>4. \A q \in Request : q # r \/ ~Idle(r) => kv'[q] = kv[q] /\ writer'[q] = writer[q]
  BY <1>2, DroppedType
<1>5. ExportType' /\ Captures' /\ WholeCheckpoints' /\ Jobs'
  BY <1>1, <1>3 DEF ExportInv, ExportType, Captures, WholeCheckpoints, Jobs, Within
<1>6. Working /\ job.of \in Request => kv'[job.of] = kv[job.of] /\ writer'[job.of] = writer[job.of]
  BY <1>4 DEF Idle
<1>7. Sessions' /\ InHand'
  <2>1. Sessions'
    BY <1>1, <1>6 DEF ExportInv, Sessions, Working, Exporting
  <2>2. InHand'
    <3> SUFFICES ASSUME Working, job.of \in Request, ~failed[job.of]
                 PROVE  InHand'
      BY <1>1, Zenon DEF InHand
    <3>1. kv'[job.of] = kv[job.of] /\ job' = job /\ worker' = worker
      BY <1>1, <1>6
    <3>2. \A k \in Rank : Stored(job.of, k)' = Stored(job.of, k)
      BY <3>1, Zenon DEF Stored
    <3>3. InHand
      BY DEF ExportInv
    <3> QED
      BY <3>1, <3>2, <3>3 DEF InHand
  <2> QED
    BY <2>1, <2>2
<1>8. ASSUME NEW q \in Request, kv'[q] = kv[q]
      PROVE  Gapless(q)'
  <2>1. \A k \in Rank : Base(q, k)' = Base(q, k)
    BY <1>1, <1>8 DEF Base, Stored
  <2>2. Chain(q) => Chain(q)'
    BY <1>1, <2>1, ChainKept
  <2> QED
    BY <1>1, <1>8, <2>2 DEF ExportInv, Gapless, Stored, Whole
<1>9. ASSUME Idle(r), Dropped(r)
      PROVE  Gapless(r)'
  <2>1. \A k \in Rank : kv'[r][k] = <<>> /\ Len(kv'[r][k]) = 0
    BY <1>9, DroppedType
  <2>2. Chain(r)'
    BY <1>1, <1>9 DEF Chain, Idle
  <2> QED
    BY <2>1, <2>2 DEF Gapless, Stored, Whole
<1> QED
  BY <1>2, <1>3, <1>4, <1>5, <1>7, <1>8, <1>9 DEF ExportInv
-----------------------------------------------------------------------------
(* The queue *)

LEMMA AppendFacts ==
  ASSUME queue \in Seq(Job), NEW j \in Job, queue' = Append(queue, j)
  PROVE  /\ queue' \in Seq(Job) /\ DOMAIN queue = 1..Len(queue) /\ Len(queue) \in Nat
         /\ Len(queue') = Len(queue) + 1 /\ DOMAIN queue' = 1..Len(queue) + 1
         /\ queue'[Len(queue) + 1] = j
         /\ \A n \in 1..Len(queue) : queue'[n] = queue[n] /\ queue[n] \in Job
OBVIOUS

\* A job of another request at the end does not matter to r.
LEMMA ChainOther ==
  ASSUME queue \in Seq(Job), NEW j \in Job, queue' = Append(queue, j), NEW r \in Request,
         j.of # r, Chain(r), issued'[r] = issued[r], r \in live' => r \in live,
         \A k \in Rank : Base(r, k)' = Base(r, k)
  PROVE  Chain(r)'
<1> DEFINE L == Len(queue)
<1>1. /\ L \in Nat /\ DOMAIN queue = 1..L /\ Len(queue') = L + 1 /\ DOMAIN queue' = 1..L + 1
      /\ queue'[L + 1] = j /\ \A n \in 1..L : queue'[n] = queue[n]
  BY AppendFacts
<1> HIDE DEF L
<1>2. ASSUME NEW n \in DOMAIN queue', queue'[n].of = r
      PROVE  /\ n \in DOMAIN queue /\ queue[n].of = r
             /\ (\A i \in 1..n - 1 : queue'[i].of # r) =>
                  \A k \in Rank : Starts(n, k, Base(r, k))'
             /\ \A m \in 1..n - 1 : queue'[m].of = r /\ (\A i \in m + 1..n - 1 : queue'[i].of # r) =>
                  \A k \in Rank : Starts(n, k, queue[m].length)'
             /\ (\A i \in n + 1..L + 1 : queue'[i].of # r) => queue'[n].length = issued'[r]
  <2>1. n \in 1..L
    BY <1>1, <1>2
  <2>2. n \in DOMAIN queue /\ queue'[n] = queue[n]
    BY <1>1, <2>1
  <2>3. \A i \in 1..n - 1 : queue'[i] = queue[i]
    BY <1>1, <2>1
  <2>4. /\ (\A i \in 1..n - 1 : queue[i].of # r) => \A k \in Rank : Starts(n, k, Base(r, k))
        /\ \A m \in 1..n - 1 : queue[m].of = r /\ (\A i \in m + 1..n - 1 : queue[i].of # r) =>
             \A k \in Rank : Starts(n, k, queue[m].length)
        /\ (\A i \in n + 1..L : queue[i].of # r) => queue[n].length = issued[r]
    BY <1>2, <2>2 DEF Chain, L
  <2>5. (\A i \in 1..n - 1 : queue'[i].of # r) => \A k \in Rank : Starts(n, k, Base(r, k))'
    BY <2>2, <2>3, <2>4 DEF Starts
  <2>6. \A m \in 1..n - 1 : queue'[m].of = r /\ (\A i \in m + 1..n - 1 : queue'[i].of # r) =>
          \A k \in Rank : Starts(n, k, queue[m].length)'
    <3> SUFFICES ASSUME NEW m \in 1..n - 1, queue'[m].of = r,
                        \A i \in m + 1..n - 1 : queue'[i].of # r, NEW k \in Rank
                 PROVE  Starts(n, k, queue[m].length)'
      OBVIOUS
    <3>1. queue[m].of = r /\ queue'[m] = queue[m]
      BY <2>3
    <3>2. \A i \in m + 1..n - 1 : queue[i].of # r
      BY <2>1, <2>3
    <3>3. Starts(n, k, queue[m].length)
      BY <2>4, <3>1, <3>2
    <3> QED
      BY <2>2, <3>1, <3>3 DEF Starts
  <2>7. (\A i \in n + 1..L + 1 : queue'[i].of # r) => queue'[n].length = issued'[r]
    <3> SUFFICES ASSUME \A i \in n + 1..L + 1 : queue'[i].of # r
                 PROVE  queue'[n].length = issued'[r]
      OBVIOUS
    <3>1. \A i \in n + 1..L : queue[i].of # r
      BY <1>1, <2>1
    <3> QED
      BY <2>2, <2>4, <3>1
  <2> QED
    BY <1>2, <2>2, <2>5, <2>6, <2>7
<1>3. ASSUME r \in live', \A n \in DOMAIN queue' : queue'[n].of # r
      PROVE  \A k \in Rank : Base(r, k)' = issued'[r]
  <2>1. \A n \in DOMAIN queue : queue[n].of # r
    BY <1>1, <1>3
  <2> QED
    BY <1>3, <2>1 DEF Chain
<1> QED
  BY <1>1, <1>2, <1>3 DEF Chain, Starts
\* A longer queue leaves what does not depend on it.
LEMMA QueuedKeeps ==
  ASSUME ExportInv, NEW j \in Job, queue' = Append(queue, j),
         j.of # NoRequest => 0 < j.length /\ j.length <= issued'[j.of],
         UNCHANGED <<live, cacheLen, computed, failed, writer, inherited, kv, job, worker, committed>>,
         capture' \in Request \cup {NoRequest}, Captures', issued' \in [Request -> Nat],
         \A r \in Request : issued[r] <= issued'[r],
         \A r \in Request : r = j.of /\ ~failed[r] /\ Chain(r) => Chain(r)',
         \A r \in Request \ {j.of} : issued'[r] = issued[r]
  PROVE  ExportInv'
<1>1. Working' <=> Working
  BY DEF Working
<1>2. /\ queue' \in Seq(Job) /\ queue \in Seq(Job) /\ DOMAIN queue = 1..Len(queue)
      /\ Len(queue) \in Nat /\ DOMAIN queue' = 1..Len(queue) + 1 /\ queue'[Len(queue) + 1] = j
      /\ \A n \in 1..Len(queue) : queue'[n] = queue[n] /\ queue[n] \in Job
  BY AppendFacts DEF ExportInv, ExportType
<1>3. ExportType' /\ Sessions' /\ InHand' /\ WholeCheckpoints' /\ RefsLeased'
  BY <1>1, <1>2 DEF ExportInv, ExportType, Sessions, InHand, Stored, WholeCheckpoints, RefsLeased
<1>4. Jobs'
  <2>1. ASSUME NEW i \in Job, Within(i), i.of # NoRequest
        PROVE  0 < i.length /\ i.length <= issued'[i.of]
    <3>1. i.of \in Request /\ i.length \in Nat
      BY <2>1 DEF Job
    <3>2. issued[i.of] \in Nat /\ issued'[i.of] \in Nat /\ issued[i.of] <= issued'[i.of]
      BY <3>1 DEF ExportInv, ExportType
    <3> QED
      BY <2>1, <3>1, <3>2 DEF Within
  <2>2. \A n \in DOMAIN queue' : Within(queue[n])'
    <3> SUFFICES ASSUME NEW n \in DOMAIN queue'
                 PROVE  Within(queue[n])'
      OBVIOUS
    <3>1. CASE n = Len(queue) + 1
      BY <1>2, <3>1 DEF Within
    <3>2. CASE n # Len(queue) + 1
      <4>1. queue'[n] = queue[n] /\ queue[n] \in Job /\ Within(queue[n])
        BY <1>2, <3>2 DEF ExportInv, Jobs
      <4> QED
        BY <2>1, <4>1 DEF Within
    <3> QED
      BY <3>1, <3>2
  <2>3. Working => Within(job)'
    BY <2>1 DEF ExportInv, ExportType, Jobs, Within
  <2> QED
    BY <1>1, <2>2, <2>3 DEF Jobs, Within
<1>5. ASSUME NEW r \in Request
      PROVE  Gapless(r)'
  <2> SUFFICES ASSUME ~failed[r]
               PROVE  Chain(r)' /\ \A k \in Rank : kv[r][k] = Whole(Stored(r, k))
    BY DEF Gapless, Stored, Whole
  <2>1. Chain(r) /\ \A k \in Rank : kv[r][k] = Whole(Stored(r, k))
    BY DEF ExportInv, Gapless
  <2>2. CASE r # j.of
    <3>1. \A k \in Rank : Base(r, k)' = Base(r, k)
      BY <1>1 DEF Base, Stored
    <3> QED
      BY <1>2, <2>1, <2>2, <3>1, ChainOther
  <2> QED
    BY <2>1, <2>2
<1> QED
  BY <1>3, <1>4, <1>5 DEF ExportInv

LEMMA SaveImageKeeps ==
  ASSUME ExportInv, SaveImage
  PROVE  ExportInv'
<1> USE DEF SaveImage, requests, state
<1>1. ImageJob \in Job /\ ImageJob.of = NoRequest
  <2>1. NoJob \in Job /\ NoJob.of = NoRequest
    BY ExportAssumption DEF NoJob, Job, Rank
  <2> QED
    BY <2>1, ExportAssumption DEF ImageJob, NoJob, Job
<1>2. /\ capture' \in Request \cup {NoRequest} /\ Captures' /\ issued' \in [Request -> Nat]
      /\ \A r \in Request : issued[r] <= issued'[r]
  BY DEF ExportInv, ExportType, Captures
<1>3. \A r \in Request : r # ImageJob.of /\ issued'[r] = issued[r]
  BY <1>1, ExportAssumption
<1> QED
  BY <1>1, <1>2, <1>3, QueuedKeeps

LEMMA EnqueueKeeps ==
  ASSUME ExportInv, NEW r \in Request, Enqueue(r)
  PROVE  ExportInv'
<1> DEFINE L == Len(queue)
<1>0. PICK j : j = CaptureJob(r, issued[r], computed[r])
  OBVIOUS
<1>1. /\ capture = r /\ r \in live /\ issued[r] \in Nat /\ computed[r] \in Nat
      /\ computed[r] > issued[r]
  BY ExportAssumption DEF Enqueue, ExportInv, ExportType, Captures
<1>2. j \in Job /\ j.of = r /\ j.length = computed[r]
      /\ \A k \in Rank : j.left[k] = issued[r] + 1..computed[r]
  BY <1>0, <1>1, JobsTyped DEF CaptureJob, ExportInv
<1>3. queue' = Append(queue, j)
      /\ UNCHANGED <<live, cacheLen, computed, failed, writer, inherited, kv, job, worker, committed>>
  BY <1>0 DEF Enqueue, history
<1>4. /\ issued' \in [Request -> Nat] /\ issued'[r] = computed[r]
      /\ \A q \in Request \ {r} : issued'[q] = issued[q]
      /\ capture' = NoRequest
  BY <1>1 DEF Enqueue, ExportInv, ExportType
<1>5. \A q \in Request : issued[q] <= issued'[q]
  <2>1. \A q \in Request : issued[q] \in Nat
    BY DEF ExportInv, ExportType
  <2> QED
    BY <1>1, <1>4, <2>1
<1>6. /\ L \in Nat /\ DOMAIN queue = 1..L /\ Len(queue') = L + 1 /\ DOMAIN queue' = 1..L + 1
      /\ queue'[L + 1] = j /\ \A n \in 1..L : queue'[n] = queue[n]
  BY <1>2, <1>3, AppendFacts DEF ExportInv, ExportType
<1> HIDE DEF L
<1>7. 0 < j.length /\ j.length <= issued'[j.of]
  BY <1>1, <1>2, <1>4
<1>8. ASSUME ~failed[r], Chain(r)
      PROVE  Chain(r)'
  <2>1. \A k \in Rank : Base(r, k)' = Base(r, k)
    BY <1>3 DEF Base, Stored, Working
  <2>2. ASSUME NEW n \in DOMAIN queue', queue'[n].of = r, n # L + 1
        PROVE  /\ n \in 1..L /\ queue[n].of = r /\ queue'[n] = queue[n]
               /\ \A i \in 1..n - 1 : queue'[i] = queue[i]
    BY <1>6, <2>2
  <2>3. ASSUME NEW n \in DOMAIN queue', queue'[n].of = r, \A i \in 1..n - 1 : queue'[i].of # r,
               NEW k \in Rank
        PROVE  Starts(n, k, Base(r, k))'
    <3>1. CASE n = L + 1
      <4>1. \A i \in DOMAIN queue : queue[i].of # r
        BY <1>6, <2>3, <3>1
      <4>2. Base(r, k) = issued[r]
        BY <1>1, <1>8, <4>1 DEF Chain
      <4> QED
        BY <1>1, <1>2, <1>6, <2>1, <3>1, <4>2 DEF Starts
    <3>2. CASE n # L + 1
      <4>1. Starts(n, k, Base(r, k))
        BY <1>6, <1>8, <2>2, <2>3, <3>2 DEF Chain
      <4> QED
        BY <2>1, <2>2, <2>3, <3>2, <4>1 DEF Starts
    <3> QED
      BY <3>1, <3>2
  <2>4. ASSUME NEW n \in DOMAIN queue', queue'[n].of = r, NEW m \in 1..n - 1, queue'[m].of = r,
               \A i \in m + 1..n - 1 : queue'[i].of # r, NEW k \in Rank
        PROVE  Starts(n, k, queue[m].length)'
    <3>0. m \in 1..L /\ n \in 1..L + 1
      BY <1>6, <2>4
    <3>1. CASE n = L + 1
      <4>1. m \in DOMAIN queue /\ queue[m].of = r /\ queue'[m] = queue[m]
        BY <1>6, <2>4, <3>0
      <4>2. \A i \in m + 1..Len(queue) : queue[i].of # r
        BY <1>6, <2>4, <3>0, <3>1 DEF L
      <4>3. queue[m].length = issued[r]
        BY <1>8, <4>1, <4>2 DEF Chain
      <4> QED
        BY <1>1, <1>2, <1>6, <3>1, <4>1, <4>3 DEF Starts
    <3>2. CASE n # L + 1
      <4>1. queue[m].of = r /\ queue'[m] = queue[m] /\ \A i \in m + 1..n - 1 : queue[i].of # r
        BY <2>2, <2>4, <3>0, <3>2
      <4>2. Starts(n, k, queue[m].length)
        BY <1>6, <1>8, <2>2, <2>4, <3>2, <4>1 DEF Chain
      <4> QED
        BY <2>2, <2>4, <3>2, <4>1, <4>2 DEF Starts
    <3> QED
      BY <3>1, <3>2
  <2>5. ASSUME NEW n \in DOMAIN queue', queue'[n].of = r,
               \A i \in n + 1..L + 1 : queue'[i].of # r
        PROVE  queue'[n].length = issued'[r]
    <3>1. n = L + 1
      BY <1>2, <1>6, <2>5
    <3> QED
      BY <1>2, <1>4, <1>6, <3>1
  <2>6. ~ \A n \in DOMAIN queue' : queue'[n].of # r
    BY <1>2, <1>6
  <2> QED
    BY <1>6, <2>3, <2>4, <2>5, <2>6 DEF Chain
<1>9. Captures' /\ capture' \in Request \cup {NoRequest}
  BY <1>4 DEF Captures
<1> QED
  BY <1>2, <1>3, <1>4, <1>5, <1>7, <1>8, <1>9, QueuedKeeps
LEMMA TakeKeeps ==
  ASSUME ExportInv, Take
  PROVE  ExportInv'
<1> DEFINE L == Len(queue)
<1>1. PICK j : j = Head(queue)
  OBVIOUS
<1>2. /\ queue \in Seq(Job) /\ L \in Nat \ {0} /\ DOMAIN queue = 1..L
      /\ j = queue[1] /\ j \in Job /\ job' = j
      /\ queue' \in Seq(Job) /\ Len(queue') = L - 1 /\ DOMAIN queue' = 1..L - 1
      /\ \A n \in 1..L - 1 : queue'[n] = queue[n + 1]
  BY <1>1 DEF Take, ExportInv, ExportType
<1>3. /\ UNCHANGED <<requests, state, committed>> /\ worker' = "begin" /\ Working' /\ ~Working
  BY DEF Take, Go, Working, history
<1> HIDE DEF L
<1>4. ExportType' /\ Captures' /\ Sessions' /\ WholeCheckpoints' /\ RefsLeased'
  BY <1>2, <1>3 DEF ExportInv, ExportType, Captures, Sessions, WholeCheckpoints, RefsLeased, requests,
                    state, WorkerPlaces, Exporting
<1>5. Jobs'
  <2>1. \A n \in 1..L - 1 : n + 1 \in DOMAIN queue
    BY <1>2
  <2>2. (\A n \in DOMAIN queue : Within(queue[n])) /\ Within(j)
    BY <1>2 DEF ExportInv, Jobs
  <2>3. issued' = issued
    BY <1>3 DEF state
  <2>4. \A n \in DOMAIN queue' : Within(queue[n])'
    BY <1>2, <2>1, <2>2, <2>3 DEF Within
  <2>5. Within(job)'
    BY <1>2, <2>2, <2>3 DEF Within
  <2> QED
    BY <2>4, <2>5 DEF Jobs
<1>6. ASSUME NEW r \in Request, ~failed[r]
      PROVE  /\ \A k \in Rank : j.of = r => Starts(1, k, Stored(r, k))
             /\ Chain(r)'
  <2>1. Chain(r) /\ \A k \in Rank : Base(r, k) = Stored(r, k)
    BY <1>3, <1>6 DEF ExportInv, Gapless, Base
  <2>2. \A k \in Rank : j.of = r => Starts(1, k, Stored(r, k))
    BY <1>2, <2>1 DEF Chain
  <2>3. \A k \in Rank : Base(r, k)' = IF j.of = r THEN j.length ELSE Stored(r, k)
    BY <1>2, <1>3 DEF Base, Stored, state
  <2>4. ASSUME NEW n \in DOMAIN queue', queue'[n].of = r, \A i \in 1..n - 1 : queue'[i].of # r,
               NEW k \in Rank
        PROVE  Starts(n, k, Base(r, k))'
    <3>1. /\ n \in 1..L - 1 /\ n + 1 \in DOMAIN queue /\ queue'[n] = queue[n + 1]
          /\ queue[n + 1].of = r
      BY <1>2, <2>4
    <3>2. \A i \in 2..n : queue[i].of # r
      <4>1. \A i \in 2..n : i - 1 \in 1..n - 1 /\ i - 1 \in 1..L - 1 /\ (i - 1) + 1 = i
        BY <1>2, <3>1
      <4> QED
        BY <1>2, <2>4, <4>1
    <3>3. CASE j.of = r
      <4>1. 1 \in 1..(n + 1) - 1 /\ queue[1].of = r
        BY <1>2, <3>1, <3>3
      <4>2. \A i \in 1 + 1..(n + 1) - 1 : queue[i].of # r
        BY <3>1, <3>2
      <4>3. Starts(n + 1, k, queue[1].length)
        BY <2>1, <3>1, <4>1, <4>2 DEF Chain
      <4> QED
        BY <1>2, <2>3, <3>1, <3>3, <4>3 DEF Starts
    <3>4. CASE j.of # r
      <4>1. \A i \in 1..(n + 1) - 1 : queue[i].of # r
        <5>1. \A i \in 1..(n + 1) - 1 : i = 1 \/ i \in 2..n
          BY <3>1
        <5> QED
          BY <1>2, <3>2, <3>4, <5>1
      <4>2. Starts(n + 1, k, Stored(r, k))
        BY <2>1, <3>1, <4>1 DEF Chain
      <4> QED
        BY <2>3, <3>1, <3>4, <4>2 DEF Starts
    <3> QED
      BY <3>3, <3>4
  <2>5. ASSUME NEW n \in DOMAIN queue', queue'[n].of = r, NEW m \in 1..n - 1, queue'[m].of = r,
               \A i \in m + 1..n - 1 : queue'[i].of # r, NEW k \in Rank
        PROVE  Starts(n, k, queue[m].length)'
    <3>1. /\ n \in 1..L - 1 /\ n + 1 \in DOMAIN queue /\ queue'[n] = queue[n + 1]
          /\ queue[n + 1].of = r
      BY <1>2, <2>5
    <3>2. m \in 1..L - 1 /\ m + 1 \in 1..(n + 1) - 1 /\ queue'[m] = queue[m + 1]
          /\ queue[m + 1].of = r
      BY <1>2, <2>5, <3>1
    <3>3. \A i \in (m + 1) + 1..(n + 1) - 1 : queue[i].of # r
      <4>1. \A i \in (m + 1) + 1..(n + 1) - 1 :
              i - 1 \in m + 1..n - 1 /\ i - 1 \in 1..L - 1 /\ (i - 1) + 1 = i
        BY <1>2, <3>1, <3>2
      <4> QED
        BY <1>2, <2>5, <4>1
    <3>4. Starts(n + 1, k, queue[m + 1].length)
      BY <2>1, <3>1, <3>2, <3>3 DEF Chain
    <3> QED
      BY <3>1, <3>2, <3>4 DEF Starts
  <2>6. ASSUME NEW n \in DOMAIN queue', queue'[n].of = r,
               \A i \in n + 1..Len(queue') : queue'[i].of # r
        PROVE  queue'[n].length = issued[r]
    <3>1. /\ n \in 1..L - 1 /\ n + 1 \in DOMAIN queue /\ queue'[n] = queue[n + 1]
          /\ queue[n + 1].of = r
      BY <1>2, <2>6
    <3>2. \A i \in (n + 1) + 1..Len(queue) : queue[i].of # r
      <4>1. \A i \in (n + 1) + 1..L : i - 1 \in n + 1..L - 1 /\ i - 1 \in 1..L - 1 /\ (i - 1) + 1 = i
        BY <1>2, <3>1
      <4>2. \A i \in (n + 1) + 1..L : queue[i].of # r
        BY <1>2, <2>6, <4>1
      <4> QED
        BY <4>2 DEF L
    <3> QED
      BY <2>1, <3>1, <3>2 DEF Chain
  <2>7. ASSUME r \in live, \A n \in DOMAIN queue' : queue'[n].of # r, NEW k \in Rank
        PROVE  Base(r, k)' = issued[r]
    <3>1. \A i \in 1 + 1..L : queue[i].of # r
      <4>1. \A i \in 1 + 1..L : i - 1 \in DOMAIN queue' /\ i - 1 \in 1..L - 1 /\ (i - 1) + 1 = i
        BY <1>2
      <4> QED
        BY <1>2, <2>7, <4>1
    <3>2. CASE j.of = r
      <4>1. 1 \in DOMAIN queue /\ queue[1].of = r /\ \A i \in 1 + 1..Len(queue) : queue[i].of # r
        BY <1>2, <3>1, <3>2 DEF L
      <4>2. queue[1].length = issued[r]
        BY <2>1, <4>1 DEF Chain
      <4> QED
        BY <1>2, <2>3, <3>2, <4>2
    <3>3. CASE j.of # r
      <4>1. \A n \in DOMAIN queue : queue[n].of # r
        BY <1>2, <3>1, <3>3
      <4>2. Base(r, k) = issued[r]
        BY <2>1, <2>7, <4>1 DEF Chain
      <4> QED
        BY <2>1, <2>3, <3>3, <4>2
    <3> QED
      BY <3>2, <3>3
  <2>8. issued'[r] = issued[r] /\ live' = live
    BY <1>3 DEF requests, state
  <2>9. Chain(r)'
    BY <2>4, <2>5, <2>6, <2>7, <2>8 DEF Chain
  <2> QED
    BY <2>2, <2>9
<1>7. InHand'
  <2> SUFFICES ASSUME j.of \in Request, ~failed[j.of]
               PROVE  \A k \in Rank : Stored(j.of, k) <= j.length
                                      /\ j.left[k] = Stored(j.of, k) + 1..j.length
    BY <1>2, <1>3 DEF InHand, Stored, state
  <2>1. \A k \in Rank : Starts(1, k, Stored(j.of, k))
    BY <1>6
  <2>2. \A k \in Rank : Stored(j.of, k) \in Nat
    BY DEF ExportInv, ExportType, Stored
  <2> QED
    BY <1>2, <2>1, <2>2 DEF Starts, Job
<1>8. \A r \in Request : Gapless(r)'
  BY <1>3, <1>6 DEF ExportInv, Gapless, Stored, Whole, state
<1> QED
  BY <1>4, <1>5, <1>7, <1>8 DEF ExportInv

LEMMA SettleKeeps ==
  ASSUME ExportInv, Settle
  PROVE  ExportInv'
<1>1. PICK o : o = job.of
  OBVIOUS
<1>2. /\ UNCHANGED <<requests, issued, failed, queue, committed>> /\ worker = "settle"
      /\ worker' = "notify" /\ Working /\ ~Working' /\ job' = NoJob
  BY DEF Settle, JobDone, Go, Working, history
<1>3. \/ UNCHANGED <<writer, inherited, kv>>
      \/ /\ o \in Request \ live /\ Dropped(o)
         /\ \A n \in DOMAIN queue : queue[n].of # o
  <2>1. job.of \in Request \cup {NoRequest}
    BY DEF ExportInv, ExportType, Job
  <2> QED
    BY <1>1, <2>1 DEF Settle, JobDone
<1>4. /\ writer' \in [Request -> BOOLEAN] /\ inherited' \in [Request -> BOOLEAN]
      /\ kv' \in [Request -> [Rank -> Seq(Nat)]] /\ RefsLeased'
  BY <1>3, DroppedType DEF ExportInv, ExportType, RefsLeased
<1>5. NoJob \in Job
  BY ExportAssumption DEF NoJob, Job, Rank
<1>6. ExportType' /\ Captures' /\ WholeCheckpoints'
  BY <1>2, <1>4, <1>5 DEF ExportInv, ExportType, Captures, WholeCheckpoints, requests, WorkerPlaces
<1>7. Jobs' /\ Sessions' /\ InHand'
  BY <1>2 DEF ExportInv, Jobs, Within, Sessions, InHand, Exporting
<1>8. ASSUME NEW r \in Request, ~failed[r], kv'[r] = kv[r]
      PROVE  Gapless(r)'
  <2>1. Chain(r) /\ \A k \in Rank : kv[r][k] = Whole(Stored(r, k))
    BY <1>8 DEF ExportInv, Gapless
  <2>2. \A k \in Rank : Base(r, k)' = Base(r, k)
    <3>1. \A k \in Rank : Base(r, k)' = Stored(r, k)
      BY <1>2, <1>8 DEF Base, Stored
    <3>2. CASE r = o
      BY <1>1, <1>2, <1>8, <3>1, <3>2 DEF ExportInv, InHand, Base
    <3>3. CASE r # o
      BY <1>1, <3>1, <3>3 DEF Base
    <3> QED
      BY <3>2, <3>3
  <2>3. Chain(r)'
    BY <1>2, <2>1, <2>2, ChainKept DEF requests
  <2> QED
    BY <1>8, <2>1, <2>3 DEF Gapless, Stored, Whole
<1>9. ASSUME o \in Request \ live, Dropped(o), \A n \in DOMAIN queue : queue[n].of # o
      PROVE  Gapless(o)'
  <2>1. \A k \in Rank : kv'[o][k] = <<>> /\ Len(kv'[o][k]) = 0
    BY <1>9, DroppedType
  <2>2. Chain(o)'
    BY <1>2, <1>9 DEF Chain, requests
  <2> QED
    BY <2>1, <2>2 DEF Gapless, Stored, Whole
<1>10. ASSUME NEW r \in Request
       PROVE  Gapless(r)'
  <2>1. CASE failed[r]
    BY <1>2, <2>1 DEF Gapless
  <2>2. CASE kv'[r] = kv[r]
    BY <1>8, <2>1, <2>2
  <2>3. CASE kv'[r] # kv[r]
    <3>1. Dropped(o) /\ o \in Request \ live /\ \A n \in DOMAIN queue : queue[n].of # o
      BY <1>3, <2>3
    <3>2. r = o
      BY <2>3, <3>1, DroppedType
    <3> QED
      BY <1>9, <3>1, <3>2
  <2> QED
    BY <2>2, <2>3
<1> QED
  BY <1>4, <1>6, <1>7, <1>10 DEF ExportInv
-----------------------------------------------------------------------------
LEMMA StepKeeps ==
  ASSUME ExportInv, [Next]_vars
  PROVE  ExportInv'
<1>1. CASE Next
  <2>1. CASE \E r \in Request : Prefill(r) \/ Enqueue(r) \/ CaptureSkipped(r) \/ Evict(r) \/ Removed(r)
    BY <2>1, PrefillKeeps, EnqueueKeeps, SkippedKeeps, EvictKeeps, RemovedKeeps
  <2>2. CASE SaveImage
    BY <2>2, SaveImageKeeps
  <2>3. CASE WorkerStep
    BY <2>3, RestKeeps, TakeKeeps, FailsKeeps, OtherKeeps, BeginKeeps, ResetKeeps, CopyKeeps,
       ReleaseKeeps, StoreKeeps, ExportedKeeps, CommitKeeps, SettleKeeps DEF WorkerStep
  <2>4. CASE \E w \in Waiter : WaitCall(w) \/ WaitTest(w) \/ WaitTimeout(w)
    BY <2>4, RestKeeps
  <2>5. CASE StopFlag \/ StopNotify \/ StopJoin
    BY <2>5, RestKeeps
  <2> QED
    BY <1>1, <2>1, <2>2, <2>3, <2>4, <2>5 DEF Next
<1>2. CASE UNCHANGED vars
  <2>1. UNCHANGED <<requests, state, queue, job, worker, committed>>
    BY <1>2 DEF vars, pipeline, history
  <2>2. /\ cacheLen' \in [Request -> Nat] /\ computed' \in [Request -> Nat]
        /\ capture' \in Request \cup {NoRequest} /\ Captures'
    BY <2>1 DEF ExportInv, ExportType, Captures, requests, state
  <2> QED
    BY <2>1, <2>2, SameInv DEF requests
<1> QED
  BY <1>1, <1>2

\* Every reachable state has the invariant.
LEMMA ExportInvariant == Spec => []ExportInv
<1>1. Init => ExportInv
  BY InitExport
<1>2. ExportInv /\ [Next]_vars => ExportInv'
  BY StepKeeps
<1> QED
  BY <1>1, <1>2, PTL DEF Spec

\* A committed checkpoint (Qwen35PersistentCache::Export,
\* qwen3_5_persistent.inc) holds all the chunks of its length in order on every
\* rank, for any requests, ranks, prompts, budgets and failures.
THEOREM ExportWhole == Spec => []WholeCheckpoints
<1>1. ExportInv => WholeCheckpoints
  BY DEF ExportInv
<1> QED
  BY <1>1, ExportInvariant, PTL

\* References that a commit will publish are always under a session's lease, the
\* inherited read session's or the write session's.
THEOREM ExportLeased == Spec => []RefsLeased
<1>1. ExportInv => RefsLeased
  BY DEF ExportInv
<1> QED
  BY <1>1, ExportInvariant, PTL
-----------------------------------------------------------------------------
(* What is charged *)

\* The leases of the jobs of q on pages of rank k, and its jobs of a kind S.
Spread(q, k) == UNION {{n} \X q[n].left[k] : n \in DOMAIN q}
Chosen(q, S) == {n \in DOMAIN q : q[n] \in S}

\* What a job can be charged for.
Chargeable(j) == j.bytes \in {0, StateBytes} /\ \A k \in Rank : IsFiniteSet(j.left[k])

\* The counters agree with the jobs, each of which is charged for finitely much.
AccountInv ==
  /\ pinned \in [Rank -> Nat]
  /\ \A n \in DOMAIN queue : Chargeable(queue[n])
  /\ Working => Chargeable(job)
  /\ \A k \in Rank : IsFiniteSet(Leases(k))
  /\ Accounted

\* Counting: pairs with one first part, two sets apart, and sets of the same size.
LEMMA BesideOne ==
  ASSUME NEW n, NEW S, IsFiniteSet(S)
  PROVE  IsFiniteSet({n} \X S) /\ Cardinality({n} \X S) = Cardinality(S)
<1>1. IsFiniteSet({n}) /\ Cardinality({n}) = 1
  BY FS_Singleton
<1>2. IsFiniteSet({n} \X S) /\ Cardinality({n} \X S) = 1 * Cardinality(S) /\ Cardinality(S) \in Nat
  BY <1>1, FS_Product, FS_CardinalityType
<1> QED
  BY <1>2

LEMMA Disjoint ==
  ASSUME NEW S, IsFiniteSet(S), NEW T, IsFiniteSet(T), S \cap T = {}
  PROVE  IsFiniteSet(S \cup T) /\ Cardinality(S \cup T) = Cardinality(S) + Cardinality(T)
<1>1. /\ IsFiniteSet(S \cup T) /\ Cardinality(S) \in Nat /\ Cardinality(T) \in Nat
      /\ Cardinality(S \cup T) = Cardinality(S) + Cardinality(T) - Cardinality({})
  BY FS_Union, FS_CardinalityType
<1>2. Cardinality({}) = 0
  BY FS_EmptySet
<1> QED
  BY <1>1, <1>2

LEMMA OneToOne ==
  ASSUME NEW S, IsFiniteSet(S), NEW T, NEW f \in [S -> T],
         \A x, y \in S : f[x] = f[y] => x = y, \A t \in T : \E x \in S : f[x] = t
  PROVE  IsFiniteSet(T) /\ Cardinality(T) = Cardinality(S)
<1>1. f \in Bijection(S, T)
  BY DEF Bijection, Injection, Surjection, IsInjective
<1>2. ExistsBijection(S, T)
  BY <1>1 DEF ExistsBijection
<1> QED
  BY <1>2, FS_Bijection

\* A job at the end of the queue.
LEMMA SpreadAppend ==
  ASSUME NEW q \in Seq(Job), NEW j \in Job, NEW k \in Rank,
         IsFiniteSet(Spread(q, k)), IsFiniteSet(j.left[k])
  PROVE  /\ IsFiniteSet(Spread(Append(q, j), k))
         /\ Cardinality(Spread(Append(q, j), k)) = Cardinality(Spread(q, k)) + Cardinality(j.left[k])
<1> DEFINE n == Len(q) + 1
<1>1. /\ DOMAIN q = 1..Len(q) /\ DOMAIN Append(q, j) = 1..Len(q) + 1 /\ Len(q) \in Nat
      /\ Append(q, j)[n] = j /\ \A i \in 1..Len(q) : Append(q, j)[i] = q[i]
  OBVIOUS
<1>2. Spread(Append(q, j), k) = Spread(q, k) \cup ({n} \X j.left[k])
  <2>1. \A i : i \in 1..Len(q) + 1 <=> i \in 1..Len(q) \/ i = n
    BY <1>1
  <2> HIDE DEF n
  <2> QED
    BY <1>1, <2>1 DEF Spread
<1>3. Spread(q, k) \cap ({n} \X j.left[k]) = {}
  <2>1. n \notin 1..Len(q)
    BY <1>1
  <2> HIDE DEF n
  <2> QED
    BY <1>1, <2>1 DEF Spread
<1>4. PICK A, B : A = Spread(q, k) /\ B = {n} \X j.left[k]
  OBVIOUS
<1>5. IsFiniteSet(B) /\ Cardinality(B) = Cardinality(j.left[k])
  BY <1>4, BesideOne, Zenon
<1>6. IsFiniteSet(A) /\ A \cap B = {} /\ Spread(Append(q, j), k) = A \cup B
  BY <1>2, <1>3, <1>4, Zenon
<1>7. IsFiniteSet(A \cup B) /\ Cardinality(A \cup B) = Cardinality(A) + Cardinality(B)
  BY <1>5, <1>6, Disjoint
<1> QED
  BY <1>4, <1>5, <1>6, <1>7, Zenon

LEMMA ChosenAppend ==
  ASSUME NEW q \in Seq(Job), NEW j \in Job, NEW S
  PROVE  /\ IsFiniteSet(Chosen(q, S))
         /\ Cardinality(Chosen(Append(q, j), S)) = Cardinality(Chosen(q, S)) + (IF j \in S THEN 1 ELSE 0)
<1> DEFINE n == Len(q) + 1
<1>1. /\ DOMAIN q = 1..Len(q) /\ DOMAIN Append(q, j) = 1..Len(q) + 1 /\ Len(q) \in Nat
      /\ Append(q, j)[n] = j /\ \A i \in 1..Len(q) : Append(q, j)[i] = q[i]
  OBVIOUS
<1>2. IsFiniteSet(Chosen(q, S))
  <2>1. IsFiniteSet(1..Len(q))
    BY <1>1, FS_Interval
  <2>2. Chosen(q, S) \in SUBSET (1..Len(q))
    BY <1>1 DEF Chosen
  <2> QED
    BY <2>1, <2>2, FS_Subset
<1>3. n \notin Chosen(q, S)
  BY <1>1 DEF Chosen
<1>4. Chosen(Append(q, j), S) = IF j \in S THEN Chosen(q, S) \cup {n} ELSE Chosen(q, S)
  <2>1. \A i : i \in 1..Len(q) + 1 <=> i \in 1..Len(q) \/ i = n
    BY <1>1
  <2>2. n \notin 1..Len(q)
    BY <1>1
  <2> HIDE DEF n
  <2> QED
    BY <1>1, <2>1, <2>2 DEF Chosen
<1>5. Cardinality(Chosen(q, S)) \in Nat
  BY <1>2, FS_CardinalityType
<1>6. Cardinality(Chosen(q, S) \cup {n}) = Cardinality(Chosen(q, S)) + 1
  BY <1>2, <1>3, FS_AddElement
<1> QED
  BY <1>2, <1>4, <1>5, <1>6

\* The job at its front.
LEMMA TailShifts ==
  ASSUME NEW q \in Seq(Job), q # <<>>
  PROVE  /\ Head(q) = q[1] /\ Tail(q) \in Seq(Job) /\ 1 \in DOMAIN q /\ Head(q) \in Job
         /\ \A n \in DOMAIN q : n # 1 => n - 1 \in DOMAIN Tail(q) /\ Tail(q)[n - 1] = q[n]
         /\ \A n \in DOMAIN Tail(q) : /\ n + 1 \in DOMAIN q /\ n + 1 # 1 /\ (n + 1) - 1 = n
                                      /\ Tail(q)[n] = q[n + 1]
         /\ DOMAIN q \subseteq Nat
<1>1. /\ Head(q) \in Job /\ Tail(q) \in Seq(Job) /\ Len(Tail(q)) = Len(q) - 1
      /\ \A i \in 1..Len(Tail(q)) : Tail(q)[i] = q[i + 1]
  BY HeadTailProperties
<1>2. Len(q) \in Nat \ {0} /\ DOMAIN q = 1..Len(q)
  BY EmptySeq
<1>3. DOMAIN Tail(q) = 1..Len(q) - 1
  BY <1>1
<1>4. Head(q) = q[1]
  OBVIOUS
<1>5. ASSUME NEW n \in 1..Len(q), n # 1
      PROVE  n - 1 \in 1..Len(q) - 1 /\ Tail(q)[n - 1] = q[n]
  <2>1. n - 1 \in 1..Len(q) - 1 /\ (n - 1) + 1 = n
    BY <1>2, <1>5
  <2>2. n - 1 \in 1..Len(Tail(q))
    BY <1>1, <2>1, Zenon
  <2>3. Tail(q)[n - 1] = q[(n - 1) + 1]
    BY <1>1, <2>2, Zenon
  <2> QED
    BY <2>1, <2>3, Zenon
<1>6. ASSUME NEW n \in 1..Len(q) - 1
      PROVE  n + 1 \in 1..Len(q) /\ n + 1 # 1 /\ (n + 1) - 1 = n /\ Tail(q)[n] = q[n + 1]
  <2>1. n + 1 \in 1..Len(q) /\ n + 1 # 1 /\ (n + 1) - 1 = n
    BY <1>2, <1>6
  <2>2. n \in 1..Len(Tail(q))
    BY <1>1, <1>6, Zenon
  <2> QED
    BY <1>1, <2>1, <2>2, Zenon
<1>7. 1 \in 1..Len(q) /\ 1..Len(q) \subseteq Nat
  BY <1>2
<1> QED
  BY <1>1, <1>2, <1>3, <1>4, <1>5, <1>6, <1>7, Zenon

LEMMA SpreadTail ==
  ASSUME NEW q \in Seq(Job), q # <<>>, NEW k \in Rank,
         IsFiniteSet(Spread(q, k)), IsFiniteSet(Head(q).left[k])
  PROVE  /\ IsFiniteSet(Spread(Tail(q), k))
         /\ Cardinality(Spread(q, k)) = Cardinality(Spread(Tail(q), k)) + Cardinality(Head(q).left[k])
<1> DEFINE F == {1} \X q[1].left[k]
           S == Spread(q, k) \ F
           T == Spread(Tail(q), k)
           f == [x \in S |-> <<x[1] - 1, x[2]>>]
<1>1. /\ Head(q) = q[1] /\ 1 \in DOMAIN q /\ DOMAIN q \subseteq Nat
      /\ \A n \in DOMAIN q : n # 1 => n - 1 \in DOMAIN Tail(q) /\ Tail(q)[n - 1] = q[n]
      /\ \A n \in DOMAIN Tail(q) : /\ n + 1 \in DOMAIN q /\ n + 1 # 1 /\ (n + 1) - 1 = n
                                   /\ Tail(q)[n] = q[n + 1]
  BY TailShifts
<1>2. \A x \in S : /\ x = <<x[1], x[2]>> /\ x[1] \in DOMAIN q /\ x[1] # 1 /\ x[2] \in q[x[1]].left[k]
  BY <1>1 DEF Spread
<1>3. f \in [S -> T]
  BY <1>1, <1>2 DEF Spread
<1>4. \A x, y \in S : f[x] = f[y] => x = y
  <2> SUFFICES ASSUME NEW x \in S, NEW y \in S, f[x] = f[y] PROVE x = y
    OBVIOUS
  <2>1. x[1] - 1 = y[1] - 1 /\ x[2] = y[2]
    OBVIOUS
  <2>2. x[1] \in Nat /\ y[1] \in Nat
    BY <1>1, <1>2
  <2>3. x[1] = y[1]
    BY <2>1, <2>2
  <2> QED
    BY <1>2, <2>1, <2>3
<1>5. \A t \in T : \E x \in S : f[x] = t
  <2> SUFFICES ASSUME NEW t \in T PROVE \E x \in S : f[x] = t
    OBVIOUS
  <2>1. PICK n \in DOMAIN Tail(q) : t \in {n} \X Tail(q)[n].left[k]
    BY DEF Spread
  <2>2. t = <<n, t[2]>> /\ t[2] \in q[n + 1].left[k] /\ n + 1 \in DOMAIN q /\ n + 1 # 1
    BY <1>1, <2>1
  <2>3. <<n + 1, t[2]>> \in S
    BY <2>2 DEF Spread
  <2>4. f[<<n + 1, t[2]>>] = <<(n + 1) - 1, t[2]>>
    BY <2>3
  <2> QED
    BY <1>1, <2>1, <2>2, <2>3, <2>4
<1>7. IsFiniteSet(S)
  BY FS_Subset
<1>8. IsFiniteSet(T) /\ Cardinality(T) = Cardinality(S)
  <2> HIDE DEF S, T, f
  <2> QED
    BY <1>3, <1>4, <1>5, <1>7, OneToOne
<1>9. IsFiniteSet(F) /\ Cardinality(F) = Cardinality(Head(q).left[k])
  <2>1. Head(q).left[k] = q[1].left[k]
    BY <1>1, Zenon
  <2>2. IsFiniteSet(q[1].left[k])
    BY <2>1, Zenon
  <2> QED
    BY <2>1, <2>2, BesideOne, Zenon
<1>10. Spread(q, k) = S \cup F /\ S \cap F = {}
  BY <1>1 DEF Spread
<1> HIDE DEF F, S, T, f
<1>11. Cardinality(Spread(q, k)) = Cardinality(S) + Cardinality(F)
  BY <1>7, <1>9, <1>10, Disjoint
<1>12. IsFiniteSet(Spread(Tail(q), k)) /\ Cardinality(Spread(Tail(q), k)) = Cardinality(S)
  BY <1>8 DEF T
<1> QED
  BY <1>9, <1>11, <1>12

LEMMA ChosenTail ==
  ASSUME NEW q \in Seq(Job), q # <<>>, NEW C
  PROVE  /\ Cardinality(Chosen(Tail(q), C)) \in Nat
         /\ Cardinality(Chosen(q, C)) = Cardinality(Chosen(Tail(q), C)) + (IF Head(q) \in C THEN 1 ELSE 0)
<1> DEFINE S == Chosen(q, C) \ {1}
           T == Chosen(Tail(q), C)
           f == [n \in S |-> n - 1]
<1>1. /\ Head(q) = q[1] /\ 1 \in DOMAIN q /\ DOMAIN q \subseteq Nat /\ Head(q) \in Job
      /\ \A n \in DOMAIN q : n # 1 => n - 1 \in DOMAIN Tail(q) /\ Tail(q)[n - 1] = q[n]
      /\ \A n \in DOMAIN Tail(q) : /\ n + 1 \in DOMAIN q /\ n + 1 # 1 /\ (n + 1) - 1 = n
                                   /\ Tail(q)[n] = q[n + 1]
  BY TailShifts
<1>2. f \in [S -> T]
  BY <1>1 DEF Chosen
<1>3. \A x, y \in S : f[x] = f[y] => x = y
  BY <1>1 DEF Chosen
<1>4. \A n \in T : n + 1 \in S /\ f[n + 1] = n
  BY <1>1 DEF Chosen
<1>6. IsFiniteSet(Chosen(q, C)) /\ IsFiniteSet(S)
  BY <1>1, ChosenAppend, FS_Subset
<1>7. Cardinality(T) = Cardinality(S) /\ Cardinality(S) \in Nat
  <2> HIDE DEF S, T, f
  <2> QED
    BY <1>2, <1>3, <1>4, <1>6, OneToOne, FS_CardinalityType
<1>8. Cardinality(S) = IF 1 \in Chosen(q, C) THEN Cardinality(Chosen(q, C)) - 1 ELSE Cardinality(Chosen(q, C))
  BY <1>6, FS_RemoveElement
<1>9. Cardinality(Chosen(q, C)) \in Nat
  BY <1>6, FS_CardinalityType
<1>10. 1 \in Chosen(q, C) <=> Head(q) \in C
  BY <1>1 DEF Chosen
<1> HIDE DEF S, f
<1> QED
  BY <1>7, <1>8, <1>9, <1>10

\* The kinds of jobs that are charged for.
WithBytes == {j \in Job : j.bytes # 0}
Checkpoints == {j \in Job : j.mark}

\* What is charged, in terms of the queue.
LEMMA Charges ==
  ASSUME ExportInv
  PROVE  /\ queue \in Seq(Job) /\ job \in Job
         /\ \A k \in Rank : Leases(k) = Spread(queue, k)
         /\ WithState = Chosen(queue, WithBytes) /\ Marked = Chosen(queue, Checkpoints)
<1>1. queue \in Seq(Job) /\ job \in Job
  BY DEF ExportInv, ExportType
<1>2. \A n \in DOMAIN queue : queue[n] \in Job
  BY <1>1
<1> QED
  BY <1>1, <1>2 DEF Leases, Spread, WithState, Marked, Chosen, WithBytes, Checkpoints

\* .. and after a step.
LEMMA ChargesNext ==
  ASSUME queue' \in Seq(Job)
  PROVE  /\ \A k \in Rank : Leases(k)' = Spread(queue', k)
         /\ WithState' = Chosen(queue', WithBytes) /\ Marked' = Chosen(queue', Checkpoints)
<1>1. \A n \in DOMAIN queue' : queue'[n] \in Job
  OBVIOUS
<1> QED
  BY <1>1 DEF Leases, Spread, WithState, Marked, Chosen, WithBytes, Checkpoints

\* The bytes of one more job.
LEMMA OneMore ==
  ASSUME NEW j \in Job, Chargeable(j), NEW c \in Nat
  PROVE  StateBytes * (c + (IF j \in WithBytes THEN 1 ELSE 0)) = StateBytes * c + j.bytes
<1>1. PICK b \in Nat : b = StateBytes
  BY ExportAssumption
<1>2. b * (c + 1) = b * c + b /\ b * (c + 0) = b * c + 0
  OBVIOUS
<1>3. j \in WithBytes <=> j.bytes # 0
  BY DEF WithBytes
<1>4. j.bytes = 0 \/ j.bytes = b
  BY <1>1 DEF Chargeable
<1>5. CASE j.bytes = 0
  BY <1>1, <1>2, <1>3, <1>5, Zenon
<1>6. CASE j.bytes # 0
  BY <1>1, <1>2, <1>3, <1>4, <1>6, Zenon
<1> QED
  BY <1>5, <1>6

\* Nothing is charged at first.
LEMMA InitAccount == Init => AccountInv
<1> SUFFICES ASSUME Init PROVE AccountInv
  OBVIOUS
<1>1. queue = <<>> /\ DOMAIN queue = {} /\ ~Working
  BY DEF Init, Working
<1>2. WithState = {} /\ Marked = {} /\ \A k \in Rank : Leases(k) = {}
  BY <1>1 DEF WithState, Marked, Leases
<1>3. IsFiniteSet({}) /\ Cardinality({}) = 0
  BY FS_EmptySet
<1>4. /\ StateBytes \in Nat /\ Budget \in Nat /\ HostLimit \in Nat /\ CheckpointLimit \in Nat
  BY ExportAssumption
<1>5. /\ pinned \in [Rank -> Nat] /\ \A k \in Rank : pinned[k] = 0
      /\ queuedStateBytes = 0 /\ checkpointJobs = 0
  BY DEF Init
<1>6. StateBytes * 0 = 0
  <2>1. PICK b \in Nat : b = StateBytes
    BY <1>4
  <2>2. b * 0 = 0
    OBVIOUS
  <2> QED
    BY <2>1, <2>2, Zenon
<1>7. Cardinality(WithState) = 0 /\ Cardinality(Marked) = 0 /\ \A k \in Rank : Cardinality(Leases(k)) = 0
  BY <1>2, <1>3, Zenon
<1>8. \A n : Current(n) = 0
  BY <1>1 DEF Current
<1>9. \A k \in Rank : /\ pinned[k] = Cardinality(Leases(k)) + Current(Cardinality(job.left[k]))
                      /\ pinned[k] <= Budget
  BY <1>4, <1>5, <1>7, <1>8
<1>10. /\ queuedStateBytes = StateBytes * Cardinality(WithState) + Current(job.bytes)
       /\ queuedStateBytes <= HostLimit
       /\ checkpointJobs = Cardinality(Marked) + Current(IF job.mark THEN 1 ELSE 0)
       /\ checkpointJobs <= CheckpointLimit
  <2>1. StateBytes * Cardinality(WithState) = 0
    BY <1>6, <1>7, Zenon
  <2> QED
    BY <1>4, <1>5, <1>7, <1>8, <2>1
<1>11. Accounted
  BY <1>9, <1>10 DEF Accounted
<1>12. \A k \in Rank : IsFiniteSet(Leases(k))
  BY <1>2, <1>3, Zenon
<1> QED
  BY <1>1, <1>5, <1>11, <1>12 DEF AccountInv

\* A step that takes or gives nothing.
LEMMA SameAccount ==
  ASSUME AccountInv, UNCHANGED <<queue, budgets>>, Working' <=> Working,
         Working => job'.left = job.left /\ job'.bytes = job.bytes /\ job'.mark = job.mark
  PROVE  AccountInv'
<1>1. \A k \in Rank : Leases(k)' = Leases(k)
  BY Zenon DEF Leases
<1>2. WithState' = WithState /\ Marked' = Marked
  BY DEF WithState, Marked
<1>3. UNCHANGED <<pinned, queuedStateBytes, checkpointJobs>>
  BY DEF budgets
<1>4. (Working => Chargeable(job))'
  BY DEF AccountInv, Chargeable
<1>5. Accounted'
  <2>1. CASE Working
    BY <1>1, <1>2, <1>3, <2>1 DEF AccountInv, Accounted, Current
  <2>2. CASE ~Working
    BY <1>1, <1>2, <1>3, <2>2 DEF AccountInv, Accounted, Current
  <2> QED
    BY <2>1, <2>2
<1> QED
  BY <1>1, <1>3, <1>4, <1>5 DEF AccountInv, Chargeable

\* A job is queued with what it is charged for.
LEMMA QueuedAccount ==
  ASSUME ExportInv, ExportInv', AccountInv, NEW j \in Job, Chargeable(j), queue' = Append(queue, j),
         UNCHANGED <<job, worker>>, pinned' \in [Rank -> Nat],
         \A k \in Rank : /\ pinned'[k] = pinned[k] + Cardinality(j.left[k])
                         /\ pinned'[k] <= Budget,
         queuedStateBytes' = queuedStateBytes + j.bytes, queuedStateBytes' <= HostLimit,
         checkpointJobs' = checkpointJobs + (IF j.mark THEN 1 ELSE 0),
         checkpointJobs' <= CheckpointLimit
  PROVE  AccountInv'
<1>1. /\ queue \in Seq(Job)
      /\ \A k \in Rank : Leases(k) = Spread(queue, k)
      /\ WithState = Chosen(queue, WithBytes) /\ Marked = Chosen(queue, Checkpoints)
  BY Charges
<1>2. /\ queue' \in Seq(Job)
      /\ \A k \in Rank : Leases(k)' = Spread(queue', k)
      /\ WithState' = Chosen(queue', WithBytes) /\ Marked' = Chosen(queue', Checkpoints)
  BY <1>1, ChargesNext
<1>3. (Working' <=> Working)
  BY DEF Working
<1>4. \A n \in DOMAIN queue' : Chargeable(queue'[n])
  BY <1>1 DEF AccountInv, Chargeable
<1>5. ASSUME NEW k \in Rank
      PROVE  /\ IsFiniteSet(Leases(k)')
             /\ Cardinality(Leases(k)') = Cardinality(Leases(k)) + Cardinality(j.left[k])
  <2>1. IsFiniteSet(Spread(queue, k)) /\ IsFiniteSet(j.left[k])
    BY <1>1 DEF AccountInv, Chargeable
  <2> QED
    BY <1>1, <1>2, <2>1, SpreadAppend
<1>6. PICK c \in Nat, d \in Nat :
        /\ c = Cardinality(WithState) /\ d = Cardinality(Marked)
        /\ Cardinality(WithState') = c + (IF j \in WithBytes THEN 1 ELSE 0)
        /\ Cardinality(Marked') = d + (IF j.mark THEN 1 ELSE 0)
  <2>1. j \in Checkpoints <=> j.mark
    BY DEF Checkpoints
  <2> QED
    BY <1>1, <1>2, <2>1, ChosenAppend, FS_CardinalityType
<1>7. /\ \A n : Current(n)' = Current(n')
      /\ \A k \in Rank : Current(Cardinality(job.left[k]))' = Current(Cardinality(job.left[k]))
      /\ Current(job.bytes)' = Current(job.bytes)
      /\ Current(IF job.mark THEN 1 ELSE 0)' = Current(IF job.mark THEN 1 ELSE 0)
  BY <1>3 DEF Current
<1>8. ASSUME NEW k \in Rank
      PROVE  pinned'[k] = Cardinality(Leases(k)') + Current(Cardinality(job.left[k]))'
  <2>1. PICK x, y, z : /\ x = Cardinality(Leases(k)) /\ y = Cardinality(j.left[k])
                       /\ z = Current(Cardinality(job.left[k]))
    OBVIOUS
  <2>2. x \in Nat /\ y \in Nat /\ z \in Nat
    BY <2>1, FS_CardinalityType DEF AccountInv, Chargeable, Current
  <2>3. pinned[k] = x + z
    BY <2>1, Zenon DEF AccountInv, Accounted
  <2>4. pinned'[k] = (x + z) + y
    BY <2>1, <2>3, Zenon
  <2>5. Cardinality(Leases(k)') = x + y
    BY <1>5, <2>1, Zenon
  <2>6. pinned'[k] = (x + y) + z
    BY <2>2, <2>4
  <2> QED
    BY <1>7, <2>1, <2>5, <2>6, Zenon
<1>9. queuedStateBytes' = StateBytes * Cardinality(WithState') + Current(job.bytes)'
  <2>1. PICK x, y, z : x = StateBytes * c /\ y = j.bytes /\ z = Current(job.bytes)
    OBVIOUS
  <2>2. StateBytes \in Nat /\ x \in Nat /\ y \in Nat /\ z \in Nat
    <3>1. PICK b \in Nat : b = StateBytes
      BY ExportAssumption
    <3>2. b * c \in Nat
      OBVIOUS
    <3> QED
      BY <2>1, <3>1, <3>2 DEF AccountInv, Chargeable, Current
  <2>3. StateBytes * Cardinality(WithState') = x + y
    BY <1>6, <2>1, OneMore, Zenon
  <2>4. queuedStateBytes = x + z
    BY <1>6, <2>1, Zenon DEF AccountInv, Accounted
  <2>5. queuedStateBytes' = (x + z) + y
    BY <2>1, <2>4, Zenon
  <2>6. queuedStateBytes' = (x + y) + z
    BY <2>2, <2>5
  <2> QED
    BY <1>7, <2>1, <2>3, <2>6, Zenon
<1>10. checkpointJobs' = Cardinality(Marked') + Current(IF job.mark THEN 1 ELSE 0)'
  <2>1. PICK y \in Nat, z \in Nat :
          y = (IF j.mark THEN 1 ELSE 0) /\ z = Current(IF job.mark THEN 1 ELSE 0)
    BY DEF Current
  <2>2. checkpointJobs' = (d + z) + y
    BY <1>6, <2>1, Zenon DEF AccountInv, Accounted
  <2>3. Cardinality(Marked') = d + y
    BY <1>6, <2>1, Zenon
  <2>4. checkpointJobs' = (d + y) + z
    BY <2>2
  <2> QED
    BY <1>7, <2>1, <2>3, <2>4, Zenon
<1>11. Accounted'
  BY <1>8, <1>9, <1>10 DEF Accounted
<1>12. (Working => Chargeable(job))'
  BY <1>3 DEF AccountInv, Chargeable
<1> QED
  BY <1>4, <1>5, <1>11, <1>12 DEF AccountInv, Chargeable

\* A job goes from the queue to the worker, and its charges with it.
LEMMA TakeAccount ==
  ASSUME ExportInv, AccountInv, Take
  PROVE  AccountInv'
<1>1. /\ queue # <<>> /\ ~Working /\ Working' /\ job' = Head(queue) /\ queue' = Tail(queue)
      /\ UNCHANGED <<pinned, queuedStateBytes, checkpointJobs>>
  BY DEF Take, Working, Go, budgets
<1>2. /\ queue \in Seq(Job)
      /\ \A k \in Rank : Leases(k) = Spread(queue, k)
      /\ WithState = Chosen(queue, WithBytes) /\ Marked = Chosen(queue, Checkpoints)
  BY Charges
<1>3. /\ Head(queue) = queue[1] /\ 1 \in DOMAIN queue /\ Tail(queue) \in Seq(Job)
      /\ \A n \in DOMAIN Tail(queue) : n + 1 \in DOMAIN queue /\ Tail(queue)[n] = queue[n + 1]
      /\ Head(queue) \in Job
  BY <1>1, <1>2, TailShifts
<1>4. /\ \A k \in Rank : Leases(k)' = Spread(queue', k)
      /\ WithState' = Chosen(queue', WithBytes) /\ Marked' = Chosen(queue', Checkpoints)
  BY <1>1, <1>3, ChargesNext
<1>5. PICK j : j = Head(queue)
  OBVIOUS
<1>6. j \in Job /\ Chargeable(j) /\ job' = j /\ \A n \in DOMAIN queue' : Chargeable(queue'[n])
  BY <1>1, <1>3, <1>5 DEF AccountInv
<1>7. ASSUME NEW k \in Rank
      PROVE  /\ IsFiniteSet(Leases(k)')
             /\ Cardinality(Leases(k)) = Cardinality(Leases(k)') + Cardinality(j.left[k])
  <2>1. IsFiniteSet(Spread(queue, k)) /\ IsFiniteSet(Head(queue).left[k])
    BY <1>2, <1>5, <1>6 DEF AccountInv, Chargeable
  <2> QED
    BY <1>1, <1>2, <1>4, <1>5, <2>1, SpreadTail
<1>8. PICK c \in Nat, d \in Nat :
        /\ c = Cardinality(WithState') /\ d = Cardinality(Marked')
        /\ Cardinality(WithState) = c + (IF j \in WithBytes THEN 1 ELSE 0)
        /\ Cardinality(Marked) = d + (IF j.mark THEN 1 ELSE 0)
  <2>1. j \in Checkpoints <=> j.mark
    BY <1>6 DEF Checkpoints
  <2> QED
    BY <1>1, <1>2, <1>4, <1>5, <2>1, ChosenTail
<1>9. /\ \A k \in Rank : Current(Cardinality(job.left[k]))' = Cardinality(j.left[k])
      /\ Current(job.bytes)' = j.bytes
      /\ Current(IF job.mark THEN 1 ELSE 0)' = IF j.mark THEN 1 ELSE 0
  BY <1>1, <1>6 DEF Current
<1>10. /\ \A k \in Rank : pinned[k] = Cardinality(Leases(k)) + 0 /\ pinned[k] <= Budget
       /\ queuedStateBytes = StateBytes * Cardinality(WithState) + 0 /\ queuedStateBytes <= HostLimit
       /\ checkpointJobs = Cardinality(Marked) + 0 /\ checkpointJobs <= CheckpointLimit
  BY <1>1, Zenon DEF AccountInv, Accounted, Current
<1>11. ASSUME NEW k \in Rank
       PROVE  pinned'[k] = Cardinality(Leases(k)') + Current(Cardinality(job.left[k]))'
  <2>1. Cardinality(Leases(k)') \in Nat /\ Cardinality(j.left[k]) \in Nat
    BY <1>6, <1>7, FS_CardinalityType DEF Chargeable
  <2> QED
    BY <1>1, <1>7, <1>9, <1>10, <2>1
<1>12. queuedStateBytes' = StateBytes * Cardinality(WithState') + Current(job.bytes)'
  <2>1. StateBytes * Cardinality(WithState) = StateBytes * c + j.bytes
    BY <1>6, <1>8, OneMore, Zenon
  <2>2. StateBytes * c \in Nat /\ j.bytes \in Nat
    BY <1>6, ExportAssumption DEF Chargeable
  <2>3. queuedStateBytes' = StateBytes * c + j.bytes
    BY <1>1, <1>10, <2>1, <2>2
  <2> QED
    BY <1>8, <1>9, <2>3, Zenon
<1>13. checkpointJobs' = Cardinality(Marked') + Current(IF job.mark THEN 1 ELSE 0)'
  BY <1>1, <1>8, <1>9, <1>10
<1>14. Accounted'
  BY <1>1, <1>10, <1>11, <1>12, <1>13 DEF Accounted
<1> QED
  BY <1>1, <1>6, <1>7, <1>14 DEF AccountInv, Chargeable

\* The host counters are natural numbers.
LEMMA HostCounters ==
  ASSUME ExportInv, AccountInv
  PROVE  queuedStateBytes \in Nat /\ checkpointJobs \in Nat
<1>1. Cardinality(WithState) \in Nat /\ Cardinality(Marked) \in Nat
  BY Charges, ChosenAppend, FS_CardinalityType
<1>2. PICK b \in Nat, c \in Nat, d \in Nat, x \in Nat, y \in Nat :
        /\ b = StateBytes /\ c = Cardinality(WithState) /\ d = Cardinality(Marked)
        /\ x = Current(job.bytes) /\ y = Current(IF job.mark THEN 1 ELSE 0)
  BY <1>1, ExportAssumption DEF AccountInv, Chargeable, Current
<1>3. queuedStateBytes = b * c + x /\ checkpointJobs = d + y
  BY <1>2, Zenon DEF AccountInv, Accounted
<1>4. b * c + x \in Nat /\ d + y \in Nat
  OBVIOUS
<1> QED
  BY <1>3, <1>4, Zenon

\* A capture and an image are queued within the limits tested before.
LEMMA CaptureAccount ==
  ASSUME ExportInv, ExportInv', AccountInv, NEW r \in Request, Enqueue(r)
  PROVE  AccountInv'
<1>0. PICK j : j = CaptureJob(r, issued[r], computed[r])
  OBVIOUS
<1>1. capture = r /\ issued[r] \in Nat /\ computed[r] \in Nat /\ ExportType
  BY DEF Enqueue, ExportInv, ExportType
<1>2. j \in Job
  BY <1>0, <1>1, JobsTyped
<1>3. /\ \A k \in Rank : j.left[k] = issued[r] + 1..computed[r]
      /\ j.bytes = IF j.mark THEN StateBytes ELSE 0
  <2>1. \A k \in Rank : j.left[k] = issued[r] + 1..computed[r]
    BY <1>0 DEF CaptureJob
  <2>2. j.mark <=> computed[r] \in Marks[r]
    BY <1>0 DEF CaptureJob
  <2>3. j.bytes = IF computed[r] \in Marks[r] THEN StateBytes ELSE 0
    BY <1>0 DEF CaptureJob
  <2>4. j.bytes = IF j.mark THEN StateBytes ELSE 0
    BY <2>2, <2>3, Zenon
  <2> QED
    BY <2>1, <2>4
<1>4. IsFiniteSet(issued[r] + 1..computed[r])
  BY <1>1, FS_Interval
<1>5. Chargeable(j)
  BY <1>3, <1>4 DEF Chargeable
<1>6. \A k \in Rank : Cardinality(j.left[k]) \in Nat
  BY <1>5, FS_CardinalityType DEF Chargeable
<1>7. /\ queue' = Append(queue, j) /\ UNCHANGED <<job, worker>>
      /\ pinned' = [k \in Rank |-> pinned[k] + Cardinality(j.left[k])]
      /\ queuedStateBytes' = queuedStateBytes + j.bytes
      /\ checkpointJobs' = checkpointJobs + (IF j.mark THEN 1 ELSE 0)
  BY <1>0, Zenon DEF Enqueue
<1>8. /\ j.mark => checkpointJobs < CheckpointLimit /\ j.bytes <= HostLimit - queuedStateBytes
      /\ \A k \in Rank : Cardinality(j.left[k]) + pinned[k] <= Budget
  BY <1>0, Zenon DEF Enqueue, Admitted
<1>9. /\ pinned \in [Rank -> Nat]
      /\ StateBytes \in Nat /\ HostLimit \in Nat /\ CheckpointLimit \in Nat /\ Budget \in Nat
      /\ queuedStateBytes <= HostLimit /\ checkpointJobs <= CheckpointLimit
  BY ExportAssumption DEF AccountInv, Accounted
<1>10. queuedStateBytes \in Nat /\ checkpointJobs \in Nat
  BY HostCounters
<1>11. /\ pinned' \in [Rank -> Nat]
       /\ \A k \in Rank : pinned'[k] = pinned[k] + Cardinality(j.left[k]) /\ pinned'[k] <= Budget
  BY <1>6, <1>7, <1>8, <1>9
<1>12. queuedStateBytes' <= HostLimit /\ checkpointJobs' <= CheckpointLimit
  BY <1>3, <1>7, <1>8, <1>9, <1>10
<1> QED
  BY <1>2, <1>5, <1>7, <1>11, <1>12, QueuedAccount

LEMMA ImageAccount ==
  ASSUME ExportInv, ExportInv', AccountInv, SaveImage
  PROVE  AccountInv'
<1>0. PICK j : j = ImageJob
  OBVIOUS
<1>1. /\ j \in Job /\ j.bytes = StateBytes /\ j.mark = FALSE
      /\ \A k \in Rank : j.left[k] = {}
  <2>1. NoJob \in Job /\ NoJob.mark = FALSE /\ \A k \in Rank : NoJob.left[k] = {}
    BY ExportAssumption DEF NoJob, Job, Rank
  <2> QED
    BY <1>0, <2>1, ExportAssumption DEF ImageJob, NoJob, Job
<1>2. IsFiniteSet({}) /\ Cardinality({}) = 0
  BY FS_EmptySet
<1>3. Chargeable(j) /\ \A k \in Rank : Cardinality(j.left[k]) = 0
  BY <1>1, <1>2 DEF Chargeable
<1>4. /\ queue' = Append(queue, j) /\ UNCHANGED <<job, worker, pinned, checkpointJobs>>
      /\ queuedStateBytes' = queuedStateBytes + j.bytes
      /\ j.bytes <= HostLimit - queuedStateBytes
  BY <1>0, <1>1 DEF SaveImage
<1>5. /\ pinned \in [Rank -> Nat] /\ \A k \in Rank : pinned[k] <= Budget
      /\ StateBytes \in Nat /\ HostLimit \in Nat /\ checkpointJobs <= CheckpointLimit
      /\ queuedStateBytes \in Nat /\ checkpointJobs \in Nat
  BY ExportAssumption, HostCounters DEF AccountInv, Accounted
<1>6. /\ pinned' \in [Rank -> Nat]
      /\ \A k \in Rank : pinned'[k] = pinned[k] + Cardinality(j.left[k]) /\ pinned'[k] <= Budget
  BY <1>3, <1>4, <1>5
<1>7. /\ queuedStateBytes' <= HostLimit
      /\ checkpointJobs' = checkpointJobs + (IF j.mark THEN 1 ELSE 0)
      /\ checkpointJobs' <= CheckpointLimit
  BY <1>1, <1>4, <1>5
<1> QED
  BY <1>1, <1>3, <1>4, <1>6, <1>7, QueuedAccount

\* A page that was copied goes back.
LEMMA ReleaseAccount ==
  ASSUME ExportInv, AccountInv, ReleasePages
  PROVE  AccountInv'
<1>0. PICK k, i, S : k = job.out[1] /\ i = job.out[2] /\ S = job.left[k]
  OBVIOUS
<1>1. Working /\ Working' /\ worker \in Exporting /\ worker = "copied"
  BY DEF ReleasePages, Go, Working, Exporting
<1>2. /\ job \in Job /\ job.of \in Request /\ ~failed[job.of]
      /\ k \in Rank /\ i = Stored(job.of, k) + 1 /\ i <= job.length
      /\ S = Stored(job.of, k) + 1..job.length
      /\ Stored(job.of, k) \in Nat /\ job.length \in Nat
  BY <1>0, <1>1, Whereabouts DEF Job
<1>3. i \in S
  BY <1>2
<1>4. /\ UNCHANGED <<queue, queuedStateBytes, checkpointJobs>>
      /\ job' = [job EXCEPT !.left[k] = @ \ {i}] /\ pinned' = [pinned EXCEPT ![k] = @ - 1]
  BY <1>0 DEF ReleasePages
<1>5. /\ job'.left = [job.left EXCEPT ![k] = S \ {i}]
      /\ job'.bytes = job.bytes /\ job'.mark = job.mark
  BY <1>0, <1>2, <1>4 DEF Job
<1>6. job.left \in [Rank -> SUBSET Nat]
  BY <1>2 DEF Job
<1>7. job'.left[k] = S \ {i} /\ \A x \in Rank \ {k} : job'.left[x] = job.left[x]
  BY <1>2, <1>5, <1>6
<1>8. IsFiniteSet(S) /\ Chargeable(job)
  BY <1>0, <1>1, <1>2 DEF AccountInv, Chargeable
<1>9. IsFiniteSet(S \ {i}) /\ Cardinality(S \ {i}) = Cardinality(S) - 1
  BY <1>3, <1>8, FS_RemoveElement
<1>10. /\ \A x \in Rank : Leases(x)' = Leases(x)
       /\ WithState' = WithState /\ Marked' = Marked
  BY <1>4, Zenon DEF Leases, WithState, Marked
<1>11. (Chargeable(job))'
  BY <1>5, <1>7, <1>8, <1>9 DEF Chargeable
<1>12. \A x \in Rank : /\ pinned[x] = Cardinality(Leases(x)) + Cardinality(job.left[x])
                       /\ pinned[x] \in Nat /\ pinned[x] <= Budget /\ Cardinality(Leases(x)) \in Nat
  BY <1>1, FS_CardinalityType DEF AccountInv, Accounted, Current
<1>13. ASSUME NEW x \in Rank
       PROVE  /\ pinned'[x] = Cardinality(Leases(x)) + Cardinality(job'.left[x])
              /\ pinned'[x] \in Nat /\ pinned'[x] <= Budget
  <2>1. CASE x = k
    <3>1. pinned'[x] = pinned[x] - 1
      BY <1>4, <2>1 DEF AccountInv
    <3>2. Cardinality(S \ {i}) \in Nat /\ Cardinality(S) \in Nat
      BY <1>8, <1>9, FS_CardinalityType
    <3>3. Cardinality(job'.left[x]) = Cardinality(S) - 1 /\ job.left[x] = S
      BY <1>0, <1>7, <1>9, <2>1
    <3>4. Budget \in Nat
      BY ExportAssumption
    <3> QED
      BY <1>9, <1>12, <3>1, <3>2, <3>3, <3>4
  <2>2. CASE x # k
    <3>1. pinned'[x] = pinned[x] /\ job'.left[x] = job.left[x]
      BY <1>4, <1>7, <2>2 DEF AccountInv
    <3> QED
      BY <1>12, <3>1
  <2> QED
    BY <2>1, <2>2
<1>14. pinned' \in [Rank -> Nat]
  <2>1. DOMAIN pinned' = Rank /\ pinned' = [x \in Rank |-> pinned'[x]]
    BY <1>4 DEF AccountInv
  <2> QED
    BY <1>13, <2>1
<1>15. Accounted'
  <2>1. \A x \in Rank : /\ pinned'[x] = Cardinality(Leases(x)') + Current(Cardinality(job.left[x]))'
                        /\ pinned'[x] <= Budget
    BY <1>1, <1>10, <1>13 DEF Current
  <2>2. /\ queuedStateBytes' = StateBytes * Cardinality(WithState') + Current(job.bytes)'
        /\ queuedStateBytes' <= HostLimit
        /\ checkpointJobs' = Cardinality(Marked') + Current(IF job.mark THEN 1 ELSE 0)'
        /\ checkpointJobs' <= CheckpointLimit
    BY <1>1, <1>4, <1>5, <1>10, Zenon DEF AccountInv, Accounted, Current
  <2> QED
    BY <2>1, <2>2 DEF Accounted
<1> QED
  BY <1>4, <1>10, <1>11, <1>14, <1>15 DEF AccountInv, Chargeable

\* The job is done, and with it what it was charged for.
LEMMA SettleAccount ==
  ASSUME ExportInv, AccountInv, Settle
  PROVE  AccountInv'
<1>1. /\ Working /\ ~Working' /\ UNCHANGED queue
      /\ pinned' = [k \in Rank |-> pinned[k] - Cardinality(job.left[k])]
      /\ queuedStateBytes' = queuedStateBytes - job.bytes
      /\ checkpointJobs' = checkpointJobs - (IF job.mark THEN 1 ELSE 0)
  BY DEF Settle, Uncharged, JobDone, Go, Working
<1>2. /\ \A x \in Rank : Leases(x)' = Leases(x)
      /\ WithState' = WithState /\ Marked' = Marked
  BY <1>1, Zenon DEF Leases, WithState, Marked
<1>3. Chargeable(job) /\ StateBytes \in Nat /\ Budget \in Nat /\ HostLimit \in Nat /\ CheckpointLimit \in Nat
  BY <1>1, ExportAssumption DEF AccountInv
<1>4. \A x \in Rank : /\ pinned[x] = Cardinality(Leases(x)) + Cardinality(job.left[x])
                      /\ pinned[x] <= Budget
                      /\ Cardinality(Leases(x)) \in Nat /\ Cardinality(job.left[x]) \in Nat
  BY <1>1, <1>3, FS_CardinalityType DEF AccountInv, Accounted, Chargeable, Current
<1>5. \A x \in Rank : /\ pinned'[x] = Cardinality(Leases(x)) /\ pinned'[x] \in Nat
                      /\ pinned'[x] <= Budget
  BY <1>1, <1>3, <1>4
<1>6. pinned' \in [Rank -> Nat]
  BY <1>1, <1>5
<1>7. PICK c \in Nat, d \in Nat, b \in Nat :
        c = Cardinality(WithState) /\ d = Cardinality(Marked) /\ b = StateBytes
  BY <1>3, Charges, ChosenAppend, FS_CardinalityType
<1>8. /\ queuedStateBytes = b * c + job.bytes /\ queuedStateBytes <= HostLimit
      /\ checkpointJobs = d + (IF job.mark THEN 1 ELSE 0) /\ checkpointJobs <= CheckpointLimit
  BY <1>1, <1>7, Zenon DEF AccountInv, Accounted, Current
<1>9. b * c \in Nat /\ job.bytes \in Nat
  BY <1>3 DEF Chargeable
<1>10. /\ queuedStateBytes' = b * c /\ queuedStateBytes' <= HostLimit
       /\ checkpointJobs' = d /\ checkpointJobs' <= CheckpointLimit
  BY <1>1, <1>3, <1>8, <1>9
<1>11. \A n : Current(n)' = 0
  BY <1>1 DEF Current
<1>12. Accounted'
  <2>1. \A x \in Rank : /\ pinned'[x] = Cardinality(Leases(x)') + Current(Cardinality(job.left[x]))'
                        /\ pinned'[x] <= Budget
    BY <1>1, <1>2, <1>4, <1>5 DEF Current
  <2>2. /\ queuedStateBytes' = StateBytes * Cardinality(WithState') + Current(job.bytes)'
        /\ queuedStateBytes' <= HostLimit
    <3>1. Current(job.bytes)' = 0 /\ StateBytes * Cardinality(WithState') = b * c
      BY <1>1, <1>2, <1>7, Zenon DEF Current
    <3> QED
      BY <1>9, <1>10, <3>1
  <2>3. /\ checkpointJobs' = Cardinality(Marked') + Current(IF job.mark THEN 1 ELSE 0)'
        /\ checkpointJobs' <= CheckpointLimit
    BY <1>1, <1>2, <1>7, <1>10 DEF Current
  <2> QED
    BY <2>1, <2>2, <2>3 DEF Accounted
<1> QED
  BY <1>1, <1>2, <1>6, <1>12 DEF AccountInv, Chargeable

\* The steps that leave the accounts alone.
LEMMA OthersAccount ==
  ASSUME ExportInv, AccountInv,
         \/ \E r \in Request : Prefill(r) \/ CaptureSkipped(r) \/ Evict(r) \/ Removed(r)
         \/ Rest \/ ExportFails \/ ExportOther \/ BeginWrite \/ ResetInherited
         \/ CopyBundle \/ StoreBytes \/ Exported \/ Commit \/ NotifyAll
         \/ \E w \in Waiter : WaitCall(w) \/ WaitTest(w) \/ WaitTimeout(w)
         \/ StopFlag \/ StopNotify \/ StopJoin \/ UNCHANGED vars
  PROVE  AccountInv'
<1> USE DEF pipeline, Working, Go
<1>1. CASE \E r \in Request : Prefill(r) \/ CaptureSkipped(r) \/ Evict(r) \/ Removed(r)
  BY <1>1, SameAccount DEF Prefill, CaptureSkipped, Evict, Removed
<1>2. CASE Rest \/ NotifyAll
  BY <1>2, SameAccount DEF Rest, NotifyAll
<1>3. CASE ExportFails \/ ExportOther
  BY <1>3, SameAccount DEF ExportFails, ExportOther
<1>4. CASE BeginWrite \/ ResetInherited
  BY <1>4, SameAccount DEF BeginWrite, ResetInherited
<1>5. CASE Exported \/ Commit
  BY <1>5, SameAccount DEF Exported, Commit
<1>6. CASE CopyBundle \/ StoreBytes
  <2>1. PICK o : job' = [job EXCEPT !.out = o]
    BY <1>6 DEF CopyBundle, StoreBytes
  <2>2. job'.left = job.left /\ job'.bytes = job.bytes /\ job'.mark = job.mark
    BY <2>1 DEF ExportInv, ExportType, Job
  <2> QED
    BY <1>6, <2>2, SameAccount DEF CopyBundle, StoreBytes
<1>7. CASE \E w \in Waiter : WaitCall(w) \/ WaitTest(w) \/ WaitTimeout(w)
  BY <1>7, SameAccount DEF WaitCall, WaitTest, WaitTimeout
<1>8. CASE StopFlag \/ StopNotify \/ StopJoin
  BY <1>8, SameAccount DEF StopFlag, StopNotify, StopJoin
<1>9. CASE UNCHANGED vars
  BY <1>9, SameAccount DEF vars
<1> QED
  BY <1>1, <1>2, <1>3, <1>4, <1>5, <1>6, <1>7, <1>8, <1>9

\* Together: whatever the step, the counters stay with the jobs.
LEMMA AccountKeeps ==
  ASSUME ExportInv, AccountInv, [Next]_vars
  PROVE  AccountInv'
<1>1. ExportInv'
  BY StepKeeps
<1>2. CASE \E r \in Request : Enqueue(r)
  BY <1>1, <1>2, CaptureAccount
<1>3. CASE SaveImage
  BY <1>1, <1>3, ImageAccount
<1>4. CASE Take
  BY <1>4, TakeAccount
<1>5. CASE ReleasePages
  BY <1>5, ReleaseAccount
<1>6. CASE Settle
  BY <1>6, SettleAccount
<1> QED
  BY <1>2, <1>3, <1>4, <1>5, <1>6, OthersAccount DEF Next, WorkerStep

\* What is charged against the GPU budget, the host limit and the checkpoint
\* limit (Capture, SaveImage, Export and Work, qwen3_5_persistent.inc) is exactly
\* what the jobs that are queued or exported still hold, and within the limits,
\* whatever was skipped, released early or failed.
THEOREM ExportAccounted == Spec => []Accounted
<1>1. Init => AccountInv
  BY InitAccount
<1>2. ExportInv /\ AccountInv /\ [Next]_vars => AccountInv'
  BY AccountKeeps
<1>3. AccountInv => Accounted
  BY DEF AccountInv
<1> QED
  BY <1>1, <1>2, <1>3, ExportInvariant, PTL DEF Spec
==============================================================================
