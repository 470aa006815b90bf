------------------------- MODULE ResponseScheduler -------------------------
(***************************************************************************)
(* The request scheduler of basellm (include/models/basellm.h,             *)
(* src/models/basellm.cpp): client threads launch a request, fetch its     *)
(* tokens and may abort it; one thread runs RunNewMainLoop, which sweeps   *)
(* the table of contexts, selects a batch, runs the forward pass and       *)
(* publishes the tokens; ShutdownRuntime stops it.  All of them meet at    *)
(* dictLocker and the condition variable dictCV.                           *)
(*                                                                         *)
(* A critical section under dictLocker is one action; what the code does   *)
(* after unlocking (notify_one, the forward pass, the test of isFree) is   *)
(* an action of its own.  KV pages, logits and multimodal inputs are left  *)
(* out: a page shortage shows as a choice of Throttled and Evictions.      *)
(***************************************************************************)
EXTENDS Integers, Sequences, FiniteSets

CONSTANTS
  Client,        \* threads that launch and fetch, one request at a time
  Polling,       \* those that call FetchResponseTokens instead of ..Batch
  Loop,          \* the main loop, as a waiter on dictCV
  Lengths,       \* lengths of the prompts, in tokens
  OutputLimit,   \* output_token_limit of the requests of each client
  MaxPositions,  \* max_positions of the model
  MaxBatch,      \* maxBatch of the loop
  FetchMax,      \* maxTokens of FetchResponseTokensBatch
  HandleCount,   \* bound: contexts in the table at a time
  Rounds,        \* bound: requests a client launches, unless Cyclic
  Cyclic,        \* clients launch requests forever
  Evictions,     \* bound: requests evicted for recompute
  Throttled,     \* a page or token budget may hold prefills back
  Interleave,    \* interleaveActivePrefill
  Burst,         \* idlePrefillBatchWaitUs > 0
  Stoppable      \* ShutdownRuntime may be called

ResponseAssumption ==
  /\ Polling \subseteq Client
  /\ Loop \notin Client
  /\ Lengths \subseteq Nat \ {0}
  /\ OutputLimit \in [Client -> Nat \ {0}]
  /\ MaxPositions \in Nat /\ MaxBatch \in Nat \ {0} /\ FetchMax \in Nat \ {0}
  /\ HandleCount \in Nat /\ Rounds \in Nat /\ Evictions \in Nat
  /\ {Cyclic, Throttled, Interleave, Burst, Stoppable} \subseteq BOOLEAN

ASSUME Assumption == ResponseAssumption

VARIABLES
  dict,     \* responseContextDict.dicts: contexts by handle
  loop,     \* where the main loop is
  timed,    \* its current wait on dictCV has a deadline
  batch,    \* handles of the contexts in the forward pass
  owes,     \* activePrefillNeedsDecode
  burst,    \* the idle burst window: the requests seen and if it was quiet
  waiting,  \* threads blocked on dictCV
  pc,       \* where each client is
  hand,     \* the handle it holds
  got,      \* the tokens it has fetched of its current request
  rounds,   \* requests it has launched
  evicted,  \* requests evicted so far
  shut      \* progress of ShutdownRuntime; isFree is shut # "no"

client == <<pc, hand, got, rounds>>
vars == <<dict, loop, timed, batch, owes, burst, waiting, client, evicted, shut>>
-----------------------------------------------------------------------------
Handle == 0..HandleCount - 1
isFree == shut # "no"

Put(h, ctx) == [g \in DOMAIN dict \cup {h} |-> IF g = h THEN ctx ELSE dict[g]]
Drop(H) == [g \in DOMAIN dict \ H |-> dict[g]]

\* notify_one: any waiter may be the one that wakes.
NotifyOne ==
  \/ waiting = {} /\ UNCHANGED waiting
  \/ \E t \in waiting : waiting' = waiting \ {t}

\* ResponseContext after Init and the assignments of LaunchResponseTokens.
NewContext(c, len) ==
  [owner |-> c, prompt |-> len, prefilled |-> FALSE, all |-> len, queue |-> <<>>,
   isEnding |-> FALSE, error |-> FALSE, isAbort |-> FALSE]

\* idlePrefillBatchObservedSize == 0: no burst is being collected.
NoBurst == [seen |-> 0, quiet |-> FALSE]

\* curTokens
Generated(ctx) == ctx.all - ctx.prompt

Init ==
  /\ dict = <<>>
  /\ loop = "check" /\ timed = FALSE
  /\ batch = {}
  /\ owes = FALSE /\ burst = NoBurst
  /\ waiting = {}
  /\ pc = [c \in Client |-> "idle"]
  /\ hand = [c \in Client |-> -1]
  /\ got = [c \in Client |-> <<>>]
  /\ rounds = [c \in Client |-> 0]
  /\ evicted = 0
  /\ shut = "no"
-----------------------------------------------------------------------------
\* LaunchResponseTokens under dictLocker: the lowest free handle.
LaunchResponseTokens(c) ==
  /\ pc[c] = "idle" /\ ~isFree
  /\ Cyclic \/ rounds[c] < Rounds
  /\ \E h \in Handle \ DOMAIN dict, len \in Lengths :
       /\ \A g \in 0..h - 1 : g \in DOMAIN dict
       /\ dict' = Put(h, NewContext(c, len))
       /\ hand' = [hand EXCEPT ![c] = h]
  /\ pc' = [pc EXCEPT ![c] = "launched"]
  /\ got' = [got EXCEPT ![c] = <<>>]
  /\ rounds' = IF Cyclic THEN rounds ELSE [rounds EXCEPT ![c] = @ + 1]
  /\ UNCHANGED <<loop, timed, batch, owes, burst, waiting, evicted, shut>>

\* The client is told the end, or gives its request up.
Finished(c) ==
  /\ pc' = [pc EXCEPT ![c] = "idle"]
  /\ hand' = [hand EXCEPT ![c] = -1]
  /\ got' = [got EXCEPT ![c] = <<>>]

\* Mutant of Notify: a launch notifies nobody.
NotifyRemovedOnly(c) ==
  /\ pc[c] \in {"launched", "removed"}
  /\ IF pc[c] = "removed" THEN NotifyOne ELSE UNCHANGED waiting
  /\ IF pc[c] = "removed" THEN Finished(c)
     ELSE pc' = [pc EXCEPT ![c] = "fetch"] /\ UNCHANGED <<hand, got>>
  /\ UNCHANGED <<dict, loop, timed, batch, owes, burst, rounds, evicted, shut>>

\* The dictCV.notify_one() that follows a launch, or a removal by a fetch.
Notify(c) ==
  /\ pc[c] \in {"launched", "removed"}
  /\ NotifyOne
  /\ IF pc[c] = "removed" THEN Finished(c)
     ELSE pc' = [pc EXCEPT ![c] = "fetch"] /\ UNCHANGED <<hand, got>>
  /\ UNCHANGED <<dict, loop, timed, batch, owes, burst, rounds, evicted, shut>>

\* c runs inside a fetch: it calls one, or was woken from its wait.
Fetching(c) == pc[c] = "fetch" \/ (pc[c] = "wait" /\ c \notin waiting) \/ pc[c] = "poll"

\* A fetch finds tokens and drains up to FetchMax of them (one when polling).
FetchTokens(c) ==
  LET h == hand[c]
      n == IF c \in Polling THEN 1 ELSE FetchMax
  IN  /\ Fetching(c)
      /\ h \in DOMAIN dict
      /\ dict[h].queue # <<>>
      /\ LET q == dict[h].queue
             k == IF n < Len(q) THEN n ELSE Len(q)
         IN  /\ dict' = [dict EXCEPT ![h].queue = SubSeq(q, k + 1, Len(q))]
             /\ got' = [got EXCEPT ![c] = @ \o SubSeq(q, 1, k)]
      /\ pc' = [pc EXCEPT ![c] = "fetch"]
      /\ UNCHANGED <<loop, timed, batch, owes, burst, waiting, hand, rounds,
                     evicted, shut>>

\* Mutant of FetchEnd: isEnding is tested before the queue.
FetchEndUndrained(c) ==
  LET h == hand[c]
  IN  /\ Fetching(c)
      /\ h \in DOMAIN dict
      /\ dict[h].isEnding
      /\ dict' = Drop({h})
      /\ pc' = [pc EXCEPT ![c] = "removed"]
      /\ UNCHANGED <<loop, timed, batch, owes, burst, waiting, hand, got, rounds,
                     evicted, shut>>

\* A fetch finds the context ended and drained: RemoveResponseContext, unlock.
FetchEnd(c) ==
  LET h == hand[c]
  IN  /\ Fetching(c)
      /\ h \in DOMAIN dict
      /\ dict[h].queue = <<>>
      /\ dict[h].isEnding
      /\ dict' = Drop({h})
      /\ pc' = [pc EXCEPT ![c] = "removed"]
      /\ UNCHANGED <<loop, timed, batch, owes, burst, waiting, hand, got, rounds,
                     evicted, shut>>

\* A fetch finds no context under its handle and returns -1.
FetchGone(c) ==
  /\ Fetching(c)
  /\ pc[c] # "poll"
  /\ hand[c] \notin DOMAIN dict
  /\ Finished(c)
  /\ UNCHANGED <<dict, loop, timed, batch, owes, burst, waiting, rounds, evicted, shut>>

\* A fetch finds nothing yet: it waits on dictCV, or unlocks and polls again
\* with the context pointer it has.
FetchWait(c) ==
  LET h == hand[c]
  IN  /\ Fetching(c)
      /\ pc[c] # "poll"
      /\ h \in DOMAIN dict
      /\ dict[h].queue = <<>>
      /\ ~dict[h].isEnding
      /\ pc' = [pc EXCEPT ![c] = IF c \in Polling THEN "poll" ELSE "wait"]
      /\ waiting' = IF c \in Polling THEN waiting ELSE waiting \cup {c}
      /\ UNCHANGED <<dict, loop, timed, batch, owes, burst, hand, got, rounds,
                     evicted, shut>>

\* The wait of FetchResponseTokensBatch times out after a second: it returns 0.
FetchTimeout(c) ==
  /\ pc[c] = "wait"
  /\ c \in waiting
  /\ waiting' = waiting \ {c}
  /\ pc' = [pc EXCEPT ![c] = "fetch"]
  /\ UNCHANGED <<dict, loop, timed, batch, owes, burst, hand, got, rounds,
                 evicted, shut>>

\* Mutant of AbortResponse: the context is removed at once.
AbortResponseRemoves(c) ==
  /\ pc[c] = "fetch"
  /\ dict' = Drop({hand[c]})
  /\ Finished(c)
  /\ UNCHANGED <<loop, timed, batch, owes, burst, waiting, rounds, evicted, shut>>

\* AbortResponse, between two fetches.
AbortResponse(c) ==
  /\ pc[c] = "fetch"
  /\ dict' = IF hand[c] \in DOMAIN dict
             THEN [dict EXCEPT ![hand[c]].isAbort = TRUE] ELSE dict
  /\ Finished(c)
  /\ UNCHANGED <<loop, timed, batch, owes, burst, waiting, rounds, evicted, shut>>
-----------------------------------------------------------------------------
\* The loop tests isFree before it takes dictLocker.
CheckFree ==
  /\ loop = "check"
  /\ loop' = IF isFree THEN "exit" ELSE "sweep"
  /\ UNCHANGED <<dict, timed, batch, owes, burst, waiting, client, evicted, shut>>

\* Mutant of Kept: ended contexts go in the sweep as well, fetched or not.
KeptUnended == Drop({h \in DOMAIN dict : dict[h].isAbort \/ dict[h].isEnding})

\* Mutant of Kept: an aborted context is only ended, not removed.
KeptAborted ==
  [h \in DOMAIN dict |->
     IF dict[h].isAbort THEN [dict[h] EXCEPT !.isEnding = TRUE] ELSE dict[h]]

\* The sweep: aborted contexts go, ended ones stay until they are fetched.
Kept == Drop({h \in DOMAIN dict : dict[h].isAbort})
Orders == {h \in DOMAIN Kept : ~Kept[h].isEnding}
Active == {h \in Orders : Kept[h].prefilled}
Pending == Orders \ Active

\* Mutant of ForceDecode: prefills are never held back for the actives.
ForceDecodeNever == FALSE

\* forceDecodeThisIteration: the actives decode once after an add-prefill.
ForceDecode == Interleave /\ owes /\ Active # {} /\ Pending # {}

\* Pending contexts whose prompt does not fit are ended with an error, and
\* nobody is notified.  They are the longest, so they come first in orders.
TooLong == {h \in Pending : Kept[h].all > MaxPositions}
Rejected == IF ForceDecode THEN {} ELSE TooLong
Swept ==
  [h \in DOMAIN Kept |->
     IF h \in Rejected THEN [Kept[h] EXCEPT !.isEnding = TRUE, !.error = TRUE] ELSE Kept[h]]

\* The order of the selection: the longest input first, then the handle.
Before(g, h) == Kept[g].all > Kept[h].all \/ (Kept[g].all = Kept[h].all /\ g < h)

\* Mutant of PrefillChoice: what is being selected counts twice.
PrefillChoiceTwice ==
  LET fits == Pending \ TooLong
      room == MaxBatch - Cardinality(Active)
  IN  IF ForceDecode THEN {{}}
      ELSE {P \in SUBSET fits :
        /\ 2 * Cardinality(P) <= room
        /\ P = fits \/ 2 * Cardinality(P) + 2 > room
        /\ \A g \in P, h \in fits \ P : Before(g, h)}

\* What a prefill pass may select: as many as the batch has room for, in
\* order; a page or token budget may hold any of them back.
PrefillChoice ==
  LET fits == Pending \ TooLong
      room == MaxBatch - Cardinality(Active)
  IN  IF ForceDecode THEN {{}}
      ELSE {P \in SUBSET fits :
        /\ Cardinality(P) <= room
        /\ ~Throttled => /\ P = fits \/ Cardinality(P) >= room
                         /\ \A g \in P, h \in fits \ P : Before(g, h)}

\* The loop may wait for more of a burst: nothing is active, a prefill is
\* pending, the batch is not full, and new requests came since the last wait
\* or that one did not run into its deadline.
MayCollect ==
  /\ Burst
  /\ Active = {} /\ Pending # {}
  /\ Cardinality(Orders) < MaxBatch
  /\ burst.quiet => Cardinality(Orders) > burst.seen

\* Only the first wait of a burst is certain to lie before its deadline.
MustCollect == MayCollect /\ burst.seen = 0

\* currentActivate == 0 clears activePrefillNeedsDecode.
Owes == owes /\ Active # {}

\* Idle loop, first requests of a burst: wait for their siblings, then sweep
\* again from the top.
CollectBurst ==
  /\ loop = "sweep"
  /\ MayCollect
  /\ dict' = Kept
  /\ burst' = [seen |-> IF Cardinality(Orders) > burst.seen
                        THEN Cardinality(Orders) ELSE burst.seen,
               quiet |-> FALSE]
  /\ owes' = Owes
  /\ loop' = "wait" /\ timed' = TRUE
  /\ waiting' = waiting \cup {Loop}
  /\ UNCHANGED <<batch, client, evicted, shut>>

\* The selection of a prefill batch; the forward pass starts after the unlock.
SelectPrefill ==
  /\ loop = "sweep"
  /\ ~MustCollect
  /\ \E P \in PrefillChoice \ {{}} :
       /\ dict' = [h \in DOMAIN Swept |->
                     IF h \in P THEN [Swept[h] EXCEPT !.prefilled = TRUE] ELSE Swept[h]]
       /\ batch' = P
       /\ owes' = IF Interleave THEN Active # {} \/ P # Orders ELSE Owes
  /\ burst' = NoBurst
  /\ loop' = "forward"
  /\ UNCHANGED <<timed, waiting, client, evicted, shut>>

\* Mutant of SelectDecode: an evicted context forgets the tokens it generated.
SelectDecodeForgets ==
  /\ loop = "sweep"
  /\ ~MustCollect
  /\ {} \in PrefillChoice
  /\ Active # {}
  /\ \E E \in SUBSET Active :
       /\ evicted + Cardinality(E) <= Evictions
       /\ \A g \in E, h \in Active \ E : Kept[g].all >= Kept[h].all
       /\ dict' = [h \in DOMAIN Swept |->
                     IF h \in E
                     THEN [Swept[h] EXCEPT !.prefilled = FALSE, !.all = Swept[h].prompt]
                     ELSE Swept[h]]
       /\ batch' = Active \ E
       /\ evicted' = evicted + Cardinality(E)
       /\ loop' = IF E = Active THEN "wait" ELSE "forward"
       /\ timed' = (E = Active)
       /\ waiting' = IF E = Active THEN waiting \cup {Loop} ELSE waiting
  /\ owes' = FALSE
  /\ burst' = NoBurst
  /\ UNCHANGED <<client, shut>>

\* No prefill was selected: all active contexts decode, except those evicted,
\* longest first, when the free pages do not suffice.
SelectDecode ==
  /\ loop = "sweep"
  /\ ~MustCollect
  /\ {} \in PrefillChoice
  /\ Active # {}
  /\ \E E \in SUBSET Active :
       /\ evicted + Cardinality(E) <= Evictions
       /\ \A g \in E, h \in Active \ E : Kept[g].all >= Kept[h].all
       /\ dict' = [h \in DOMAIN Swept |->
                     IF h \in E THEN [Swept[h] EXCEPT !.prefilled = FALSE] ELSE Swept[h]]
       /\ batch' = Active \ E
       /\ evicted' = evicted + Cardinality(E)
       /\ loop' = IF E = Active THEN "wait" ELSE "forward"
       /\ timed' = (E = Active)
       /\ waiting' = IF E = Active THEN waiting \cup {Loop} ELSE waiting
  /\ owes' = FALSE
  /\ burst' = NoBurst
  /\ UNCHANGED <<client, shut>>

\* Nothing to run: a wait of 10 ms if there are requests, else until notified.
Rest ==
  /\ loop = "sweep"
  /\ ~MustCollect
  /\ {} \in PrefillChoice
  /\ Active = {}
  /\ dict' = Swept
  /\ owes' = FALSE
  /\ burst' = NoBurst
  /\ loop' = "wait"
  /\ timed' = (Orders # {})
  /\ waiting' = waiting \cup {Loop}
  /\ UNCHANGED <<batch, client, evicted, shut>>

\* One context after the forward pass: an end token ends it, any other token is
\* queued and counted, and the limits end it too.
Publish(ctx, stopped) ==
  LET n == Generated(ctx) + 1
  IN  IF stopped THEN [ctx EXCEPT !.isEnding = TRUE]
      ELSE [ctx EXCEPT
        !.queue = Append(@, <<ctx.owner, n>>),
        !.all = @ + 1,
        !.isEnding = n = OutputLimit[ctx.owner] \/ ctx.all + 1 >= MaxPositions]

\* The forward pass returns: publish its tokens and notify_all.
FinishForward ==
  /\ loop = "forward"
  /\ batch \subseteq DOMAIN dict
  /\ \E stopped \in SUBSET batch :
       dict' = [h \in DOMAIN dict |->
                  IF h \in batch THEN Publish(dict[h], h \in stopped) ELSE dict[h]]
  /\ batch' = {}
  /\ waiting' = {}
  /\ loop' = "check"
  /\ UNCHANGED <<timed, owes, burst, client, evicted, shut>>

\* The loop was notified and starts over.
LoopWake ==
  /\ loop = "wait"
  /\ Loop \notin waiting
  /\ loop' = "check" /\ timed' = FALSE
  /\ UNCHANGED <<dict, batch, owes, burst, waiting, client, evicted, shut>>

\* Its wait times out.
LoopTimeout ==
  /\ loop = "wait"
  /\ timed
  /\ Loop \in waiting
  /\ waiting' = waiting \ {Loop}
  /\ burst' = [burst EXCEPT !.quiet = burst.seen > 0]
  /\ loop' = "check" /\ timed' = FALSE
  /\ UNCHANGED <<dict, batch, owes, client, evicted, shut>>
-----------------------------------------------------------------------------
\* ShutdownRuntime sets isFree under dictLocker ..
ShutdownFlag ==
  /\ Stoppable
  /\ shut = "no"
  /\ shut' = "flagged"
  /\ UNCHANGED <<dict, loop, timed, batch, owes, burst, waiting, client, evicted>>

\* .. notifies everybody ..
ShutdownNotify ==
  /\ shut = "flagged"
  /\ waiting' = {}
  /\ shut' = "joining"
  /\ UNCHANGED <<dict, loop, timed, batch, owes, burst, client, evicted>>

\* .. and once the loop has exited deletes every context.
ShutdownJoin ==
  /\ shut = "joining"
  /\ loop = "exit"
  /\ dict' = <<>>
  /\ shut' = "done"
  /\ UNCHANGED <<loop, timed, batch, owes, burst, waiting, client, evicted>>

ClientStep(c) ==
  \/ Notify(c)
  \/ FetchTokens(c) \/ FetchEnd(c) \/ FetchGone(c) \/ FetchWait(c)

LoopStep ==
  \/ CheckFree \/ CollectBurst \/ SelectPrefill \/ SelectDecode \/ Rest
  \/ FinishForward \/ LoopWake

Next ==
  \/ \E c \in Client :
       LaunchResponseTokens(c) \/ ClientStep(c) \/ FetchTimeout(c) \/ AbortResponse(c)
  \/ LoopStep \/ LoopTimeout
  \/ ShutdownFlag \/ ShutdownNotify \/ ShutdownJoin

Spec == Init /\ [][Next]_vars

\* Every thread goes on as long as it can: the loop runs, a client keeps
\* fetching what it launched, and a wait with a deadline ends.
FairSpec ==
  /\ Spec
  /\ WF_vars(LoopStep \/ LoopTimeout)
  /\ \A c \in Client : WF_vars(ClientStep(c) \/ FetchTimeout(c))
  /\ WF_vars(ShutdownNotify) /\ WF_vars(ShutdownJoin)
-----------------------------------------------------------------------------
\* The forward pass runs without dictLocker on pointers into the contexts of
\* its batch: none of them is removed, ended or replaced in the meantime, and
\* none holds more tokens than the model has positions.
InFlightLive ==
  \A h \in batch :
    /\ h \in DOMAIN dict
    /\ dict[h].prefilled /\ ~dict[h].isEnding
    /\ dict[h].all <= MaxPositions

\* From the launch until it is told the end, a client that did not abort finds
\* its own context under its handle.  This is what makes the pointer that
\* FetchResponseTokens keeps across its unlock safe, and reuse of handles.
HandleOwned ==
  \A c \in Client :
    pc[c] \in {"launched", "fetch", "wait", "poll"} /\ shut # "done" =>
      /\ hand[c] \in DOMAIN dict
      /\ dict[hand[c]].owner = c
      /\ ~dict[hand[c]].isAbort

\* Every client receives the tokens generated for its own request, from the
\* first on, each once and in order.
OwnStream ==
  \A c \in Client : \A i \in DOMAIN got[c] : got[c][i] = <<c, i>>

\* The loop waits without a deadline only when every context has ended or was
\* aborted, but for those whose launch has yet to notify: with the prompts that
\* fit the model, no launch spends its notify_one on another waiter.
NoLostWakeup ==
  Loop \in waiting /\ ~timed =>
    \A h \in DOMAIN dict :
      dict[h].isEnding \/ dict[h].isAbort \/ pc[dict[h].owner] = "launched"

\* A context leaves the table only when it was aborted, or when it has ended
\* and its owner has every token; at shutdown all go.
LeavesDelivered ==
  [][\A h \in DOMAIN dict : h \notin DOMAIN dict' /\ shut' # "done" =>
       \/ dict[h].isAbort
       \/ /\ dict[h].isEnding
          /\ Len(got[dict[h].owner]) = Generated(dict[h])]_vars

\* Every request that was launched is served to its end (or aborted).
Served == \A c \in Client : pc[c] = "launched" ~> pc[c] = "idle"

\* A context aborted before it ended is removed, so its handle and its pages
\* come back although the abort notifies nobody.
AbortedSwept ==
  \A h \in Handle :
    (h \in DOMAIN dict /\ dict[h].isAbort /\ ~dict[h].isEnding)
      ~> ~(h \in DOMAIN dict /\ dict[h].isAbort)

\* Once its prefill is done a request goes on producing tokens, however many
\* new requests keep arriving.
DecodeProgress ==
  \A c \in Client, n \in 1..MaxPositions - 1 :
    LET at == \E h \in DOMAIN dict :
                /\ dict[h].owner = c /\ dict[h].all = n
                /\ dict[h].prefilled /\ ~dict[h].isEnding /\ ~dict[h].isAbort
    IN  at ~> ~at

=============================================================================
