---------------------- MODULE ResponseSchedulerProofs ----------------------
(***************************************************************************)
(* Proofs about ResponseScheduler for any clients, prompts, limits and     *)
(* options.  The argument has two stages.  IInv says that a live client    *)
(* and its context point at each other and that the tokens fetched and     *)
(* queued are those generated; every safety property but one follows.      *)
(* Asleep, on top of it and for prompts that fit, says that a loop in an   *)
(* untimed wait is the only waiter, so that no notification can miss it.   *)
(* The two mutexes the same loop takes, SchedulerLocks, come last.         *)
(***************************************************************************)
EXTENDS ResponseScheduler, SchedulerLocks, SequenceTheorems, TLAPS

\* Where a client is between its launch and the end of its request.
Live == {"launched", "fetch", "wait", "poll"}

Token == Client \X Int

Context ==
  [owner : Client, prompt : Nat, prefilled : BOOLEAN, all : Nat, queue : Seq(Token),
   isEnding : BOOLEAN, error : BOOLEAN, isAbort : BOOLEAN]

Typed ==
  /\ \A h \in DOMAIN dict : dict[h] \in Context
  /\ loop \in {"check", "sweep", "forward", "wait", "exit"}
  /\ timed \in BOOLEAN
  /\ waiting \subseteq Client \cup {Loop}
  /\ pc \in [Client -> Live \cup {"idle", "removed"}]
  /\ hand \in [Client -> Int]
  /\ got \in [Client -> Seq(Token)]
  /\ shut \in {"no", "flagged", "joining", "done"}

\* A context that was not aborted is held by its owner.
OwnerHolds ==
  \A h \in DOMAIN dict : ~dict[h].isAbort =>
    pc[dict[h].owner] \in Live /\ hand[dict[h].owner] = h

\* After n tokens were fetched, the queue holds the others that were generated.
Streamed(ctx, n) ==
  /\ n + Len(ctx.queue) = Generated(ctx)
  /\ \A i \in 1..Len(ctx.queue) : ctx.queue[i] = <<ctx.owner, n + i>>

Streams ==
  \A h \in DOMAIN dict : ~dict[h].isAbort =>
    Streamed(dict[h], Len(got[dict[h].owner]))

\* Contexts in decode stay within the model's positions.
Fits ==
  \A h \in DOMAIN dict :
    dict[h].prefilled /\ ~dict[h].isEnding => dict[h].all <= MaxPositions

InFlight == InFlightLive /\ (loop # "forward" => batch = {})

\* After ShutdownRuntime nothing is left.
Down == shut = "done" => loop = "exit" /\ DOMAIN dict = {}

IInv == Typed /\ HandleOwned /\ OwnerHolds /\ Streams /\ OwnStream /\ Fits /\ InFlight /\ Down
-----------------------------------------------------------------------------
LEMMA InitIInv == Init => IInv
<1> SUFFICES ASSUME Init PROVE IInv
  OBVIOUS
<1>1. DOMAIN dict = {}
  BY DEF Init
<1>2. <<>> \in Seq(Token) /\ DOMAIN <<>> = {}
  BY EmptySeq
<1>3. Typed
  <2>1. hand \in [Client -> Int] /\ got \in [Client -> Seq(Token)]
    BY <1>2 DEF Init
  <2>2. pc \in [Client -> Live \cup {"idle", "removed"}]
    BY DEF Init
  <2> QED
    BY <1>1, <2>1, <2>2 DEF Init, Typed
<1>4. HandleOwned /\ OwnerHolds /\ Streams /\ Fits
  BY <1>1 DEF Init, HandleOwned, OwnerHolds, Streams, Fits
<1>5. OwnStream
  BY <1>2 DEF Init, OwnStream
<1>6. InFlight /\ Down
  BY DEF Init, InFlight, InFlightLive, Down
<1> QED
  BY <1>3, <1>4, <1>5, <1>6 DEF IInv

LEMMA LaunchIInv ==
  ASSUME IInv, NEW c \in Client, LaunchResponseTokens(c)
  PROVE  IInv'
<1>1. PICK h \in Handle \ DOMAIN dict, len \in Lengths :
        dict' = Put(h, NewContext(c, len)) /\ hand' = [hand EXCEPT ![c] = h]
  BY DEF LaunchResponseTokens
<1>2. /\ pc[c] = "idle" /\ pc' = [pc EXCEPT ![c] = "launched"]
      /\ got' = [got EXCEPT ![c] = <<>>]
      /\ shut = "no"
      /\ UNCHANGED <<loop, timed, batch, waiting, shut>>
  BY DEF LaunchResponseTokens, isFree
<1>3. /\ DOMAIN dict' = DOMAIN dict \cup {h}
      /\ dict'[h] = NewContext(c, len)
      /\ \A g \in DOMAIN dict : dict'[g] = dict[g]
  BY <1>1 DEF Put
<1>4. <<>> \in Seq(Token) /\ Len(<<>>) = 0 /\ DOMAIN <<>> = {}
  BY EmptySeq
<1>5. /\ pc'[c] = "launched" /\ hand'[c] = h /\ got'[c] = <<>>
      /\ \A d \in Client \ {c} : pc'[d] = pc[d] /\ hand'[d] = hand[d] /\ got'[d] = got[d]
  BY <1>1, <1>2 DEF IInv, Typed
<1>6. /\ dict'[h].owner = c /\ ~dict'[h].isAbort /\ ~dict'[h].prefilled
      /\ dict'[h].all = len /\ dict'[h].prompt = len /\ dict'[h].queue = <<>>
  BY <1>3 DEF NewContext
<1>7. \A g \in DOMAIN dict : ~dict[g].isAbort => dict[g].owner \in Client \ {c}
  BY <1>2 DEF IInv, Typed, Context, OwnerHolds, Live
<1>8. Typed'
  <2>1. len \in Nat /\ h \in Int
    BY Assumption DEF ResponseAssumption, Handle
  <2>2. dict'[h] \in Context
    BY <1>3, <1>4, <2>1 DEF Context, NewContext
  <2> QED
    BY <1>1, <1>2, <1>3, <1>4, <2>1, <2>2 DEF IInv, Typed, Live
<1>9. HandleOwned'
  BY <1>2, <1>3, <1>5, <1>6 DEF IInv, HandleOwned
<1>10. OwnerHolds'
  BY <1>3, <1>5, <1>6, <1>7 DEF IInv, OwnerHolds, Live
<1>11. Streams'
  <2>1. len \in Nat
    BY Assumption DEF ResponseAssumption
  <2>2. SUFFICES ASSUME NEW g \in DOMAIN dict', ~dict'[g].isAbort
                 PROVE  Streamed(dict'[g], Len(got'[dict'[g].owner]))
    BY DEF Streams
  <2>3. CASE g = h
    <3>1. got'[dict'[g].owner] = <<>> /\ dict'[g].queue = <<>>
      BY <1>5, <1>6, <2>3
    <3>2. Generated(dict'[g]) = 0
      BY <1>6, <2>1, <2>3 DEF Generated
    <3>3. Len(dict'[g].queue) = 0 /\ Len(got'[dict'[g].owner]) = 0
      BY <1>4, <3>1
    <3> QED
      BY <3>2, <3>3 DEF Streamed
  <2>4. CASE g # h
    <3>1. g \in DOMAIN dict /\ dict'[g] = dict[g] /\ ~dict[g].isAbort
      BY <1>3, <2>2, <2>4
    <3>2. got'[dict[g].owner] = got[dict[g].owner]
      BY <1>5, <1>7, <3>1
    <3> QED
      BY <3>1, <3>2 DEF IInv, Streams
  <2> QED
    BY <2>3, <2>4
<1>12. OwnStream'
  BY <1>4, <1>5 DEF IInv, OwnStream
<1>13. Fits'
  BY <1>3, <1>6 DEF IInv, Fits
<1>14. InFlight' /\ Down'
  BY <1>2, <1>3 DEF IInv, InFlight, InFlightLive, Down
<1> QED
  BY <1>8, <1>9, <1>10, <1>11, <1>12, <1>13, <1>14 DEF IInv

LEMMA NotifyIInv ==
  ASSUME IInv, NEW c \in Client, Notify(c)
  PROVE  IInv'
<1>1. /\ UNCHANGED <<dict, loop, timed, batch, shut>>
      /\ waiting' \subseteq waiting
  BY DEF Notify, NotifyOne
<1>2. /\ \A d \in Client \ {c} : pc'[d] = pc[d] /\ hand'[d] = hand[d] /\ got'[d] = got[d]
      /\ IF pc[c] = "removed" THEN pc'[c] = "idle" /\ got'[c] = <<>>
         ELSE pc'[c] = "fetch" /\ hand'[c] = hand[c] /\ got'[c] = got[c]
      /\ pc[c] \in {"launched", "removed"}
  BY DEF Notify, Finished, IInv, Typed
<1>3. <<>> \in Seq(Token) /\ DOMAIN <<>> = {}
  BY EmptySeq
<1>4. Typed'
  <2>1. hand' \in [Client -> Int]
    BY DEF IInv, Typed, Notify, Finished
  <2>2. got' \in [Client -> Seq(Token)]
    BY <1>3 DEF IInv, Typed, Notify, Finished
  <2>3. pc' \in [Client -> Live \cup {"idle", "removed"}]
    BY DEF IInv, Typed, Notify, Finished, Live
  <2> QED
    BY <1>1, <2>1, <2>2, <2>3 DEF IInv, Typed
<1>5. \A h \in DOMAIN dict : ~dict[h].isAbort => dict[h].owner \in Client
  BY DEF IInv, Typed, Context
<1>6. \A h \in DOMAIN dict : ~dict[h].isAbort => got'[dict[h].owner] = got[dict[h].owner]
  BY <1>2, <1>5 DEF IInv, OwnerHolds, Live
<1>7. HandleOwned'
  BY <1>1, <1>2 DEF IInv, HandleOwned
<1>8. OwnerHolds'
  BY <1>1, <1>2, <1>5 DEF IInv, OwnerHolds, Live
<1>9. Streams'
  BY <1>1, <1>6 DEF IInv, Streams
<1>10. OwnStream'
  BY <1>2, <1>3 DEF IInv, OwnStream
<1>11. Fits' /\ InFlight' /\ Down'
  BY <1>1 DEF IInv, Fits, InFlight, InFlightLive, Down
<1> QED
  BY <1>4, <1>7, <1>8, <1>9, <1>10, <1>11 DEF IInv
-----------------------------------------------------------------------------
\* A client in a fetch has its own context, as long as there is one.
LEMMA FetchingOwns ==
  ASSUME IInv, NEW c \in Client, Fetching(c), hand[c] \in DOMAIN dict
  PROVE  /\ pc[c] \in {"fetch", "wait", "poll"}
         /\ shut # "done"
         /\ dict[hand[c]] \in Context
         /\ dict[hand[c]].owner = c /\ ~dict[hand[c]].isAbort
<1>1. pc[c] \in {"fetch", "wait", "poll"} /\ shut # "done"
  BY DEF Fetching, IInv, Down
<1> QED
  BY <1>1 DEF IInv, Typed, HandleOwned

\* Draining the first k tokens of a queue and appending them to what was fetched.
LEMMA Drain ==
  ASSUME NEW c \in Client, NEW q \in Seq(Token), NEW g \in Seq(Token), NEW k \in 0..Len(q),
         \A i \in 1..Len(q) : q[i] = <<c, Len(g) + i>>,
         \A i \in DOMAIN g : g[i] = <<c, i>>
  PROVE  LET rest == SubSeq(q, k + 1, Len(q))
             all == g \o SubSeq(q, 1, k)
         IN  /\ rest \in Seq(Token) /\ all \in Seq(Token)
             /\ Len(all) + Len(rest) = Len(g) + Len(q)
             /\ \A i \in 1..Len(rest) : rest[i] = <<c, Len(all) + i>>
             /\ \A i \in DOMAIN all : all[i] = <<c, i>>
<1> DEFINE rest == SubSeq(q, k + 1, Len(q))
           head == SubSeq(q, 1, k)
           all == g \o head
<1>1. Len(q) \in Nat /\ Len(g) \in Nat /\ DOMAIN g = 1..Len(g)
  BY LenProperties
<1>2. \A i \in 1..Len(q) : q[i] \in Token
  BY ElementOfSeq
<1>3. /\ rest \in Seq(Token)
      /\ Len(rest) = Len(q) - k
      /\ \A i \in 1..Len(q) - k : rest[i] = q[k + i]
  <2>1. \A i \in k + 1..Len(q) : q[i] \in Token
    BY <1>1, <1>2
  <2> QED
    BY <1>1, <2>1, SubSeqProperties
<1>4. /\ head \in Seq(Token)
      /\ Len(head) = k
      /\ \A i \in 1..k : head[i] = q[i]
  <2>1. \A i \in 1..k : q[i] \in Token
    BY <1>1, <1>2
  <2> QED
    BY <1>1, <2>1, SubSeqProperties
<1> HIDE DEF rest, head
<1>5. /\ all \in Seq(Token)
      /\ Len(all) = Len(g) + k
      /\ \A i \in 1..Len(g) + k : all[i] = IF i <= Len(g) THEN g[i] ELSE head[i - Len(g)]
  BY <1>4, ConcatProperties
<1>6. DOMAIN all = 1..Len(all)
  BY <1>5, LenProperties
<1> HIDE DEF all
<1>7. \A i \in 1..Len(rest) : rest[i] = <<c, Len(all) + i>>
  BY <1>1, <1>3, <1>5
<1>8. ASSUME NEW i \in 1..Len(g) + k PROVE all[i] = <<c, i>>
  <2>1. CASE i <= Len(g)
    <3>1. i \in DOMAIN g /\ all[i] = g[i]
      BY <1>1, <1>5, <2>1
    <3> QED
      BY <3>1
  <2>2. CASE i > Len(g)
    <3>1. all[i] = q[i - Len(g)]
      BY <1>1, <1>4, <1>5, <2>2
    <3> QED
      BY <1>1, <2>2, <3>1
  <2> QED
    BY <1>1, <2>1, <2>2
<1>9. \A i \in DOMAIN all : all[i] = <<c, i>>
  BY <1>5, <1>6, <1>8
<1>10. Len(all) + Len(rest) = Len(g) + Len(q)
  BY <1>1, <1>3, <1>5
<1> QED
  BY <1>3, <1>5, <1>7, <1>9, <1>10 DEF rest, head, all

LEMMA FetchTokensIInv ==
  ASSUME IInv, NEW c \in Client, FetchTokens(c)
  PROVE  IInv'
<1> DEFINE h == hand[c]
           q == dict[h].queue
           n == IF c \in Polling THEN 1 ELSE FetchMax
           k == IF n < Len(q) THEN n ELSE Len(q)
           rest == SubSeq(q, k + 1, Len(q))
           all == got[c] \o SubSeq(q, 1, k)
<1>1. /\ Fetching(c) /\ h \in DOMAIN dict
      /\ dict' = [dict EXCEPT ![h].queue = rest]
      /\ got' = [got EXCEPT ![c] = all]
      /\ pc' = [pc EXCEPT ![c] = "fetch"]
      /\ UNCHANGED <<loop, timed, batch, waiting, hand, shut>>
  BY DEF FetchTokens
<1>2. /\ pc[c] \in {"fetch", "wait", "poll"} /\ shut # "done"
      /\ dict[h] \in Context /\ dict[h].owner = c /\ ~dict[h].isAbort
  BY <1>1, FetchingOwns
<1>3. Streamed(dict[h], Len(got[c])) /\ \A i \in DOMAIN got[c] : got[c][i] = <<c, i>>
  BY <1>1, <1>2 DEF IInv, Streams, OwnStream
<1>4. q \in Seq(Token) /\ got[c] \in Seq(Token) /\ Len(q) \in Nat /\ Len(got[c]) \in Nat
  BY <1>2, LenProperties DEF Context, IInv, Typed
<1>5. k \in 0..Len(q)
  BY <1>4, Assumption DEF ResponseAssumption
<1> HIDE DEF k
<1>6. /\ rest \in Seq(Token) /\ all \in Seq(Token)
      /\ Len(all) + Len(rest) = Len(got[c]) + Len(q)
      /\ \A i \in 1..Len(rest) : rest[i] = <<c, Len(all) + i>>
      /\ \A i \in DOMAIN all : all[i] = <<c, i>>
  <2>1. \A i \in 1..Len(q) : q[i] = <<c, Len(got[c]) + i>>
    BY <1>2, <1>3 DEF Streamed
  <2> HIDE DEF q
  <2> QED
    BY <1>3, <1>4, <1>5, <2>1, Drain
<1> HIDE DEF rest, all
<1>7. /\ DOMAIN dict' = DOMAIN dict
      /\ dict'[h] = [dict[h] EXCEPT !.queue = rest]
      /\ \A g \in DOMAIN dict \ {h} : dict'[g] = dict[g]
  BY <1>1
<1>8. dict'[h] \in Context /\ dict'[h].queue = rest
  BY <1>2, <1>6, <1>7 DEF Context
<1>9. /\ dict'[h].owner = c /\ ~dict'[h].isAbort
      /\ dict'[h].all = dict[h].all /\ dict'[h].prompt = dict[h].prompt
      /\ dict'[h].prefilled = dict[h].prefilled /\ dict'[h].isEnding = dict[h].isEnding
  BY <1>2, <1>7 DEF Context
<1>10. /\ pc'[c] = "fetch" /\ got'[c] = all
       /\ \A d \in Client \ {c} : pc'[d] = pc[d] /\ got'[d] = got[d]
  BY <1>1 DEF IInv, Typed
<1>11. \A g \in DOMAIN dict \ {h} : ~dict[g].isAbort => dict[g].owner \in Client \ {c}
  BY DEF IInv, Typed, Context, OwnerHolds
<1>12. Typed'
  BY <1>1, <1>6, <1>7, <1>8 DEF IInv, Typed, Live
<1>13. HandleOwned'
  BY <1>1, <1>2, <1>7, <1>9, <1>10 DEF IInv, HandleOwned
<1>14. OwnerHolds'
  BY <1>1, <1>7, <1>9, <1>10, <1>11 DEF IInv, OwnerHolds, Live
<1>15. Streams'
  <2>1. SUFFICES ASSUME NEW g \in DOMAIN dict', ~dict'[g].isAbort
                 PROVE  Streamed(dict'[g], Len(got'[dict'[g].owner]))
    BY DEF Streams
  <2>2. CASE g = h
    <3>1. Generated(dict'[h]) = Generated(dict[h])
      BY <1>9 DEF Generated
    <3>2. Len(all) + Len(rest) = Generated(dict'[h])
      BY <1>3, <1>6, <3>1 DEF Streamed
    <3> QED
      BY <1>6, <1>8, <1>9, <1>10, <2>2, <3>2 DEF Streamed
  <2>3. CASE g # h
    BY <1>7, <1>10, <1>11, <2>1, <2>3 DEF IInv, Streams
  <2> QED
    BY <2>2, <2>3
<1>16. OwnStream'
  BY <1>6, <1>10 DEF IInv, OwnStream
<1>17. Fits' /\ InFlight' /\ Down'
  BY <1>1, <1>7, <1>9 DEF IInv, Fits, InFlight, InFlightLive, Down
<1> QED
  BY <1>12, <1>13, <1>14, <1>15, <1>16, <1>17 DEF IInv

LEMMA FetchEndIInv ==
  ASSUME IInv, NEW c \in Client, FetchEnd(c)
  PROVE  IInv'
<1> DEFINE h == hand[c]
<1>1. /\ Fetching(c) /\ h \in DOMAIN dict /\ dict[h].isEnding
      /\ pc' = [pc EXCEPT ![c] = "removed"]
      /\ UNCHANGED <<loop, timed, batch, waiting, hand, got, shut>>
  BY DEF FetchEnd
<1>2. /\ DOMAIN dict' = DOMAIN dict \ {h}
      /\ \A g \in DOMAIN dict' : dict'[g] = dict[g]
  BY DEF FetchEnd, Drop
<1>3. /\ pc'[c] = "removed"
      /\ \A d \in Client \ {c} : pc'[d] = pc[d]
  BY <1>1 DEF IInv, Typed
<1>4. dict[h].owner = c /\ ~dict[h].isAbort
  BY <1>1, FetchingOwns
<1>5. Typed'
  BY <1>1, <1>2 DEF IInv, Typed
<1>6. HandleOwned'
  BY <1>1, <1>2, <1>3, <1>4 DEF IInv, HandleOwned
<1>7. OwnerHolds'
  BY <1>1, <1>2, <1>3, <1>4 DEF IInv, Typed, Context, OwnerHolds, Live
<1>8. Streams' /\ OwnStream' /\ Fits' /\ Down'
  BY <1>1, <1>2 DEF IInv, Streams, OwnStream, Fits, Down
<1>9. InFlight'
  BY <1>1, <1>2 DEF IInv, InFlight, InFlightLive
<1> QED
  BY <1>5, <1>6, <1>7, <1>8, <1>9 DEF IInv

\* The steps of a fetch that leave the table alone.
LEMMA FetchPauseIInv ==
  ASSUME IInv, NEW c \in Client, FetchGone(c) \/ FetchWait(c) \/ FetchTimeout(c)
  PROVE  IInv'
<1>1. UNCHANGED <<dict, loop, timed, batch, shut>>
  BY DEF FetchGone, FetchWait, FetchTimeout
<1>2. CASE FetchGone(c)
  <2>1. pc[c] \in {"fetch", "wait"}
    BY <1>2 DEF FetchGone, Fetching
  <2>2. hand[c] \notin DOMAIN dict
    BY <1>2 DEF FetchGone
  <2>3. shut = "done" /\ DOMAIN dict = {}
    BY <2>1, <2>2 DEF IInv, HandleOwned, Down
  <2>4. <<>> \in Seq(Token) /\ DOMAIN <<>> = {}
    BY EmptySeq
  <2>5. /\ hand' = [hand EXCEPT ![c] = -1] /\ got' = [got EXCEPT ![c] = <<>>]
        /\ pc' = [pc EXCEPT ![c] = "idle"] /\ waiting' = waiting
    BY <1>2 DEF FetchGone, Finished
  <2>6. Typed'
    BY <1>1, <2>4, <2>5 DEF IInv, Typed
  <2>7. HandleOwned' /\ OwnerHolds' /\ Streams' /\ Fits'
    BY <1>1, <2>3 DEF HandleOwned, OwnerHolds, Streams, Fits
  <2>8. OwnStream'
    BY <2>4, <2>5 DEF IInv, Typed, OwnStream
  <2>9. InFlight' /\ Down'
    BY <1>1 DEF IInv, InFlight, InFlightLive, Down
  <2> QED
    BY <2>6, <2>7, <2>8, <2>9 DEF IInv
<1>3. CASE FetchWait(c) \/ FetchTimeout(c)
  <2>1. /\ pc[c] \in {"fetch", "wait", "poll"} /\ pc'[c] \in {"fetch", "wait", "poll"}
        /\ \A d \in Client \ {c} : pc'[d] = pc[d]
        /\ pc' \in [Client -> Live \cup {"idle", "removed"}]
    BY <1>3 DEF FetchWait, FetchTimeout, Fetching, IInv, Typed, Live
  <2>2. waiting' \subseteq waiting \cup {c} /\ UNCHANGED <<hand, got>>
    BY <1>3 DEF FetchWait, FetchTimeout
  <2>3. Typed'
    BY <1>1, <2>1, <2>2 DEF IInv, Typed
  <2>4. HandleOwned'
    BY <1>1, <2>1, <2>2 DEF IInv, HandleOwned
  <2>5. OwnerHolds'
    BY <1>1, <2>1, <2>2 DEF IInv, Typed, Context, OwnerHolds, Live
  <2>6. Streams' /\ OwnStream' /\ Fits' /\ InFlight' /\ Down'
    BY <1>1, <2>2 DEF IInv, Streams, OwnStream, Fits, InFlight, InFlightLive, Down
  <2> QED
    BY <2>3, <2>4, <2>5, <2>6 DEF IInv
<1> QED
  BY <1>2, <1>3

LEMMA AbortIInv ==
  ASSUME IInv, NEW c \in Client, AbortResponse(c)
  PROVE  IInv'
<1> DEFINE h == hand[c]
<1>1. /\ pc[c] = "fetch"
      /\ dict' = IF h \in DOMAIN dict THEN [dict EXCEPT ![h].isAbort = TRUE] ELSE dict
      /\ hand' = [hand EXCEPT ![c] = -1] /\ got' = [got EXCEPT ![c] = <<>>]
      /\ pc' = [pc EXCEPT ![c] = "idle"]
      /\ UNCHANGED <<loop, timed, batch, waiting, shut>>
  BY DEF AbortResponse, Finished
<1>2. /\ DOMAIN dict' = DOMAIN dict
      /\ \A g \in DOMAIN dict \ {h} : dict'[g] = dict[g]
      /\ h \in DOMAIN dict => dict'[h] = [dict[h] EXCEPT !.isAbort = TRUE]
  BY <1>1
<1>3. h \in DOMAIN dict =>
        /\ dict'[h] \in Context /\ dict'[h].isAbort
        /\ dict'[h].prefilled = dict[h].prefilled /\ dict'[h].isEnding = dict[h].isEnding
        /\ dict'[h].all = dict[h].all
  BY <1>2 DEF IInv, Typed, Context
<1>4. <<>> \in Seq(Token) /\ DOMAIN <<>> = {}
  BY EmptySeq
<1>5. /\ pc'[c] = "idle" /\ got'[c] = <<>>
      /\ \A d \in Client \ {c} : pc'[d] = pc[d] /\ hand'[d] = hand[d] /\ got'[d] = got[d]
  BY <1>1 DEF IInv, Typed
<1>6. \A g \in DOMAIN dict \ {h} : ~dict[g].isAbort => dict[g].owner \in Client \ {c}
  BY DEF IInv, Typed, Context, OwnerHolds
<1>7. Typed'
  <2>1. \A g \in DOMAIN dict' : dict'[g] \in Context
    BY <1>2, <1>3 DEF IInv, Typed
  <2>2. hand' \in [Client -> Int] /\ got' \in [Client -> Seq(Token)]
    BY <1>1, <1>4 DEF IInv, Typed
  <2>3. pc' \in [Client -> Live \cup {"idle", "removed"}]
    BY <1>1 DEF IInv, Typed
  <2> QED
    BY <1>1, <2>1, <2>2, <2>3 DEF IInv, Typed
<1>8. HandleOwned'
  <2>1. SUFFICES ASSUME NEW d \in Client, pc'[d] \in Live, shut' # "done"
                 PROVE  /\ hand'[d] \in DOMAIN dict'
                        /\ dict'[hand'[d]].owner = d /\ ~dict'[hand'[d]].isAbort
    BY DEF HandleOwned, Live
  <2>2. d # c /\ hand'[d] = hand[d]
    BY <1>5, <2>1 DEF Live
  <2>3. hand[d] \in DOMAIN dict /\ dict[hand[d]].owner = d /\ ~dict[hand[d]].isAbort
    BY <1>1, <1>5, <2>1, <2>2 DEF IInv, HandleOwned, Live
  <2>4. hand[d] # h
    <3>1. dict[h].owner = c
      BY <1>1, <2>1 DEF IInv, HandleOwned
    <3> QED
      BY <2>2, <2>3, <3>1
  <2> QED
    BY <1>2, <2>2, <2>3, <2>4
<1>9. OwnerHolds'
  BY <1>2, <1>3, <1>5, <1>6 DEF IInv, OwnerHolds
<1>10. Streams'
  BY <1>2, <1>3, <1>5, <1>6 DEF IInv, Streams
<1>11. OwnStream'
  BY <1>4, <1>5 DEF IInv, OwnStream
<1>12. Fits' /\ InFlight' /\ Down'
  BY <1>1, <1>2, <1>3 DEF IInv, Fits, InFlight, InFlightLive, Down
<1> QED
  BY <1>7, <1>8, <1>9, <1>10, <1>11, <1>12 DEF IInv
-----------------------------------------------------------------------------
\* What a sweep may do to a context that stays.
Rescheduled(old, new) ==
  /\ new \in Context
  /\ new.owner = old.owner /\ new.prompt = old.prompt /\ new.all = old.all
  /\ new.queue = old.queue /\ new.isAbort = old.isAbort
  /\ new.isEnding => old.isEnding \/ old.all > MaxPositions
  /\ old.isEnding => new.isEnding
  /\ new.prefilled => old.prefilled \/ new.isEnding \/ new.all <= MaxPositions

LEMMA PrefilledSet ==
  ASSUME NEW old \in Context, NEW b \in BOOLEAN, b => old.all <= MaxPositions,
         NEW new, new = [old EXCEPT !.prefilled = b]
  PROVE  Rescheduled(old, new) /\ new.prefilled = b /\ new.isEnding = old.isEnding
<1>1. /\ new \in Context /\ new.prefilled = b
      /\ new.owner = old.owner /\ new.prompt = old.prompt /\ new.all = old.all
      /\ new.queue = old.queue /\ new.isAbort = old.isAbort /\ new.isEnding = old.isEnding
  BY DEF Context
<1> QED
  BY <1>1 DEF Rescheduled

LEMMA KeptMember ==
  /\ DOMAIN Kept = {h \in DOMAIN dict : ~dict[h].isAbort}
  /\ \A h \in DOMAIN Kept : Kept[h] = dict[h]
BY DEF Kept, Drop

LEMMA SweptMember ==
  ASSUME Typed
  PROVE  /\ DOMAIN Swept = DOMAIN Kept
         /\ \A h \in DOMAIN Kept :
              /\ Rescheduled(dict[h], Swept[h])
              /\ Swept[h].prefilled = dict[h].prefilled
              /\ h \notin TooLong => Swept[h] = dict[h]
<1>1. DOMAIN Swept = DOMAIN Kept
  BY DEF Swept
<1>2. SUFFICES ASSUME NEW h \in DOMAIN Kept
               PROVE  /\ Rescheduled(dict[h], Swept[h])
                      /\ Swept[h].prefilled = dict[h].prefilled
                      /\ h \notin TooLong => Swept[h] = dict[h]
  BY <1>1
<1>3. Kept[h] = dict[h] /\ dict[h] \in Context
  BY KeptMember DEF Typed
<1>4. CASE h \in Rejected
  <2>1. h \in TooLong
    BY <1>4 DEF Rejected
  <2>2. dict[h].all > MaxPositions
    BY <1>3, <2>1 DEF TooLong
  <2>3. Swept[h] = [dict[h] EXCEPT !.isEnding = TRUE, !.error = TRUE]
    BY <1>3, <1>4 DEF Swept
  <2> HIDE DEF Swept
  <2> QED
    BY <1>3, <2>1, <2>2, <2>3 DEF Rescheduled, Context
<1>5. CASE h \notin Rejected
  <2>1. Swept[h] = dict[h]
    BY <1>3, <1>5 DEF Swept
  <2> QED
    BY <1>3, <2>1 DEF Rescheduled
<1> QED
  BY <1>4, <1>5

Sweep == CollectBurst \/ SelectPrefill \/ SelectDecode \/ Rest

LEMMA SweepReschedules ==
  ASSUME Typed, Fits, InFlight, Sweep
  PROVE  /\ DOMAIN dict' = {h \in DOMAIN dict : ~dict[h].isAbort}
         /\ \A h \in DOMAIN dict' : Rescheduled(dict[h], dict'[h])
         /\ loop' \in {"forward", "wait"} /\ timed' \in BOOLEAN
         /\ waiting' \subseteq waiting \cup {Loop}
         /\ UNCHANGED <<pc, hand, got, shut>>
         /\ InFlight'
<1>1. UNCHANGED <<pc, hand, got, shut>>
  BY DEF Sweep, CollectBurst, SelectPrefill, SelectDecode, Rest, client
<1>2. loop = "sweep" /\ batch = {}
  BY DEF Sweep, CollectBurst, SelectPrefill, SelectDecode, Rest, InFlight
<1>3. CASE CollectBurst
  <2>1. dict' = Kept /\ loop' = "wait" /\ timed' = TRUE /\ batch' = {}
        /\ waiting' = waiting \cup {Loop}
    BY <1>2, <1>3 DEF CollectBurst
  <2>2. \A h \in DOMAIN Kept : Rescheduled(dict[h], Kept[h])
    BY KeptMember DEF Rescheduled, Typed
  <2> QED
    BY <1>1, <2>1, <2>2, KeptMember DEF InFlight, InFlightLive
<1>4. CASE Rest
  <2>1. dict' = Swept /\ loop' = "wait" /\ timed' \in BOOLEAN /\ batch' = {}
        /\ waiting' = waiting \cup {Loop}
    BY <1>2, <1>4 DEF Rest
  <2> QED
    BY <1>1, <2>1, KeptMember, SweptMember DEF InFlight, InFlightLive
<1>5. CASE SelectPrefill
  <2>1. PICK P \in PrefillChoice \ {{}} :
          /\ dict' = [h \in DOMAIN Swept |->
                        IF h \in P THEN [Swept[h] EXCEPT !.prefilled = TRUE] ELSE Swept[h]]
          /\ batch' = P
    BY <1>5 DEF SelectPrefill
  <2>2. P \subseteq Pending \ TooLong
    BY DEF PrefillChoice
  <2>3. \A h \in P : /\ h \in DOMAIN Kept /\ ~dict[h].isEnding
                     /\ dict[h].all <= MaxPositions /\ Swept[h] = dict[h]
    BY <2>2, KeptMember, SweptMember, Assumption
       DEF Pending, Orders, TooLong, Typed, Context, ResponseAssumption
  <2>4. \A h \in P : dict'[h] = [dict[h] EXCEPT !.prefilled = TRUE]
    BY <2>1, <2>3, SweptMember
  <2>5. \A h \in P : /\ Rescheduled(dict[h], dict'[h])
                     /\ dict'[h].prefilled /\ ~dict'[h].isEnding
    <3>1. SUFFICES ASSUME NEW h \in P
                   PROVE  /\ Rescheduled(dict[h], dict'[h])
                          /\ dict'[h].prefilled /\ ~dict'[h].isEnding
      OBVIOUS
    <3>2. dict[h] \in Context
      BY <2>3, KeptMember DEF Typed
    <3>3. /\ Rescheduled(dict[h], dict'[h])
          /\ dict'[h].prefilled = TRUE /\ dict'[h].isEnding = dict[h].isEnding
      BY <2>3, <2>4, <3>2, PrefilledSet
    <3> QED
      BY <2>3, <3>3
  <2>6. \A h \in DOMAIN Kept \ P : dict'[h] = Swept[h]
    BY <2>1, SweptMember
  <2>7. DOMAIN dict' = DOMAIN Kept
    BY <2>1, SweptMember
  <2>8. \A h \in DOMAIN dict' : Rescheduled(dict[h], dict'[h])
    BY <2>5, <2>6, <2>7, SweptMember
  <2>9. loop' = "forward" /\ UNCHANGED <<timed, waiting>>
    BY <1>5 DEF SelectPrefill
  <2>10. \A h \in P : dict'[h].all <= MaxPositions
    BY <2>3, <2>5 DEF Rescheduled
  <2>11. InFlight'
    BY <2>1, <2>3, <2>5, <2>7, <2>9, <2>10 DEF InFlight, InFlightLive
  <2> QED
    BY <1>1, <2>7, <2>8, <2>9, <2>11, KeptMember DEF Typed
<1>6. CASE SelectDecode
  <2>1. PICK E \in SUBSET Active :
          /\ dict' = [h \in DOMAIN Swept |->
                        IF h \in E THEN [Swept[h] EXCEPT !.prefilled = FALSE] ELSE Swept[h]]
          /\ batch' = Active \ E
          /\ loop' = IF E = Active THEN "wait" ELSE "forward"
          /\ timed' = (E = Active)
          /\ waiting' = IF E = Active THEN waiting \cup {Loop} ELSE waiting
    BY <1>6 DEF SelectDecode
  <2>2. \A h \in Active : /\ h \in DOMAIN Kept /\ dict[h].prefilled /\ ~dict[h].isEnding
                          /\ dict[h].all <= MaxPositions /\ Swept[h] = dict[h]
    BY KeptMember, SweptMember DEF Active, Orders, TooLong, Pending, Fits
  <2>3. \A h \in E : dict'[h] = [dict[h] EXCEPT !.prefilled = FALSE]
    BY <2>1, <2>2, SweptMember
  <2>4. \A h \in E : Rescheduled(dict[h], dict'[h])
    <3>1. SUFFICES ASSUME NEW h \in E
                   PROVE  Rescheduled(dict[h], dict'[h])
      OBVIOUS
    <3>2. dict[h] \in Context
      BY <2>2, KeptMember DEF Typed
    <3> QED
      BY <2>3, <3>2, PrefilledSet
  <2>5. \A h \in DOMAIN Kept \ E : dict'[h] = Swept[h]
    BY <2>1, SweptMember
  <2>6. DOMAIN dict' = DOMAIN Kept
    BY <2>1, SweptMember
  <2>7. \A h \in DOMAIN dict' : Rescheduled(dict[h], dict'[h])
    BY <2>4, <2>5, <2>6, SweptMember
  <2>8. InFlight'
    BY <2>1, <2>2, <2>5, <2>6 DEF InFlight, InFlightLive
  <2> QED
    BY <1>1, <2>1, <2>6, <2>7, <2>8, KeptMember
<1> QED
  BY <1>3, <1>4, <1>5, <1>6 DEF Sweep

LEMMA SweepIInv ==
  ASSUME IInv, Sweep
  PROVE  IInv'
<1>1. /\ DOMAIN dict' = {h \in DOMAIN dict : ~dict[h].isAbort}
      /\ \A h \in DOMAIN dict' : Rescheduled(dict[h], dict'[h])
      /\ loop' \in {"forward", "wait"} /\ timed' \in BOOLEAN
      /\ waiting' \subseteq waiting \cup {Loop}
      /\ UNCHANGED <<pc, hand, got, shut>>
      /\ InFlight'
  BY SweepReschedules DEF IInv
<1>2. loop # "exit"
  BY DEF Sweep, CollectBurst, SelectPrefill, SelectDecode, Rest
<1>3. Typed'
  BY <1>1 DEF IInv, Typed, Rescheduled
<1>4. HandleOwned'
  BY <1>1 DEF IInv, HandleOwned, Rescheduled
<1>5. OwnerHolds'
  BY <1>1 DEF IInv, OwnerHolds, Rescheduled
<1>6. Streams'
  <2>1. SUFFICES ASSUME NEW h \in DOMAIN dict', ~dict'[h].isAbort
                 PROVE  Streamed(dict'[h], Len(got'[dict'[h].owner]))
    BY DEF Streams
  <2>2. Streamed(dict[h], Len(got[dict[h].owner]))
    BY <1>1 DEF IInv, Streams
  <2>3. /\ dict'[h].queue = dict[h].queue /\ dict'[h].owner = dict[h].owner
        /\ dict'[h].all = dict[h].all /\ dict'[h].prompt = dict[h].prompt
    BY <1>1 DEF Rescheduled
  <2> QED
    BY <1>1, <2>2, <2>3 DEF Streamed, Generated
<1>7. OwnStream'
  BY <1>1 DEF IInv, OwnStream
<1>8. Fits'
  BY <1>1 DEF IInv, Fits, Rescheduled
<1>9. Down'
  BY <1>1, <1>2 DEF IInv, Down
<1> QED
  BY <1>1, <1>3, <1>4, <1>5, <1>6, <1>7, <1>8, <1>9 DEF IInv
-----------------------------------------------------------------------------
LEMMA GrowLength ==
  ASSUME NEW q \in Seq(Token), NEW t \in Token, NEW n \in Nat, NEW m \in Int, n + Len(q) = m
  PROVE  n + Len(Append(q, t)) = m + 1
<1>1. Len(q) \in Nat /\ Len(Append(q, t)) = Len(q) + 1
  BY LenProperties, AppendProperties
<1> QED
  BY <1>1

LEMMA GrowTokens ==
  ASSUME NEW q \in Seq(Token), NEW t \in Token, NEW c \in Client, NEW n \in Nat,
         t = <<c, n + (Len(q) + 1)>>,
         \A i \in 1..Len(q) : q[i] = <<c, n + i>>
  PROVE  \A i \in 1..Len(Append(q, t)) : Append(q, t)[i] = <<c, n + i>>
<1> DEFINE r == Append(q, t)
<1>1. Len(q) \in Nat
  BY LenProperties
<1>2. /\ Len(r) = Len(q) + 1
      /\ \A i \in 1..Len(q) : r[i] = q[i]
      /\ r[Len(q) + 1] = t
  BY AppendProperties
<1> HIDE DEF r
<1>3. ASSUME NEW i \in 1..Len(r) PROVE r[i] = <<c, n + i>>
  <2>1. CASE i = Len(q) + 1
    BY <1>2, <2>1
  <2>2. CASE i \in 1..Len(q)
    BY <1>2, <2>2
  <2> QED
    BY <1>1, <1>2, <2>1, <2>2
<1> QED
  BY <1>3 DEF r

NextToken(ctx) == <<ctx.owner, Generated(ctx) + 1>>

LEMMA StreamGrows ==
  ASSUME NEW ctx \in Context, NEW new, NEW n \in Nat, NEW t \in Token, Streamed(ctx, n),
         t = NextToken(ctx),
         new.owner = ctx.owner, Generated(new) = Generated(ctx) + 1,
         new.queue = Append(ctx.queue, t)
  PROVE  Streamed(new, n)
<1>1. ctx.queue \in Seq(Token) /\ ctx.owner \in Client /\ Len(ctx.queue) \in Nat
  BY LenProperties DEF Context
<1>2. n + Len(ctx.queue) = Generated(ctx)
  BY DEF Streamed
<1>3. \A i \in 1..Len(ctx.queue) : ctx.queue[i] = <<ctx.owner, n + i>>
  BY DEF Streamed
<1>4. Generated(ctx) \in Int /\ n + (Len(ctx.queue) + 1) = Generated(ctx) + 1
  BY <1>1, <1>2
<1>5. t = <<ctx.owner, n + (Len(ctx.queue) + 1)>>
  BY <1>4 DEF NextToken
<1>6. n + Len(new.queue) = Generated(new)
  BY <1>1, <1>2, <1>4, GrowLength
<1>7. \A i \in 1..Len(new.queue) : new.queue[i] = <<new.owner, n + i>>
  BY <1>1, <1>3, <1>5, GrowTokens
<1> QED
  BY <1>6, <1>7 DEF Streamed

LEMMA PublishOne ==
  ASSUME NEW ctx \in Context, ~ctx.isEnding, NEW stopped \in BOOLEAN,
         NEW new, new = Publish(ctx, stopped)
  PROVE  /\ new \in Context
         /\ new.owner = ctx.owner /\ new.isAbort = ctx.isAbort
         /\ ~new.isEnding => new.all <= MaxPositions
         /\ \A n \in Nat : Streamed(ctx, n) => Streamed(new, n)
<1>1. CASE stopped
  <2>1. new = [ctx EXCEPT !.isEnding = TRUE]
    BY <1>1 DEF Publish
  <2>2. /\ new \in Context /\ new.owner = ctx.owner /\ new.isAbort = ctx.isAbort
        /\ new.isEnding /\ new.queue = ctx.queue
        /\ new.all = ctx.all /\ new.prompt = ctx.prompt
    BY <2>1 DEF Context
  <2> QED
    BY <2>2 DEF Streamed, Generated
<1>2. CASE ~stopped
  <2> DEFINE t == NextToken(ctx)
             last == \/ Generated(ctx) + 1 = OutputLimit[ctx.owner]
                     \/ ctx.all + 1 >= MaxPositions
  <2>1. new = [ctx EXCEPT !.queue = Append(ctx.queue, t), !.all = ctx.all + 1,
                          !.isEnding = last]
    BY <1>2 DEF Publish, NextToken
  <2>2. t \in Token /\ ctx.queue \in Seq(Token)
    BY DEF NextToken, Token, Generated, Context
  <2>3. Append(ctx.queue, t) \in Seq(Token) /\ last \in BOOLEAN
    BY <2>2, AppendProperties
  <2>4. ~last => ctx.all + 1 <= MaxPositions
    BY Assumption DEF Context, ResponseAssumption
  <2> HIDE DEF t, last
  <2>5. /\ new \in Context /\ new.owner = ctx.owner /\ new.isAbort = ctx.isAbort
        /\ new.isEnding = last /\ new.queue = Append(ctx.queue, t)
        /\ new.all = ctx.all + 1 /\ new.prompt = ctx.prompt
    <3>1. PICK q \in Seq(Token), b \in BOOLEAN :
            /\ q = Append(ctx.queue, t) /\ b = last
            /\ new = [ctx EXCEPT !.queue = q, !.all = ctx.all + 1, !.isEnding = b]
      BY <2>1, <2>3
    <3>2. ctx.all + 1 \in Nat
      BY DEF Context
    <3>3. new \in Context
      BY <3>1, <3>2 DEF Context
    <3>4. new.owner = ctx.owner /\ new.isAbort = ctx.isAbort /\ new.prompt = ctx.prompt
      BY <3>1 DEF Context
    <3>5. new.isEnding = b /\ new.queue = q /\ new.all = ctx.all + 1
      BY <3>1 DEF Context
    <3> QED
      BY <3>1, <3>3, <3>4, <3>5
  <2>6. Generated(new) = Generated(ctx) + 1
    BY <2>5 DEF Context, Generated
  <2>7. \A n \in Nat : Streamed(ctx, n) => Streamed(new, n)
    BY <2>2, <2>5, <2>6, StreamGrows DEF t
  <2> QED
    BY <2>4, <2>5, <2>7
<1> QED
  BY <1>1, <1>2

LEMMA FinishForwardIInv ==
  ASSUME IInv, FinishForward
  PROVE  IInv'
<1>1. PICK stopped \in SUBSET batch :
        dict' = [h \in DOMAIN dict |->
                   IF h \in batch THEN Publish(dict[h], h \in stopped) ELSE dict[h]]
  BY DEF FinishForward
<1>2. /\ loop = "forward" /\ loop' = "check" /\ batch' = {} /\ waiting' = {}
      /\ UNCHANGED <<timed, pc, hand, got, shut>>
  BY DEF FinishForward, client
<1>3. DOMAIN dict' = DOMAIN dict /\ \A h \in DOMAIN dict \ batch : dict'[h] = dict[h]
  BY <1>1
<1>4. \A h \in DOMAIN dict \cap batch :
        /\ dict'[h] \in Context
        /\ dict'[h].owner = dict[h].owner /\ dict'[h].isAbort = dict[h].isAbort
        /\ ~dict'[h].isEnding => dict'[h].all <= MaxPositions
        /\ \A n \in Nat : Streamed(dict[h], n) => Streamed(dict'[h], n)
  <2>1. SUFFICES ASSUME NEW h \in DOMAIN dict \cap batch
                 PROVE  /\ dict'[h] \in Context
                        /\ dict'[h].owner = dict[h].owner
                        /\ dict'[h].isAbort = dict[h].isAbort
                        /\ ~dict'[h].isEnding => dict'[h].all <= MaxPositions
                        /\ \A n \in Nat : Streamed(dict[h], n) => Streamed(dict'[h], n)
    OBVIOUS
  <2>2. dict[h] \in Context /\ ~dict[h].isEnding
    BY DEF IInv, Typed, InFlight, InFlightLive
  <2>3. dict'[h] = Publish(dict[h], h \in stopped)
    BY <1>1
  <2>4. (h \in stopped) \in BOOLEAN
    OBVIOUS
  <2> QED
    BY <2>2, <2>3, <2>4, PublishOne
<1>5. \A h \in DOMAIN dict : dict[h].owner \in Client /\ Len(got[dict[h].owner]) \in Nat
  BY LenProperties DEF IInv, Typed, Context
<1>6. Typed'
  BY <1>2, <1>3, <1>4 DEF IInv, Typed
<1>7. HandleOwned'
  BY <1>2, <1>3, <1>4 DEF IInv, HandleOwned
<1>8. OwnerHolds'
  BY <1>2, <1>3, <1>4 DEF IInv, OwnerHolds
<1>9. Streams'
  BY <1>2, <1>3, <1>4, <1>5 DEF IInv, Streams
<1>10. OwnStream' /\ InFlight' /\ Down'
  BY <1>2, <1>3 DEF IInv, OwnStream, InFlight, InFlightLive, Down
<1>11. Fits'
  BY <1>3, <1>4 DEF IInv, Fits
<1> QED
  BY <1>6, <1>7, <1>8, <1>9, <1>10, <1>11 DEF IInv

\* The steps of the loop and of ShutdownRuntime that leave the table alone.
Turn ==
  CheckFree \/ LoopWake \/ LoopTimeout \/ ShutdownFlag \/ ShutdownNotify

LEMMA TurnIInv ==
  ASSUME IInv, Turn
  PROVE  IInv'
<1>1. UNCHANGED <<dict, batch, pc, hand, got>>
  BY DEF Turn, CheckFree, LoopWake, LoopTimeout, ShutdownFlag, ShutdownNotify, client
<1>2. /\ loop' = "forward" <=> loop = "forward"
      /\ loop = "exit" => loop' = "exit"
      /\ loop' \in {"check", "sweep", "forward", "wait", "exit"}
      /\ waiting' \subseteq waiting /\ timed' \in BOOLEAN
      /\ shut' \in {"no", "flagged", "joining", "done"}
      /\ shut' = "done" <=> shut = "done"
  BY DEF Turn, CheckFree, LoopWake, LoopTimeout, ShutdownFlag, ShutdownNotify, IInv, Typed
<1>3. Typed'
  BY <1>1, <1>2 DEF IInv, Typed
<1>4. HandleOwned' /\ OwnerHolds' /\ Streams' /\ OwnStream' /\ Fits'
  BY <1>1, <1>2 DEF IInv, HandleOwned, OwnerHolds, Streams, OwnStream, Fits
<1>5. InFlight' /\ Down'
  BY <1>1, <1>2 DEF IInv, InFlight, InFlightLive, Down
<1> QED
  BY <1>3, <1>4, <1>5 DEF IInv

LEMMA ShutdownJoinIInv ==
  ASSUME IInv, ShutdownJoin
  PROVE  IInv'
<1>1. /\ loop = "exit" /\ shut' = "done" /\ dict' = <<>>
      /\ UNCHANGED <<loop, timed, batch, waiting, pc, hand, got>>
  BY DEF ShutdownJoin, client
<1>2. DOMAIN dict' = {}
  BY <1>1
<1>3. batch' = {}
  BY <1>1 DEF IInv, InFlight
<1>4. Typed'
  BY <1>1, <1>2 DEF IInv, Typed
<1>5. HandleOwned' /\ OwnerHolds' /\ Streams' /\ Fits' /\ Down'
  BY <1>1, <1>2 DEF HandleOwned, OwnerHolds, Streams, Fits, Down
<1>6. OwnStream' /\ InFlight'
  BY <1>1, <1>3 DEF IInv, OwnStream, InFlight, InFlightLive
<1> QED
  BY <1>4, <1>5, <1>6 DEF IInv

LEMMA StepIInv ==
  ASSUME IInv, [Next]_vars
  PROVE  IInv'
<1>1. CASE \E c \in Client :
             LaunchResponseTokens(c) \/ ClientStep(c) \/ FetchTimeout(c) \/ AbortResponse(c)
  BY <1>1, LaunchIInv, NotifyIInv, FetchTokensIInv, FetchEndIInv, FetchPauseIInv, AbortIInv
     DEF ClientStep
<1>2. CASE LoopStep \/ LoopTimeout
  BY <1>2, SweepIInv, FinishForwardIInv, TurnIInv DEF LoopStep, Sweep, Turn
<1>3. CASE ShutdownFlag \/ ShutdownNotify
  BY <1>3, TurnIInv DEF Turn
<1>4. CASE ShutdownJoin
  BY <1>4, ShutdownJoinIInv
<1>5. CASE UNCHANGED vars
  <2>1. UNCHANGED <<dict, loop, timed, batch, waiting, pc, hand, got, shut>>
    BY <1>5 DEF vars, client
  <2> QED
    BY <2>1 DEF IInv, Typed, HandleOwned, OwnerHolds, Streams, OwnStream, Fits, InFlight,
       InFlightLive, Down
<1> QED
  BY <1>1, <1>2, <1>3, <1>4, <1>5 DEF Next

LEMMA Invariance == Spec => []IInv
<1>1. IInv /\ [Next]_vars => IInv'
  BY StepIInv
<1> QED
  BY InitIInv, <1>1, PTL DEF Spec

(* The pointers a forward pass holds stay valid while it runs.               *)
THEOREM SchedulerInFlight == Spec => []InFlightLive
<1>1. IInv => InFlightLive
  BY DEF IInv, InFlight
<1> QED
  BY <1>1, Invariance, PTL

(* A client that did not abort finds its own context under its handle.       *)
THEOREM SchedulerHandles == Spec => []HandleOwned
<1>1. IInv => HandleOwned
  BY DEF IInv
<1> QED
  BY <1>1, Invariance, PTL

(* The tokens a client fetches are those of its request, in order.           *)
THEOREM SchedulerStreams == Spec => []OwnStream
<1>1. IInv => OwnStream
  BY DEF IInv
<1> QED
  BY <1>1, Invariance, PTL

\* What a step may remove from the table.
Leaving ==
  \A h \in DOMAIN dict : h \notin DOMAIN dict' /\ shut' # "done" =>
    \/ dict[h].isAbort
    \/ /\ dict[h].isEnding
       /\ Len(got[dict[h].owner]) = Generated(dict[h])

LEMMA StepLeaving ==
  ASSUME IInv, Next
  PROVE  Leaving
<1>1. CASE \E c \in Client : FetchEnd(c)
  <2>1. PICK c \in Client : FetchEnd(c)
    BY <1>1
  <2> DEFINE h == hand[c]
  <2>2. /\ Fetching(c) /\ h \in DOMAIN dict
        /\ dict[h].queue = <<>> /\ dict[h].isEnding
        /\ DOMAIN dict' = DOMAIN dict \ {h}
    BY <2>1 DEF FetchEnd, Drop
  <2>3. dict[h].owner = c /\ ~dict[h].isAbort
    BY <2>2, FetchingOwns
  <2>4. Streamed(dict[h], Len(got[c]))
    BY <2>2, <2>3 DEF IInv, Streams
  <2>5. Len(got[c]) \in Nat /\ Len(dict[h].queue) = 0
    BY <2>2, EmptySeq, LenProperties DEF IInv, Typed
  <2>6. Len(got[c]) = Generated(dict[h])
    BY <2>4, <2>5 DEF Streamed
  <2> QED
    BY <2>2, <2>3, <2>6 DEF Leaving
<1>2. CASE Sweep
  BY <1>2, SweepReschedules DEF IInv, Leaving
<1>3. CASE FinishForward
  BY <1>3 DEF FinishForward, Leaving
<1>4. CASE ShutdownJoin
  BY <1>4 DEF ShutdownJoin, Leaving
<1>5. CASE \E c \in Client : LaunchResponseTokens(c) \/ FetchTokens(c) \/ AbortResponse(c)
  BY <1>5 DEF LaunchResponseTokens, Put, FetchTokens, AbortResponse, Leaving
<1>6. CASE UNCHANGED dict
  BY <1>6 DEF Leaving
<1>7. CASE Turn \/ \E c \in Client : Notify(c) \/ FetchGone(c) \/ FetchWait(c) \/ FetchTimeout(c)
  BY <1>6, <1>7 DEF Turn, CheckFree, LoopWake, LoopTimeout, ShutdownFlag, ShutdownNotify,
     Notify, FetchGone, FetchWait, FetchTimeout
<1> QED
  BY <1>1, <1>2, <1>3, <1>4, <1>5, <1>7 DEF Next, ClientStep, LoopStep, Sweep, Turn

(* A context leaves the table aborted, or ended with every token delivered.  *)
THEOREM SchedulerLeaves == Spec => LeavesDelivered
<1>1. IInv /\ [Next]_vars => [Leaving]_vars
  BY StepLeaving
<1> QED
  BY <1>1, Invariance, PTL DEF Spec, LeavesDelivered, Leaving
-----------------------------------------------------------------------------
\* Prompts that the model has positions for.
PromptsFit == \A len \in Lengths : len <= MaxPositions

WaitPlaces ==
  /\ Loop \in waiting => loop = "wait"
  /\ \A c \in Client : c \in waiting => pc[c] = "wait"

\* Contexts that go on stay within the model's positions, in prefill too.
AllFit == \A h \in DOMAIN dict : ~dict[h].isEnding => dict[h].all <= MaxPositions

\* An end wakes everybody, so a client that still waits has not ended.
WaitersRun ==
  \A c \in Client : c \in waiting /\ shut # "done" => ~dict[hand[c]].isEnding

LoneSleeper == Loop \in waiting /\ ~timed => waiting = {Loop}

Asleep == WaitPlaces /\ AllFit /\ WaitersRun /\ LoneSleeper /\ NoLostWakeup

LEMMA AsleepLaunch ==
  ASSUME PromptsFit, IInv, Asleep, NEW c \in Client, LaunchResponseTokens(c)
  PROVE  Asleep'
<1>1. PICK h \in Handle \ DOMAIN dict, len \in Lengths :
        dict' = Put(h, NewContext(c, len)) /\ hand' = [hand EXCEPT ![c] = h]
  BY DEF LaunchResponseTokens
<1>2. /\ pc[c] = "idle" /\ pc' = [pc EXCEPT ![c] = "launched"]
      /\ UNCHANGED <<loop, timed, waiting, shut>>
      /\ shut = "no"
  BY DEF LaunchResponseTokens, isFree
<1>3. /\ DOMAIN dict' = DOMAIN dict \cup {h}
      /\ dict'[h].owner = c /\ dict'[h].all = len
      /\ \A g \in DOMAIN dict : dict'[g] = dict[g]
  BY <1>1 DEF Put, NewContext
<1>4. /\ pc'[c] = "launched"
      /\ \A d \in Client \ {c} : pc'[d] = pc[d] /\ hand'[d] = hand[d]
  BY <1>1, <1>2 DEF IInv, Typed
<1>5. WaitPlaces' /\ LoneSleeper'
  BY <1>2, <1>4 DEF Asleep, WaitPlaces, LoneSleeper
<1>6. AllFit'
  BY <1>3 DEF Asleep, AllFit, PromptsFit
<1>7. WaitersRun'
  <2>1. SUFFICES ASSUME NEW d \in Client, d \in waiting
                 PROVE  ~dict'[hand'[d]].isEnding
    BY <1>2 DEF WaitersRun
  <2>2. d # c /\ pc[d] = "wait"
    BY <1>2, <2>1 DEF Asleep, WaitPlaces
  <2>3. hand'[d] = hand[d] /\ hand[d] \in DOMAIN dict
    BY <1>2, <1>4, <2>2 DEF IInv, HandleOwned
  <2> QED
    BY <1>2, <1>3, <2>1, <2>3 DEF Asleep, WaitersRun
<1>8. NoLostWakeup'
  <2>1. \A g \in DOMAIN dict : dict[g].owner \in Client
    BY DEF IInv, Typed, Context
  <2> QED
    BY <1>2, <1>3, <1>4, <2>1 DEF Asleep, NoLostWakeup
<1> QED
  BY <1>5, <1>6, <1>7, <1>8 DEF Asleep

\* The notification of a launch or a removal wakes the loop if it sleeps.
LEMMA AsleepNotify ==
  ASSUME IInv, Asleep, NEW c \in Client, Notify(c)
  PROVE  Asleep'
<1>1. UNCHANGED <<dict, loop, timed, shut>>
  BY DEF Notify
<1>2. /\ waiting' \subseteq waiting
      /\ Loop \in waiting /\ ~timed => waiting' = {}
  BY DEF Notify, NotifyOne, Asleep, LoneSleeper
<1>3. /\ pc[c] \in {"launched", "removed"}
      /\ \A d \in Client \ {c} : pc'[d] = pc[d] /\ hand'[d] = hand[d]
  BY DEF Notify, Finished, IInv, Typed
<1>4. \A d \in Client : d \in waiting => d # c
  BY <1>3 DEF Asleep, WaitPlaces
<1>5. WaitPlaces'
  BY <1>1, <1>2, <1>3, <1>4 DEF Asleep, WaitPlaces
<1>6. AllFit'
  BY <1>1 DEF Asleep, AllFit
<1>7. WaitersRun'
  BY <1>1, <1>2, <1>3, <1>4 DEF Asleep, WaitersRun
<1>8. LoneSleeper' /\ NoLostWakeup'
  BY <1>1, <1>2 DEF LoneSleeper, NoLostWakeup
<1> QED
  BY <1>5, <1>6, <1>7, <1>8 DEF Asleep

\* A step of c that takes no context of another client and adds no waiter.
LEMMA AsleepFetch ==
  ASSUME IInv, Asleep, NEW c \in Client, pc[c] \in {"fetch", "wait", "poll"}, c \notin waiting',
         waiting' \subseteq waiting, UNCHANGED <<loop, timed, shut>>,
         \A d \in Client \ {c} : pc'[d] = pc[d] /\ hand'[d] = hand[d],
         DOMAIN dict' \subseteq DOMAIN dict,
         \A g \in DOMAIN dict :
           /\ dict[g].owner # c /\ ~dict[g].isAbort => g \in DOMAIN dict' /\ dict'[g] = dict[g]
           /\ g \in DOMAIN dict' =>
                /\ dict'[g].owner = dict[g].owner /\ dict'[g].all = dict[g].all
                /\ dict'[g].isEnding = dict[g].isEnding
                /\ dict[g].isAbort => dict'[g].isAbort
  PROVE  Asleep'
<1>1. \A g \in DOMAIN dict : dict[g].owner \in Client
  BY DEF IInv, Typed, Context
<1>2. WaitPlaces'
  BY DEF Asleep, WaitPlaces
<1>3. AllFit'
  BY DEF Asleep, AllFit
<1>4. WaitersRun'
  <2>1. SUFFICES ASSUME NEW d \in Client, d \in waiting', shut # "done"
                 PROVE  ~dict'[hand'[d]].isEnding
    BY DEF WaitersRun
  <2>2. d # c /\ d \in waiting /\ pc[d] = "wait" /\ hand'[d] = hand[d]
    BY <2>1 DEF Asleep, WaitPlaces
  <2>3. hand[d] \in DOMAIN dict /\ dict[hand[d]].owner = d /\ ~dict[hand[d]].isAbort
    BY <2>1, <2>2 DEF IInv, HandleOwned
  <2>4. dict'[hand'[d]] = dict[hand[d]]
    BY <2>2, <2>3
  <2>5. ~dict[hand[d]].isEnding
    BY <2>1, <2>2 DEF Asleep, WaitersRun
  <2> QED
    BY <2>4, <2>5
<1>5. LoneSleeper'
  BY DEF Asleep, LoneSleeper
<1>6. NoLostWakeup'
  BY <1>1 DEF Asleep, NoLostWakeup
<1> QED
  BY <1>2, <1>3, <1>4, <1>5, <1>6 DEF Asleep

LEMMA AsleepClient ==
  ASSUME IInv, Asleep, NEW c \in Client,
         \/ FetchTokens(c) \/ FetchEnd(c) \/ FetchGone(c) \/ FetchWait(c)
         \/ FetchTimeout(c) \/ AbortResponse(c)
  PROVE  Asleep'
<1> DEFINE h == hand[c]
<1>1. Fetching(c) => c \notin waiting
  BY DEF Fetching, Asleep, WaitPlaces
<1>2. c # Loop
  BY Assumption DEF ResponseAssumption
<1>3. CASE FetchTokens(c)
  <2>1. /\ Fetching(c) /\ h \in DOMAIN dict
        /\ DOMAIN dict' = DOMAIN dict
        /\ \A g \in DOMAIN dict \ {h} : dict'[g] = dict[g]
        /\ \A d \in Client \ {c} : pc'[d] = pc[d]
        /\ UNCHANGED <<waiting, loop, timed, shut, hand>>
    BY <1>3 DEF FetchTokens, IInv, Typed
  <2>2. \E rest : dict'[h] = [dict[h] EXCEPT !.queue = rest]
    BY <1>3 DEF FetchTokens
  <2>3. dict[h].owner = c /\ dict[h] \in Context /\ pc[c] \in {"fetch", "wait", "poll"}
    BY <2>1, FetchingOwns
  <2>4. /\ dict'[h].owner = dict[h].owner /\ dict'[h].all = dict[h].all
        /\ dict'[h].isEnding = dict[h].isEnding /\ dict'[h].isAbort = dict[h].isAbort
    BY <2>2, <2>3 DEF Context
  <2> QED
    BY <1>1, <2>1, <2>3, <2>4, AsleepFetch
<1>4. CASE FetchEnd(c)
  <2>1. /\ Fetching(c) /\ h \in DOMAIN dict
        /\ DOMAIN dict' = DOMAIN dict \ {h}
        /\ \A g \in DOMAIN dict' : dict'[g] = dict[g]
        /\ \A d \in Client \ {c} : pc'[d] = pc[d]
        /\ UNCHANGED <<waiting, loop, timed, shut, hand>>
    BY <1>4 DEF FetchEnd, Drop, IInv, Typed
  <2>2. dict[h].owner = c /\ pc[c] \in {"fetch", "wait", "poll"}
    BY <2>1, FetchingOwns
  <2> QED
    BY <1>1, <2>1, <2>2, AsleepFetch
<1>5. CASE FetchGone(c)
  <2>1. /\ Fetching(c)
        /\ \A d \in Client \ {c} : pc'[d] = pc[d] /\ hand'[d] = hand[d]
        /\ UNCHANGED <<dict, waiting, loop, timed, shut>>
    BY <1>5 DEF FetchGone, Finished, IInv, Typed
  <2>2. pc[c] \in {"fetch", "wait", "poll"}
    BY <2>1 DEF Fetching
  <2> QED
    BY <1>1, <2>1, <2>2, AsleepFetch
<1>6. CASE FetchTimeout(c)
  <2>1. /\ pc[c] = "wait" /\ waiting' = waiting \ {c}
        /\ \A d \in Client \ {c} : pc'[d] = pc[d]
        /\ UNCHANGED <<dict, loop, timed, shut, hand>>
    BY <1>6 DEF FetchTimeout, IInv, Typed
  <2> QED
    BY <2>1, AsleepFetch
<1>7. CASE AbortResponse(c)
  <2>1. /\ pc[c] = "fetch"
        /\ DOMAIN dict' = DOMAIN dict
        /\ \A g \in DOMAIN dict \ {h} : dict'[g] = dict[g]
        /\ h \in DOMAIN dict => dict'[h] = [dict[h] EXCEPT !.isAbort = TRUE]
        /\ \A d \in Client \ {c} : pc'[d] = pc[d] /\ hand'[d] = hand[d]
        /\ UNCHANGED <<waiting, loop, timed, shut>>
    BY <1>7 DEF AbortResponse, Finished, IInv, Typed
  <2>2. h \in DOMAIN dict => dict[h].owner = c /\ dict[h] \in Context
    BY <2>1 DEF IInv, HandleOwned, Down, Typed
  <2>3. h \in DOMAIN dict =>
          /\ dict'[h].owner = dict[h].owner /\ dict'[h].all = dict[h].all
          /\ dict'[h].isEnding = dict[h].isEnding /\ dict'[h].isAbort
    BY <2>1, <2>2 DEF Context
  <2>4. c \notin waiting'
    BY <2>1 DEF Asleep, WaitPlaces
  <2> QED
    BY <2>1, <2>2, <2>3, <2>4, AsleepFetch
<1>8. CASE FetchWait(c)
  <2>1. /\ Fetching(c) /\ h \in DOMAIN dict /\ ~dict[h].isEnding
        /\ c \in waiting' => pc'[c] = "wait"
        /\ \A d \in Client \ {c} : pc'[d] = pc[d]
        /\ waiting' \subseteq waiting \cup {c}
        /\ UNCHANGED <<dict, loop, timed, shut, hand>>
    BY <1>1, <1>8 DEF FetchWait, IInv, Typed
  <2>2. dict[h].owner = c /\ ~dict[h].isAbort /\ pc[c] \in {"fetch", "wait", "poll"}
    BY <2>1, FetchingOwns
  <2>3. ~(Loop \in waiting /\ ~timed)
    BY <2>1, <2>2 DEF Asleep, NoLostWakeup
  <2>4. WaitPlaces'
    BY <1>2, <2>1 DEF Asleep, WaitPlaces
  <2>5. AllFit'
    BY <2>1 DEF Asleep, AllFit
  <2>6. WaitersRun'
    BY <2>1 DEF Asleep, WaitersRun
  <2>7. LoneSleeper' /\ NoLostWakeup'
    BY <1>2, <2>1, <2>3 DEF LoneSleeper, NoLostWakeup
  <2> QED
    BY <2>4, <2>5, <2>6, <2>7 DEF Asleep
<1> QED
  BY <1>3, <1>4, <1>5, <1>6, <1>7, <1>8

\* The loop goes to sleep only when all that it kept has ended, and then no
\* client waits.
LEMMA AsleepSweep ==
  ASSUME IInv, Asleep, Sweep
  PROVE  Asleep'
<1>1. /\ DOMAIN dict' = {h \in DOMAIN dict : ~dict[h].isAbort}
      /\ \A h \in DOMAIN dict' : Rescheduled(dict[h], dict'[h])
      /\ waiting' \subseteq waiting \cup {Loop}
      /\ UNCHANGED <<pc, hand, got, shut>>
  BY SweepReschedules DEF IInv
<1>2. loop = "sweep" /\ Loop \notin waiting /\ shut # "done"
  BY DEF Sweep, CollectBurst, SelectPrefill, SelectDecode, Rest, IInv, Down, Asleep, WaitPlaces
<1>3. \A c \in Client : c # Loop
  BY Assumption DEF ResponseAssumption
<1>4. \A c \in Client : c \in waiting =>
        /\ hand[c] \in DOMAIN dict' /\ ~dict[hand[c]].isEnding
        /\ ~dict'[hand[c]].isEnding
  <2>1. SUFFICES ASSUME NEW c \in Client, c \in waiting
                 PROVE  /\ hand[c] \in DOMAIN dict' /\ ~dict[hand[c]].isEnding
                        /\ ~dict'[hand[c]].isEnding
    OBVIOUS
  <2>2. hand[c] \in DOMAIN dict /\ ~dict[hand[c]].isAbort
    BY <1>2, <2>1 DEF IInv, HandleOwned, Asleep, WaitPlaces
  <2>3. ~dict[hand[c]].isEnding
    BY <1>2, <2>1 DEF Asleep, WaitersRun
  <2>4. dict[hand[c]].all <= MaxPositions /\ dict[hand[c]].all \in Nat
    BY <2>2, <2>3 DEF Asleep, AllFit, IInv, Typed, Context
  <2>5. Rescheduled(dict[hand[c]], dict'[hand[c]])
    BY <1>1, <2>2
  <2>6. ~(dict[hand[c]].all > MaxPositions)
    BY <2>4, Assumption DEF ResponseAssumption
  <2> QED
    BY <1>1, <2>2, <2>3, <2>5, <2>6 DEF Rescheduled
<1>5. WaitPlaces'
  <2>1. Loop \in waiting' => loop' = "wait"
    BY <1>2 DEF Sweep, CollectBurst, SelectPrefill, SelectDecode, Rest
  <2> QED
    BY <1>1, <1>3, <2>1 DEF Asleep, WaitPlaces
<1>6. AllFit'
  BY <1>1 DEF Asleep, AllFit, Rescheduled
<1>7. WaitersRun'
  BY <1>1, <1>3, <1>4 DEF WaitersRun
<1>8. LoneSleeper' /\ NoLostWakeup'
  <2>1. CASE Loop \in waiting' /\ ~timed'
    <3>1. Rest
      BY <1>2, <2>1 DEF Sweep, CollectBurst, SelectPrefill, SelectDecode
    <3>2. Orders = {}
      BY <2>1, <3>1 DEF Rest
    <3>3. \A h \in DOMAIN dict' : dict[h].isEnding /\ dict'[h].isEnding
      BY <1>1, <3>2, KeptMember DEF Orders, Rescheduled
    <3>4. \A c \in Client : c \notin waiting
      BY <1>4, <3>3
    <3>5. waiting' = {Loop}
      BY <1>1, <2>1, <3>4 DEF IInv, Typed
    <3> QED
      BY <3>3, <3>5 DEF LoneSleeper, NoLostWakeup
  <2>2. CASE ~(Loop \in waiting' /\ ~timed')
    BY <2>2 DEF LoneSleeper, NoLostWakeup
  <2> QED
    BY <2>1, <2>2
<1> QED
  BY <1>5, <1>6, <1>7, <1>8 DEF Asleep

\* FinishForward, ShutdownNotify and ShutdownJoin leave no waiter that matters.
LEMMA AsleepWakeAll ==
  ASSUME IInv, Asleep, FinishForward \/ ShutdownNotify \/ ShutdownJoin
  PROVE  Asleep'
<1>1. CASE FinishForward
  <2>1. waiting' = {}
    BY <1>1 DEF FinishForward
  <2>2. PICK stopped \in SUBSET batch :
          dict' = [h \in DOMAIN dict |->
                     IF h \in batch THEN Publish(dict[h], h \in stopped) ELSE dict[h]]
    BY <1>1 DEF FinishForward
  <2>3. ASSUME NEW h \in DOMAIN dict', ~dict'[h].isEnding
        PROVE  dict'[h].all <= MaxPositions
    <3>1. CASE h \in batch
      <4>1. dict[h] \in Context /\ ~dict[h].isEnding
        BY <3>1 DEF IInv, Typed, InFlight, InFlightLive
      <4>2. dict'[h] = Publish(dict[h], h \in stopped) /\ (h \in stopped) \in BOOLEAN
        BY <2>2, <2>3, <3>1
      <4> QED
        BY <2>3, <4>1, <4>2, PublishOne
    <3>2. CASE h \notin batch
      BY <2>2, <2>3, <3>2 DEF Asleep, AllFit
    <3> QED
      BY <3>1, <3>2
  <2> QED
    BY <2>1, <2>3 DEF Asleep, WaitPlaces, AllFit, WaitersRun, LoneSleeper, NoLostWakeup
<1>2. CASE ShutdownNotify
  BY <1>2 DEF ShutdownNotify, Asleep, WaitPlaces, AllFit, WaitersRun, LoneSleeper, NoLostWakeup
<1>3. CASE ShutdownJoin
  <2>1. /\ loop = "exit" /\ shut' = "done" /\ DOMAIN dict' = {}
        /\ UNCHANGED <<loop, timed, waiting, pc>>
    BY <1>3 DEF ShutdownJoin, client
  <2> QED
    BY <2>1 DEF Asleep, WaitPlaces, AllFit, WaitersRun, LoneSleeper, NoLostWakeup
<1> QED
  BY <1>1, <1>2, <1>3

LEMMA AsleepTurn ==
  ASSUME IInv, Asleep, CheckFree \/ LoopWake \/ LoopTimeout \/ ShutdownFlag
  PROVE  Asleep'
<1>1. /\ UNCHANGED <<dict, pc, hand>>
      /\ waiting' \subseteq waiting
      /\ shut' # "done" => shut # "done"
  BY DEF CheckFree, LoopWake, LoopTimeout, ShutdownFlag, client
<1>2. \/ Loop \notin waiting'
      \/ UNCHANGED <<loop, timed, waiting>>
  BY DEF CheckFree, LoopWake, LoopTimeout, ShutdownFlag, Asleep, WaitPlaces
<1>3. WaitPlaces' /\ AllFit' /\ WaitersRun'
  BY <1>1, <1>2 DEF Asleep, WaitPlaces, AllFit, WaitersRun
<1>4. LoneSleeper' /\ NoLostWakeup'
  BY <1>1, <1>2 DEF Asleep, LoneSleeper, NoLostWakeup
<1> QED
  BY <1>3, <1>4 DEF Asleep

LEMMA StepAsleep ==
  ASSUME PromptsFit, IInv, Asleep, [Next]_vars
  PROVE  Asleep'
<1>1. CASE \E c \in Client :
             LaunchResponseTokens(c) \/ ClientStep(c) \/ FetchTimeout(c) \/ AbortResponse(c)
  BY <1>1, AsleepLaunch, AsleepNotify, AsleepClient DEF ClientStep
<1>2. CASE LoopStep \/ LoopTimeout
  BY <1>2, AsleepSweep, AsleepWakeAll, AsleepTurn DEF LoopStep, Sweep
<1>3. CASE ShutdownFlag \/ ShutdownNotify \/ ShutdownJoin
  BY <1>3, AsleepWakeAll, AsleepTurn
<1>4. CASE UNCHANGED vars
  <2>1. UNCHANGED <<dict, loop, timed, waiting, pc, hand, shut>>
    BY <1>4 DEF vars, client
  <2> QED
    BY <2>1 DEF Asleep, WaitPlaces, AllFit, WaitersRun, LoneSleeper, NoLostWakeup
<1> QED
  BY <1>1, <1>2, <1>3, <1>4 DEF Next

(* With prompts that fit the model, no notification of a launch is lost on   *)
(* another waiter: the loop never sleeps through a request it could schedule. *)
THEOREM SchedulerWakes ==
  ASSUME PromptsFit
  PROVE  Spec => []NoLostWakeup
<1>1. Init => Asleep
  <2> SUFFICES ASSUME Init PROVE Asleep
    OBVIOUS
  <2>1. DOMAIN dict = {} /\ waiting = {}
    BY DEF Init
  <2> QED
    BY <2>1 DEF Asleep, WaitPlaces, AllFit, WaitersRun, LoneSleeper, NoLostWakeup
<1>2. IInv /\ Asleep /\ [Next]_vars => Asleep'
  BY StepAsleep
<1>3. Asleep => NoLostWakeup
  BY DEF Asleep
<1> QED
  BY <1>1, <1>2, <1>3, Invariance, PTL DEF Spec
-----------------------------------------------------------------------------
(***************************************************************************)
(* The two mutexes of the same loop, SchedulerLocks.  LockInv says where   *)
(* the owner of each mutex can be.                                         *)
(***************************************************************************)
\* Inside the section of dictLocker in LaunchResponseTokens or AddPromptCache.
InSection == {"locked", "hit", "copying", "warming"}

LockInv ==
  /\ at \in [Launcher \cup Warmer -> InSection \cup {"idle", "entered", "returned"}]
  /\ \A t \in Launcher \cup Warmer : at[t] \in InSection => dictLocker = t
  /\ \A t \in Launcher \cup Warmer : at[t] = "copying" => forwardLocker = t
  /\ place = "select" => dictLocker = MainLoop
  /\ place \in {"lookup", "forward"} => forwardLocker = MainLoop

LEMMA StepLocks ==
  ASSUME LockInv, [LockNext]_lockVars
  PROVE  LockInv'
<1> USE LocksDistinct DEF LockAssumption
<1>1. ASSUME NEW t \in Launcher \cup Warmer, Call(t) \/ LockDict(t)
      PROVE  LockInv'
  BY <1>1 DEF LockInv, InSection, Call, LockDict
<1>2. ASSUME NEW t \in Launcher \cup Warmer, Hit(t) \/ LockForward(t) \/ Warm(t)
      PROVE  LockInv'
  BY <1>2 DEF LockInv, InSection, Hit, LockForward, Warm
<1>3. ASSUME NEW t \in Launcher \cup Warmer, LaunchReturn(t) \/ WarmReturn(t)
      PROVE  LockInv'
  BY <1>3 DEF LockInv, InSection, LaunchReturn, WarmReturn
<1>4. CASE LoopLock \/ LoopIdle \/ LoopNotified \/ LoopSelect
  BY <1>4 DEF LockInv, InSection, LoopLock, LoopIdle, LoopNotified, LoopSelect
<1>5. CASE LoopForward \/ LoopLookup \/ LoopChunk
  BY <1>5 DEF LockInv, InSection, LoopForward, LoopLookup, LoopChunk
<1>6. CASE LoopFinish \/ LoopPublish
  BY <1>6 DEF LockInv, InSection, LoopFinish, LoopPublish
<1>7. CASE UNCHANGED lockVars
  BY <1>7 DEF LockInv, lockVars
<1> QED
  BY <1>1, <1>2, <1>3, <1>4, <1>5, <1>6, <1>7 DEF LockNext, Caller, MainStep

(* For any threads and prompts, the copies of a history-cache restore are     *)
(* never made while the forward pass of the loop, or that of AddPromptCache,  *)
(* is running.                                                                *)
THEOREM LocksExclude == LockSpec => []CopiesExcluded
<1>1. LockInit => LockInv
  BY LocksDistinct DEF LockAssumption, LockInit, LockInv, InSection
<1>2. LockInv /\ [LockNext]_lockVars => LockInv'
  BY StepLocks
<1>3. LockInv => CopiesExcluded
  BY LocksDistinct DEF LockInv, InSection, LockAssumption, CopiesExcluded
<1> QED
  BY <1>1, <1>2, <1>3, PTL DEF LockSpec
==============================================================================
