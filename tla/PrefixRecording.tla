-------------------------- MODULE PrefixRecording --------------------------
(***************************************************************************)
(* When a request publishes its KV pages in the prefix cache, and what a   *)
(* later request finds in them: the restore of RunNewMainLoop, the prefill *)
(* in chunks, the decode steps and ResponseContext::TryRecordPagedCache    *)
(* between them (src/models/basellm.cpp).                                  *)
(*                                                                         *)
(* All requests are prefixes of one text, the case in which they share     *)
(* pages; so the cache is one chain and an index in it stands for the      *)
(* tokens that lead there.  Pages are never short and never reused here:   *)
(* PagePool and PagedCacheManager are about that.  One layer, one device.  *)
(***************************************************************************)
EXTENDS Integers, Sequences, FiniteSets

CONSTANTS
  Request,
  PromptLens,   \* lengths of the prompts, in tokens
  OutputLimit,  \* output_token_limit
  PageLen,      \* tokens in a page
  ChunkLen,     \* prefillChunkSize
  Keyed,        \* requests carry prefixCachePageKeys
  Stepwise,     \* WantsPerStepPrefixSnapshot
  Evictions     \* bound: requests evicted for recompute

RecordingAssumption ==
  /\ PromptLens \subseteq Nat \ {0}
  /\ OutputLimit \in Nat \ {0}
  /\ PageLen \in Nat \ {0, 1}
  /\ ChunkLen \in Nat \ {0}
  /\ Keyed \in BOOLEAN /\ Stepwise \in BOOLEAN
  /\ Evictions \in Nat

ASSUME Assumption == RecordingAssumption

VARIABLES
  ctx,     \* the context of each request
  filled,  \* rows of each page that a forward pass has computed
  trie,    \* the published chain: the page at each depth
  evicted  \* requests evicted so far

vars == <<ctx, filled, trie, evicted>>

\* A page is named by the request that allocated it, in which of its runs, and
\* its depth in the chain.
Page == Request \X (0..Evictions) \X Nat

\* phase: "new" (not restored yet), "ready" (restored, its prefill to come),
\* "chunking" (between two chunks), "decode", "ended".
NewContext(n) ==
  [phase |-> "new", prompt |-> n, all |-> n, rows |-> 0, chain |-> <<>>, run |-> 0]

Init ==
  /\ \E n \in [Request -> PromptLens] : ctx = [r \in Request |-> NewContext(n[r])]
  /\ filled = <<>>
  /\ trie = <<>>
  /\ evicted = 0
-----------------------------------------------------------------------------
Least(a, b) == IF a < b THEN a ELSE b

\* Pages that hold a number of rows: the last one may be partly filled.
PagesFor(rows) == (rows + PageLen - 1) \div PageLen

\* A chunked prefill is one pass over forwardLocker: nothing else happens
\* between its chunks.
Between == \A r \in Request : ctx[r].phase # "chunking"

\* The forward pass of c = ctx[r] over k more tokens: the context after it, and
\* the rows then computed in each page.
Extend(r, c, k) ==
  LET rows == c.rows + k
  IN  [c EXCEPT
        !.rows = rows,
        !.chain = [d \in 1..PagesFor(rows) |->
                     IF d <= Len(c.chain) THEN c.chain[d] ELSE <<r, c.run, d>>]]

Compute(r, c) ==
  LET own == {c.chain[d] : d \in {e \in DOMAIN c.chain : c.chain[e][1] = r /\ c.chain[e][2] = c.run}}
  IN  [p \in DOMAIN filled \cup own |->
         IF p \in own THEN Least(PageLen, c.rows - (p[3] - 1) * PageLen) ELSE filled[p]]

\* Mutant of Recordable: page keys do not hold the record back.
RecordableAll(c) == Least(c.all \div PageLen, Len(c.chain))

\* Mutant of Recordable: the last row is always taken for one still to come.
RecordableLess(c) == Least((IF c.rows > 0 THEN c.rows - 1 ELSE 0) \div PageLen, c.prompt \div PageLen)

\* TryRecordPagedCache and Record: the pages published.  With page keys, those
\* of the prompt that are computed; without, all that allTokens fill.
Recordable(c) ==
  IF Keyed
  THEN Least(Least(c.all, c.rows) \div PageLen, c.prompt \div PageLen)
  ELSE Least(c.all \div PageLen, Len(c.chain))

\* The chain after a record: the pages of the request replace those published
\* at the same depth, and what lies deeper stays.
Recorded(t, c) ==
  LET m == Recordable(c)
  IN  [d \in 1..(IF m > Len(t) THEN m ELSE Len(t)) |-> IF d <= m THEN c.chain[d] ELSE t[d]]

\* Mutant of Restorable: a prompt may be restored to its last token.
RestorableAll(c) == Least(c.all \div PageLen, Len(trie))

\* The cached pages a request takes over: one less if they cover its whole
\* input, since the forward pass needs a token to run on.
Restorable(c) ==
  LET k == Least(c.all \div PageLen, Len(trie))
  IN  IF k > 0 /\ k * PageLen >= c.all THEN k - 1 ELSE k

\* The selection loop restores the prefix of a pending request; while it found
\* none and the request is not selected, it looks again.
Restore(r) ==
  /\ Between
  /\ ctx[r].phase \in {"new", "ready"} /\ ctx[r].rows = 0
  /\ LET k == Restorable(ctx[r])
     IN  ctx' = [ctx EXCEPT ![r].phase = "ready", ![r].rows = k * PageLen,
                            ![r].chain = SubSeq(trie, 1, k)]
  /\ UNCHANGED <<filled, trie, evicted>>

\* Tokens of the input that are still to be computed.
Left(c) == c.all - c.rows

\* A chunk of a long prefill that is not the last, and the record after it.
Chunk(r) ==
  LET c == Extend(r, [ctx[r] EXCEPT !.phase = "chunking"], ChunkLen)
  IN  /\ ctx[r].phase = "chunking" \/ (ctx[r].phase = "ready" /\ Between)
      /\ Left(ctx[r]) > ChunkLen
      /\ ctx' = [ctx EXCEPT ![r] = c]
      /\ filled' = Compute(r, c)
      /\ trie' = Recorded(trie, c)
      /\ UNCHANGED evicted

\* After the forward pass: a prefill is recorded at once; then an end token
\* ends the request and records it, any other is appended, recorded if every
\* step is, and ends and records it at the output limit.
Finish(r, c, stopped, t) ==
  LET n == IF stopped THEN c ELSE [c EXCEPT !.all = @ + 1]
      over == stopped \/ n.all - n.prompt = OutputLimit
  IN  /\ ctx' = [ctx EXCEPT ![r] = [n EXCEPT !.phase = IF over THEN "ended" ELSE "decode"]]
      /\ filled' = Compute(r, c)
      /\ trie' = IF over \/ Stepwise THEN Recorded(t, n) ELSE t
      /\ UNCHANGED evicted

\* The last chunk of a prefill, or a prefill of one chunk.  An input of a
\* single token is not told from a decode step and not recorded.
Prefill(r) ==
  LET c == Extend(r, ctx[r], Left(ctx[r]))
  IN  /\ ctx[r].phase = "chunking" \/ (ctx[r].phase = "ready" /\ Between)
      /\ Left(ctx[r]) <= ChunkLen
      /\ \E stopped \in BOOLEAN :
           Finish(r, c, stopped,
                  IF ctx[r].phase = "chunking" \/ Left(ctx[r]) > 1
                  THEN Recorded(trie, c) ELSE trie)

Decode(r) ==
  /\ Between
  /\ ctx[r].phase = "decode"
  /\ \E stopped \in BOOLEAN : Finish(r, Extend(r, ctx[r], 1), stopped, trie)

\* releaseAndReinitRequest: the pages go back, and the request is pending again
\* with all its tokens as input.
Evict(r) ==
  /\ Between
  /\ ctx[r].phase = "decode"
  /\ evicted < Evictions
  /\ evicted' = evicted + 1
  /\ ctx' = [ctx EXCEPT ![r].phase = "new", ![r].rows = 0, ![r].chain = <<>>,
                        ![r].run = @ + 1]
  /\ UNCHANGED <<filled, trie>>

\* The sweep finds the request aborted: it is recorded and removed.
Abort(r) ==
  /\ Between
  /\ ctx[r].phase \in {"new", "ready", "decode"}
  /\ ctx' = [ctx EXCEPT ![r].phase = "ended"]
  /\ trie' = Recorded(trie, ctx[r])
  /\ UNCHANGED <<filled, evicted>>

Next ==
  \E r \in Request :
    Restore(r) \/ Chunk(r) \/ Prefill(r) \/ Decode(r) \/ Evict(r) \/ Abort(r)

Spec == Init /\ [][Next]_vars
-----------------------------------------------------------------------------
\* Attention reads the rows below the length of a request: each of them was
\* computed by a forward pass, by this request or by the one that published it.
AttendsComputed ==
  \A r \in Request : \A d \in DOMAIN ctx[r].chain :
    /\ ctx[r].chain[d] \in DOMAIN filled
    /\ filled[ctx[r].chain[d]] >= Least(PageLen, ctx[r].rows - (d - 1) * PageLen)

\* A restored request keeps a token to run the forward pass on, else there are
\* no logits to sample its first token from.
InputLeft == \A r \in Request : ctx[r].phase = "ready" => Left(ctx[r]) > 0

\* Once its prefill is done, the full pages of a prompt are there for the
\* requests that share it.
PromptPublished ==
  \A r \in Request : ctx[r].phase = "decode" => Len(trie) >= ctx[r].prompt \div PageLen
=============================================================================
