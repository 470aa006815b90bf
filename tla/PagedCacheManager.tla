-------------------------- MODULE PagedCacheManager --------------------------
(***************************************************************************)
(* PagedCacheManager (include/fastllm.h, src/fastllm.cpp) with the data    *)
(* structures it keeps: two vectors used as stacks with a set beside each, *)
(* a trie keyed by hashes, timestamps, and the back pointers from pages to *)
(* trie nodes.  The callers are the requests that append pages during a    *)
(* forward pass, restore a cached prefix, record theirs and release.       *)
(*                                                                         *)
(* One page of tokens is a Block.  A node of the trie is named by the path *)
(* of edge hashes that leads to it; two blocks may share a hash as long as *)
(* their media keys differ (text blocks are taken to be free of            *)
(* collisions: nothing in the code compares their tokens).                 *)
(***************************************************************************)
EXTENDS Integers, SequencesExt

CONSTANTS
  PageOrder, \* the pages in the order SetMaxPages pushes them
  Holder,    \* page tables: one Data::pageIndex per request
  Prompt,    \* what the full pages of a request can hold: sequences of blocks
  EdgeHash,  \* of a block: HashPrefixExtra(HashTokenPage(..), key)
  ExtraKey   \* the media identity of a block

Block == UNION {ToSet(p) : p \in Prompt}
MaxDepth == Max({Len(p) : p \in Prompt})

Page == ToSet(PageOrder)
NoPage == -1
Root == <<>>      \* the path of trieRoot; also "no node" in pageToTrieNode

\* No page is pushed twice, the prompts are non-empty sequences with all their
\* non-empty prefixes, and a hash and a media key together identify a block.
BlockAssumption ==
  /\ PageOrder \in Seq(Page) /\ IsInjective(PageOrder) /\ NoPage \notin Page
  /\ IsFiniteSet(Holder)
  /\ Prompt \subseteq Seq(Block) \ {<<>>}
  /\ \A p \in Prompt : \A i \in DOMAIN p : SubSeq(p, 1, i) \in Prompt
  /\ \A a, b \in Block :
       EdgeHash[a] = EdgeHash[b] /\ ExtraKey[a] = ExtraKey[b] => a = b

ASSUME BlocksIdentified == BlockAssumption

VARIABLES
  freePages, triePages, freePagesSet, triePagesSet,
  pageRefCount, pageTimestamp, currentTimestamp,
  trieNodes,       \* [path -> [pageId, timestamp, extraKey]]
  pageToTrieNode,  \* the path of the node of a page, or Root
  pageIndex,       \* the page chain of each request
  tokens,          \* the blocks of its full pages
  content          \* history: the blocks whose KV a page holds, or Root

manager == <<freePages, triePages, freePagesSet, triePagesSet, pageRefCount,
             pageTimestamp, currentTimestamp, trieNodes, pageToTrieNode>>
vars == <<manager, pageIndex, tokens, content>>
-----------------------------------------------------------------------------
FreePageCount == Len(freePages) + Len(triePages)

\* lastPageLen >= pageLen, or no page at all
LastPageFull(h) == Len(pageIndex[h]) = Len(tokens[h])

\* s[i] = s.back(); s.pop_back()
SwapRemove(s, i) == Front([s EXCEPT ![i] = Last(s)])

\* The elements of s that are in S, in their order
Keep(s, S) ==
  LET kept[i \in 0..Len(s)] ==
        IF i = 0 THEN <<>>
        ELSE IF s[i] \in S THEN Append(kept[i - 1], s[i]) ELSE kept[i - 1]
  IN  kept[Len(s)]

NodesBelow(path) == {n \in DOMAIN trieNodes : IsStrictPrefix(path, n)}

WithoutNodes(gone) == [n \in DOMAIN trieNodes \ gone |-> trieNodes[n]]

Unmap(pages) ==
  [q \in Page |-> IF q \in pages THEN Root ELSE pageToTrieNode[q]]

\* SetMaxPages, and no request yet
Init ==
  /\ freePages = PageOrder
  /\ freePagesSet = Page
  /\ triePages = <<>>
  /\ triePagesSet = {}
  /\ pageRefCount = [q \in Page |-> 0]
  /\ pageTimestamp = [q \in Page |-> 0]
  /\ currentTimestamp = 0
  /\ trieNodes = <<>>
  /\ pageToTrieNode = [q \in Page |-> Root]
  /\ pageIndex = [h \in Holder |-> <<>>]
  /\ tokens = [h \in Holder |-> <<>>]
  /\ content = [q \in Page |-> Root]
-----------------------------------------------------------------------------
\* The pop of freePages; a stale back of triePages has just been moved there
\* when freePages was empty.
PickFree(q) ==
  LET moved == freePages = <<>>
  IN  /\ q = IF moved THEN Last(triePages) ELSE Last(freePages)
      /\ freePages' = IF moved THEN <<>> ELSE Front(freePages)
      /\ triePages' = IF moved THEN Front(triePages) ELSE triePages
      /\ freePagesSet' = freePagesSet \ {q}
      /\ triePagesSet' = IF moved THEN triePagesSet \ {q} ELSE triePagesSet
      /\ UNCHANGED <<trieNodes, pageToTrieNode>>

\* The scan of triePages from the back stopped at position i: a stale entry,
\* or a leaf whose node goes.
PickLeaf(q, i) ==
  /\ q = triePages[i]
  /\ triePages' = SwapRemove(triePages, i)
  /\ triePagesSet' = triePagesSet \ {q}
  /\ trieNodes' = WithoutNodes({pageToTrieNode[q]})
  /\ pageToTrieNode' = Unmap({q})
  /\ UNCHANGED <<freePages, freePagesSet>>

\* Mutant of PickInner: the idle pages of the deleted subtree stay where they are.
PickInnerKept(q) ==
  LET node  == pageToTrieNode[q]
      below == NodesBelow(node)
  IN  /\ q = Last(triePages)
      /\ triePages' = Front(triePages)
      /\ triePagesSet' = triePagesSet \ {q}
      /\ trieNodes' = WithoutNodes(below \cup {node})
      /\ pageToTrieNode' = Unmap({trieNodes[n].pageId : n \in below} \cup {q})
      /\ UNCHANGED <<freePages, freePagesSet>>

\* No leaf to take: the back of triePages goes with the subtree under it.
\* EvictTrieSubtree frees the idle pages of the subtree, children before their
\* parent, siblings in the order of an unordered_map.
PickInner(q) ==
  LET node  == pageToTrieNode[q]
      below == NodesBelow(node)
      lost  == {trieNodes[n].pageId : n \in below}
      freed == lost \cap (triePagesSet \ {q})
  IN  /\ q = Last(triePages)
      /\ \E order \in SetToSeqs(freed) :
           /\ \A i, j \in DOMAIN order : i < j =>
                ~IsStrictPrefix(pageToTrieNode[order[i]], pageToTrieNode[order[j]])
           /\ freePages' = freePages \o order
      /\ freePagesSet' = freePagesSet \cup freed
      /\ triePagesSet' = triePagesSet \ (freed \cup {q})
      /\ triePages' = Keep(Front(triePages), triePagesSet')
      /\ trieNodes' = WithoutNodes(below \cup {node})
      /\ pageToTrieNode' = Unmap(lost \cup {q})

\* GetUnusedPageIndex(true) for the next page of h
GetUnusedPageIndex(h) ==
  LET staleBack == triePages # <<>> /\ pageToTrieNode[Last(triePages)] = Root
      scanned   == {i \in DOMAIN triePages :
                      \/ pageToTrieNode[triePages[i]] = Root
                      \/ NodesBelow(pageToTrieNode[triePages[i]]) = {}}
  IN  /\ LastPageFull(h)
      /\ \E p \in Prompt : IsStrictPrefix(tokens[h], p)
      /\ FreePageCount > 0
      /\ \E q \in Page :
           /\ IF freePages # <<>> \/ staleBack THEN PickFree(q)
              ELSE IF scanned # {} THEN PickLeaf(q, Max(scanned))
              ELSE PickInner(q)
           /\ pageRefCount' = [pageRefCount EXCEPT ![q] = 1]
           /\ pageIndex' = [pageIndex EXCEPT ![h] = Append(@, q)]
           /\ content' = [content EXCEPT ![q] = Root]
      /\ UNCHANGED <<pageTimestamp, currentTimestamp, tokens>>

\* The forward pass fills the last page of h.
FillPage(h, b) ==
  /\ ~LastPageFull(h)
  /\ Append(tokens[h], b) \in Prompt
  /\ tokens' = [tokens EXCEPT ![h] = Append(@, b)]
  /\ content' = [content EXCEPT ![Last(pageIndex[h])] = tokens'[h]]
  /\ UNCHANGED <<manager, pageIndex>>
-----------------------------------------------------------------------------
HashPath(blocks) == [i \in DOMAIN blocks |-> EdgeHash[blocks[i]]]

\* Mutant of RecordPage: a page recorded anew keeps its old timestamp.
RecordPageUnstamped(h, st, i) ==
  LET path == HashPath(SubSeq(tokens[h], 1, i))
      pid  == pageIndex[h][i]
  IN  IF st.stop \/ (path \in DOMAIN st.nodes /\ st.nodes[path].pageId # pid)
      THEN [st EXCEPT !.stop = TRUE]
      ELSE [st EXCEPT
        !.map[pid] = path,
        !.nodes = [n \in DOMAIN @ \cup {path} |->
                     IF n = path
                     THEN [pageId |-> pid, timestamp |-> currentTimestamp + 1,
                           extraKey |-> ExtraKey[tokens[h][i]]]
                     ELSE @[n]]]

\* One iteration of Record's loop, page i of h's chain.  st.stop is the early
\* return on a hash collision.
RecordPage(h, st, i) ==
  LET path    == HashPath(SubSeq(tokens[h], 1, i))
      extra   == ExtraKey[tokens[h][i]]
      pid     == pageIndex[h][i]
      found   == path \in DOMAIN st.nodes
      old     == IF found /\ st.nodes[path].pageId # pid THEN {st.nodes[path].pageId} ELSE {}
      oldIdle == old \cap st.trieSet
      fresh   == (IF st.map[pid] = Root THEN {pid} ELSE {}) \cap st.freeSet
      waits   == {q \in fresh : pageRefCount[q] = 0}
      Drop(s, S) == IF S = {} THEN s
                    ELSE SwapRemove(s, CHOOSE j \in DOMAIN s : s[j] \in S)
  IN  IF st.stop \/ (found /\ st.nodes[path].extraKey # extra)
      THEN [st EXCEPT !.stop = TRUE]
      ELSE [st EXCEPT
        !.free = Drop(@ \o SetToSeq(oldIdle), fresh),
        !.freeSet = (@ \cup oldIdle) \ fresh,
        !.trie = Drop(@, oldIdle) \o SetToSeq(waits),
        !.trieSet = (@ \ oldIdle) \cup waits,
        !.map = [q \in Page |-> IF q = pid THEN path
                                ELSE IF q \in old THEN Root ELSE @[q]],
        !.stamp = [@ EXCEPT ![pid] = currentTimestamp + 1],
        !.nodes = [n \in DOMAIN @ \cup {path} |->
                     IF n = path
                     THEN [pageId |-> pid, timestamp |-> currentTimestamp + 1,
                           extraKey |-> extra]
                     ELSE @[n]]]

\* Record for the first n pages of h
Record(h, n) ==
  LET before == [free |-> freePages, trie |-> triePages, freeSet |-> freePagesSet,
                 trieSet |-> triePagesSet, map |-> pageToTrieNode,
                 stamp |-> pageTimestamp, nodes |-> trieNodes, stop |-> FALSE]
      recorded[i \in 0..n] ==
        IF i = 0 THEN before ELSE RecordPage(h, recorded[i - 1], i)
      after  == recorded[n]
  IN  /\ n \in 1..Len(tokens[h])
      /\ currentTimestamp' = currentTimestamp + 1
      /\ freePages' = after.free
      /\ triePages' = after.trie
      /\ freePagesSet' = after.freeSet
      /\ triePagesSet' = after.trieSet
      /\ pageToTrieNode' = after.map
      /\ pageTimestamp' = after.stamp
      /\ trieNodes' = after.nodes
      /\ UNCHANGED <<pageRefCount, pageIndex, tokens, content>>

\* A node Query's walk may pass with block b: same media identity, and the
\* page was not taken over since.
Passes(path, b) ==
  /\ path \in DOMAIN trieNodes
  /\ trieNodes[path].extraKey = ExtraKey[b]
  /\ trieNodes[path].pageId # NoPage
  /\ pageTimestamp[trieNodes[path].pageId] = trieNodes[path].timestamp

\* Query: the pages of the longest cached prefix of the blocks
Query(blocks) ==
  LET reach == {n \in 0..Len(blocks) : \A i \in 1..n :
                  Passes(HashPath(SubSeq(blocks, 1, i)), blocks[i])}
  IN  [i \in 1..Max(reach) |-> trieNodes[HashPath(SubSeq(blocks, 1, i))].pageId]

\* Query, then Pick of the first n cached pages: the scheduler takes the
\* minimum over the layers and keeps the last page of a prompt uncached.
QueryAndPick(h, blocks, n) ==
  LET cached == Query(blocks)
      picked == {cached[i] : i \in 1..n}
  IN  /\ pageIndex[h] = <<>>
      /\ n \in 1..Len(cached)
      /\ pageIndex' = [pageIndex EXCEPT ![h] = SubSeq(cached, 1, n)]
      /\ tokens' = [tokens EXCEPT ![h] = SubSeq(blocks, 1, n)]
      /\ pageRefCount' = [q \in Page |-> pageRefCount[q] + (IF q \in picked THEN 1 ELSE 0)]
      /\ freePagesSet' = freePagesSet \ picked
      /\ triePagesSet' = triePagesSet \ (picked \ freePagesSet)
      /\ freePages' = Keep(freePages, freePagesSet')
      /\ triePages' = Keep(triePages, triePagesSet')
      /\ UNCHANGED <<pageTimestamp, currentTimestamp, trieNodes, pageToTrieNode, content>>

\* ReleasePageIndices of the whole chain of h
ReleasePageIndices(h) ==
  LET unused  == Keep(pageIndex[h], {q \in Page : pageRefCount[q] <= 1})
      toTrie  == Keep(unused, {q \in Page \ triePagesSet : pageToTrieNode[q] # Root})
      toFree  == Keep(unused, {q \in Page \ freePagesSet : pageToTrieNode[q] = Root})
  IN  /\ pageIndex[h] # <<>>
      /\ pageRefCount' = [q \in Page |->
           IF q \in ToSet(unused) THEN 0
           ELSE IF q \in ToSet(pageIndex[h]) THEN pageRefCount[q] - 1
           ELSE pageRefCount[q]]
      /\ triePages' = triePages \o toTrie
      /\ triePagesSet' = triePagesSet \cup ToSet(toTrie)
      /\ freePages' = freePages \o toFree
      /\ freePagesSet' = freePagesSet \cup ToSet(toFree)
      /\ pageIndex' = [pageIndex EXCEPT ![h] = <<>>]
      /\ tokens' = [tokens EXCEPT ![h] = <<>>]
      /\ UNCHANGED <<pageTimestamp, currentTimestamp, trieNodes, pageToTrieNode, content>>

Next ==
  \E h \in Holder :
    \/ GetUnusedPageIndex(h)
    \/ ReleasePageIndices(h)
    \/ \E b \in Block : FillPage(h, b)
    \/ \E n \in 1..MaxDepth :
         \/ Record(h, n)
         \/ \E blocks \in Prompt : QueryAndPick(h, blocks, n)

Spec == Init /\ [][Next]_vars
-----------------------------------------------------------------------------
\* The blocks a node stands for, when the keys along its path allow them.
Spells(blocks) ==
  \A i \in DOMAIN blocks :
    LET path == HashPath(SubSeq(blocks, 1, i))
    IN  path \in DOMAIN trieNodes /\ trieNodes[path].extraKey = ExtraKey[blocks[i]]

\* Query returns the longest published prefix and nothing else, hash collisions
\* included: every page holds the KV of the blocks up to it, and no timestamp that
\* was left behind cuts the answer off.
QueryExact ==
  \A blocks \in Prompt :
    /\ \A i \in DOMAIN Query(blocks) : content[Query(blocks)[i]] = SubSeq(blocks, 1, i)
    /\ \A n \in 1 .. Len(blocks) : Spells(SubSeq(blocks, 1, n)) => Len(Query(blocks)) >= n

\* What the trie, its back pointers and the page tables mean in terms of prompts.
poolTrie ==
  [p \in Prompt |-> IF Spells(p) THEN trieNodes[HashPath(p)].pageId ELSE NoPage]

poolNodeOf ==
  [q \in Page |->
     IF pageToTrieNode[q] = Root THEN Root
     ELSE CHOOSE p \in Prompt : HashPath(p) = pageToTrieNode[q] /\ Spells(p)]

poolTable ==
  [h \in Holder |-> [p \in Prompt |->
     IF IsPrefix(p, tokens[h]) THEN pageIndex[h][Len(p)] ELSE NoPage]]

poolTail ==
  [h \in Holder |-> IF LastPageFull(h) THEN NoPage ELSE Last(pageIndex[h])]

Longer == {pq \in Prompt \X Prompt : IsStrictPrefix(pq[1], pq[2])}

Pool == INSTANCE PagePool WITH
  Prefix <- Prompt, NoPrefix <- Root, Shorter <- Longer,
  free <- freePagesSet, idle <- triePagesSet, ref <- pageRefCount,
  trie <- poolTrie, nodeOf <- poolNodeOf, table <- poolTable, tail <- poolTail

\* The vectors, hashes and timestamps implement the page pool: every call is
\* one of its steps or leaves it alone.
ImplementsPool == Pool!Spec
=============================================================================
