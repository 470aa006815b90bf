------------------------------ MODULE PagePool ------------------------------
(***************************************************************************)
(* The page pool of one PagedCacheManager (include/fastllm.h,              *)
(* src/fastllm.cpp) together with the page tables of the requests that     *)
(* share it.  KV pages are handed out, shared by prefix, published in a    *)
(* prefix trie and taken back; every operation runs under pageIndexLocker, *)
(* so each one is a single action here.                                    *)
(*                                                                         *)
(* A page-aligned token prefix is a member of Prefix, and Shorter relates  *)
(* a prefix to each of its proper extensions: a trie node, its edge hashes *)
(* and its parent pointers are the prefix they spell.  The two vectors of  *)
(* available pages are the sets free and idle; which page an allocation    *)
(* takes among the eligible ones is left open.  PagedCacheManager.tla      *)
(* keeps the vectors, the timestamps and the hashes, and implements this   *)
(* module.                                                                 *)
(***************************************************************************)
EXTENDS Integers, FiniteSets

CONSTANTS
  Page,     \* the pages of the pool, 0..maxPages-1 in the code
  Holder,   \* page tables: one Data::pageIndex per request or snapshot
  Prefix,   \* page-aligned token prefixes, media identity included
  Shorter,  \* <<p, q>> \in Shorter: p is a proper prefix of q
  NoPage,   \* no page: pageId == -1, or a position without a page
  NoPrefix  \* no prefix: an unmapped page, or a page not yet full

\* Prefixes are ordered by extension and the null values are not members.
PagePoolAssumption ==
  /\ NoPage \notin Page
  /\ NoPrefix \notin Prefix
  /\ IsFiniteSet(Holder)
  /\ Shorter \subseteq Prefix \X Prefix
  /\ \A p \in Prefix : <<p, p>> \notin Shorter
  /\ \A p, q, r \in Prefix :
       <<p, q>> \in Shorter /\ <<q, r>> \in Shorter => <<p, r>> \in Shorter

ASSUME Assumption == PagePoolAssumption

VARIABLES
  free,     \* freePages: available, not in the trie
  idle,     \* triePages: available, but still published in the trie
  ref,      \* pageRefCount
  trie,     \* the page of the trie node of each prefix
  nodeOf,   \* pageToTrieNode: the prefix a page is published under
  table,    \* table[h][p]: the full page of h for prefix p
  tail,     \* the last page of h while lastPageLen < pageLen
  content   \* history: the prefix whose KV a page holds

vars == <<free, idle, ref, trie, nodeOf, table, tail, content>>
-----------------------------------------------------------------------------
\* p and everything it extends: the nodes a walk from the root to p visits.
Chain(p) == {r \in Prefix : r = p \/ <<r, p>> \in Shorter}

\* p and everything that extends it: the subtree under the node of p.
Subtree(p) == {r \in Prefix : r = p \/ <<p, r>> \in Shorter}

\* Every page a holder references.
Held(h) == ({table[h][p] : p \in Prefix} \cup {tail[h]}) \ {NoPage}

\* The holders of a page.
Users(q) == {h \in Holder : q \in Held(h)}

Empty == [p \in Prefix |-> NoPage]

Init ==
  /\ free = Page
  /\ idle = {}
  /\ ref = [q \in Page |-> 0]
  /\ trie = Empty
  /\ nodeOf = [q \in Page |-> NoPrefix]
  /\ table = [h \in Holder |-> Empty]
  /\ tail = [h \in Holder |-> NoPage]
  /\ content = [q \in Page |-> NoPrefix]
-----------------------------------------------------------------------------
\* Available pages whose trie node is gone already.
Stale == {q \in idle : nodeOf[q] = NoPrefix}

\* Available pages published at a node without children.
Leaves ==
  {q \in idle : nodeOf[q] # NoPrefix
                  /\ \A p \in Subtree(nodeOf[q]) \ {nodeOf[q]} : trie[p] = NoPage}

\* Mutant of Eligible: a published page is taken without a look at its count.
EligiblePublished ==
  IF free # {} THEN free ELSE {q \in Page : nodeOf[q] # NoPrefix}

\* The pages GetUnusedPageIndex may pick: a free one if there is one, else a
\* stale one or a leaf of the trie, else any published one.
Eligible ==
  IF free # {} THEN free
  ELSE IF Stale \cup Leaves # {} THEN Stale \cup Leaves
  ELSE idle

\* Mutant of Evicted: only the node of the page goes, its children stay.
EvictedAlone(q) == IF q \in free \/ nodeOf[q] = NoPrefix THEN {} ELSE {nodeOf[q]}

\* Mutant of Evicted: the trie keeps the node of a page that is picked.
EvictedNone(q) == {}

\* The trie nodes that go when page q is picked: none for a free or stale
\* page, otherwise its node with the subtree under it (EvictTrieSubtree).
Evicted(q) == IF q \in free \/ nodeOf[q] = NoPrefix THEN {} ELSE Subtree(nodeOf[q])

\* GetUnusedPageIndex(true), appended to h's page chain when its last page is
\* full.  Idle pages of the evicted subtree become free, held ones are only
\* unpublished.
Acquire(h) ==
  /\ tail[h] = NoPage
  /\ \E q \in Eligible :
       LET gone == Evicted(q)
           lost == {trie[p] : p \in gone} \ {NoPage}
       IN  /\ free' = (free \cup (idle \cap lost)) \ {q}
           /\ idle' = idle \ (lost \cup {q})
           /\ trie' = [p \in Prefix |-> IF p \in gone THEN NoPage ELSE trie[p]]
           /\ nodeOf' = [x \in Page |-> IF x \in lost THEN NoPrefix ELSE nodeOf[x]]
           /\ ref' = [ref EXCEPT ![q] = 1]
           /\ tail' = [tail EXCEPT ![h] = q]
           /\ content' = [content EXCEPT ![q] = NoPrefix]
  /\ UNCHANGED table

\* The forward pass writes the last slot of h's tail page: it now holds the KV
\* of prefix p, which extends the full pages of h by exactly one page.
Fill(h, p) ==
  /\ tail[h] # NoPage
  /\ table[h][p] = NoPage
  /\ \A r \in Prefix : table[h][r] # NoPage <=> <<r, p>> \in Shorter
  /\ table' = [table EXCEPT ![h][p] = tail[h]]
  /\ tail' = [tail EXCEPT ![h] = NoPage]
  /\ content' = [content EXCEPT ![tail[h]] = p]
  /\ UNCHANGED <<free, idle, ref, trie, nodeOf>>

\* Mutant of Record: the page a node held before stays mapped to it.
RecordKeepsOld(h, p) ==
  LET path == Chain(p)
      new  == {table[h][r] : r \in path}
  IN  /\ table[h][p] # NoPage
      /\ trie' = [r \in Prefix |-> IF r \in path THEN table[h][r] ELSE trie[r]]
      /\ nodeOf' = [q \in Page |->
           IF q \in new THEN CHOOSE r \in path : table[h][r] = q ELSE nodeOf[q]]
      /\ UNCHANGED <<free, idle, ref, table, tail, content>>

\* Record: publish h's pages along the walk to p.  A node that already holds
\* another page is given h's page; the old one is unpublished, and is free if
\* nobody holds it.
Record(h, p) ==
  LET path == Chain(p)
      new  == {table[h][r] : r \in path}
      old  == {trie[r] : r \in {s \in path : trie[s] # table[h][s]}} \ {NoPage}
  IN  /\ table[h][p] # NoPage
      /\ trie' = [r \in Prefix |-> IF r \in path THEN table[h][r] ELSE trie[r]]
      /\ nodeOf' = [q \in Page |->
           IF q \in new THEN CHOOSE r \in path : table[h][r] = q
           ELSE IF q \in old THEN NoPrefix
           ELSE nodeOf[q]]
      /\ free' = (free \ new) \cup (idle \cap old)
      /\ idle' = (idle \ old) \cup {q \in free \cap new : ref[q] = 0}
      /\ UNCHANGED <<ref, table, tail, content>>

\* Mutant of Restore: the picked pages stay in the pool of idle pages.
RestoreKeepsIdle(h, p) ==
  LET picked == {trie[r] : r \in Chain(p)}
  IN  /\ Held(h) = {}
      /\ \A r \in Chain(p) : trie[r] # NoPage
      /\ table' = [table EXCEPT ![h] =
                     [r \in Prefix |-> IF r \in Chain(p) THEN trie[r] ELSE NoPage]]
      /\ ref' = [q \in Page |-> IF q \in picked THEN ref[q] + 1 ELSE ref[q]]
      /\ UNCHANGED <<free, idle, trie, nodeOf, tail, content>>

\* Query and Pick: a holder without pages starts from the cached prefix p.
\* The scheduler may use less of the prefix than the trie offers, hence any p.
Restore(h, p) ==
  LET picked == {trie[r] : r \in Chain(p)}
  IN  /\ Held(h) = {}
      /\ \A r \in Chain(p) : trie[r] # NoPage
      /\ table' = [table EXCEPT ![h] =
                     [r \in Prefix |-> IF r \in Chain(p) THEN trie[r] ELSE NoPage]]
      /\ ref' = [q \in Page |-> IF q \in picked THEN ref[q] + 1 ELSE ref[q]]
      /\ free' = free \ picked
      /\ idle' = idle \ picked
      /\ UNCHANGED <<trie, nodeOf, tail, content>>

\* Mutant of Release: every page goes back to its pool, shared or not.
ReleaseShared(h) ==
  /\ Held(h) # {}
  /\ ref' = [q \in Page |-> IF q \in Held(h) THEN 0 ELSE ref[q]]
  /\ idle' = idle \cup {q \in Held(h) : nodeOf[q] # NoPrefix}
  /\ free' = free \cup {q \in Held(h) : nodeOf[q] = NoPrefix}
  /\ table' = [table EXCEPT ![h] = Empty]
  /\ tail' = [tail EXCEPT ![h] = NoPage]
  /\ UNCHANGED <<trie, nodeOf, content>>

\* Mutant of Release: a page reached through two descriptors of a tensor
\* parallel cache is released twice, and the count is not clamped at zero.
ReleaseTwice(h) ==
  LET unused == {q \in Held(h) : ref[q] <= 2}
  IN  /\ Held(h) # {}
      /\ ref' = [q \in Page |-> IF q \in Held(h) THEN ref[q] - 2 ELSE ref[q]]
      /\ idle' = idle \cup {q \in unused : nodeOf[q] # NoPrefix}
      /\ free' = free \cup {q \in unused : nodeOf[q] = NoPrefix}
      /\ table' = [table EXCEPT ![h] = Empty]
      /\ tail' = [tail EXCEPT ![h] = NoPage]
      /\ UNCHANGED <<trie, nodeOf, content>>

\* ReleasePageIndices of every page of h (ReleasePagedCachePages, ~Data).
Release(h) ==
  LET unused == {q \in Held(h) : ref[q] <= 1}
  IN  /\ Held(h) # {}
      /\ ref' = [q \in Page |-> IF q \in unused THEN 0
                                ELSE IF q \in Held(h) THEN ref[q] - 1 ELSE ref[q]]
      /\ idle' = idle \cup {q \in unused : nodeOf[q] # NoPrefix}
      /\ free' = free \cup {q \in unused : nodeOf[q] = NoPrefix}
      /\ table' = [table EXCEPT ![h] = Empty]
      /\ tail' = [tail EXCEPT ![h] = NoPage]
      /\ UNCHANGED <<trie, nodeOf, content>>

Next ==
  \E h \in Holder :
    \/ Acquire(h)
    \/ Release(h)
    \/ \E p \in Prefix : Fill(h, p) \/ Record(h, p) \/ Restore(h, p)

Spec == Init /\ [][Next]_vars
-----------------------------------------------------------------------------
TypeOK ==
  /\ free \subseteq Page
  /\ idle \subseteq Page
  /\ ref \in [Page -> Nat]
  /\ trie \in [Prefix -> Page \cup {NoPage}]
  /\ nodeOf \in [Page -> Prefix \cup {NoPrefix}]
  /\ table \in [Holder -> [Prefix -> Page \cup {NoPage}]]
  /\ tail \in [Holder -> Page \cup {NoPage}]
  /\ content \in [Page -> Prefix \cup {NoPrefix}]

\* A page found through the trie, or reached through a page table, holds the
\* KV of exactly the prefix it is used for: a page is never rewritten while a
\* node or a request still points to it.
CacheCoherent ==
  \A p \in Prefix :
    /\ trie[p] # NoPage => content[trie[p]] = p
    /\ \A h \in Holder : table[h][p] # NoPage => content[table[h][p]] = p

\* The page a request is still writing belongs to it alone: no other request
\* holds it and the trie does not offer it.
TailExclusive ==
  \A h \in Holder : tail[h] # NoPage =>
    /\ \A g \in Holder \ {h} : tail[h] \notin Held(g)
    /\ \A p \in Prefix : trie[p] # tail[h] /\ table[h][p] # tail[h]

\* The reference count of a page is the number of its holders, so a release
\* neither frees a page in use nor leaks one.
RefCounted == \A q \in Page : ref[q] = Cardinality(Users(q))

\* Every page nobody holds is in exactly one of the two pools, and no page in
\* use is in either: FreePageCount is the number of pages not in use.
Partition ==
  /\ free \cap idle = {}
  /\ free \cup idle = {q \in Page : Users(q) = {}}

\* pageToTrieNode and the pageId of the nodes are inverse of each other, and
\* the two pools split by it.  The code never sees a stale entry in triePages.
TrieInverse ==
  /\ \A q \in Page, p \in Prefix : nodeOf[q] = p <=> trie[p] = q
  /\ \A q \in free : nodeOf[q] = NoPrefix
  /\ \A q \in idle : nodeOf[q] # NoPrefix

\* No node of the trie is cut off from the root: a published prefix can be
\* reached by the walk of Query.
TrieConnected ==
  \A p, r \in Prefix : trie[p] # NoPage /\ <<r, p>> \in Shorter => trie[r] # NoPage

\* A page of the trie that is in use is never handed out again: what a step
\* rewrites was available before.
OnlyAvailableRewritten ==
  [][\A q \in Page : content'[q] # content[q] =>
       \/ q \in free \cup idle
       \/ \E h \in Holder : tail[h] = q /\ Users(q) = {h}]_vars
=============================================================================
