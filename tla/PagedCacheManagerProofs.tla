----------------------- MODULE PagedCacheManagerProofs -----------------------
(***************************************************************************)
(* Proofs about PagedCacheManager: Query is exact, and the vectors, hashes *)
(* and timestamps implement PagePool.  The inductive invariant Linked says *)
(* that each structure agrees with the one beside it, and that the pool    *)
(* they mean has the inductive invariant of PagePool.  Each call is shown  *)
(* to be a step of the pool, so what PagePoolProofs proves of the pool is  *)
(* not proved again; the rest is what the pool does not see, the vectors,  *)
(* the paths of hashes and the timestamps.  N and m stand for trieNodes    *)
(* and pageToTrieNode, before and after a step.                            *)
(***************************************************************************)
EXTENDS PagedCacheManager, SequenceTheorems, FiniteSetTheorems, WellFoundedInduction, TLAPS

\* The proofs about the pool, as the manager means it.
PoolFacts == INSTANCE PagePoolProofs WITH
  Prefix <- Prompt, NoPrefix <- Root, Shorter <- Longer,
  free <- freePagesSet, idle <- triePagesSet, ref <- pageRefCount,
  trie <- poolTrie, nodeOf <- poolNodeOf, table <- poolTable, tail <- poolTail

\* s holds the pages of S, each once.
Lists(s, S) == s \in Seq(Page) /\ IsInjective(s) /\ ToSet(s) = S

\* The first k blocks of p.
Upto(p, k) == SubSeq(p, 1, k)

Hash == {EdgeHash[b] : b \in Block}

\* Spells, and the trie and the back pointers it makes sense of, for any nodes N
\* and back pointers m.
SpelledIn(N, p) ==
  \A i \in 1..Len(p) : /\ HashPath(Upto(p, i)) \in DOMAIN N
                       /\ N[HashPath(Upto(p, i))].extraKey = ExtraKey[p[i]]

WellSpelled(N) ==
  \A n \in DOMAIN N : /\ N[n].pageId \in Page
                      /\ \E p \in Prompt : HashPath(p) = n /\ SpelledIn(N, p)

Inverses(N, m) == \A q \in Page, n \in DOMAIN N : m[q] = n <=> N[n].pageId = q

TrieOf(N) == [p \in Prompt |-> IF SpelledIn(N, p) THEN N[HashPath(p)].pageId ELSE NoPage]

NodeOf(N, m) ==
  [q \in Page |-> IF m[q] = Root THEN Root
                  ELSE CHOOSE p \in Prompt : HashPath(p) = m[q] /\ SpelledIn(N, p)]

\* The stacks agree with the sets beside them.
Stacks == Lists(freePages, freePagesSet) /\ Lists(triePages, triePagesSet)

\* A chain has the pages of its blocks and at most one more, which is being
\* filled.
Chains ==
  /\ tokens \in [Holder -> Prompt \cup {Root}]
  /\ pageIndex \in [Holder -> Seq(Page)]
  /\ \A h \in Holder : Len(pageIndex[h]) \in {Len(tokens[h]), Len(tokens[h]) + 1}

\* Some prompt spells each node, a node has the timestamp of its page, and a
\* page that is published points at a node.
Nodes ==
  /\ currentTimestamp \in Int /\ pageTimestamp \in [Page -> Int]
  /\ WellSpelled(trieNodes)
  /\ \A n \in DOMAIN trieNodes : trieNodes[n].timestamp = pageTimestamp[trieNodes[n].pageId]
  /\ pageToTrieNode \in [Page -> DOMAIN trieNodes \cup {Root}]

\* The inductive invariant: the structures agree with each other, and the pool
\* they mean is sound.
Linked == Stacks /\ Chains /\ Nodes /\ PoolFacts!IInv
-----------------------------------------------------------------------------
\* The least number that is out of line: how a fact about all numbers is
\* proved from one about successive ones.
LEMMA LeastOf ==
  ASSUME NEW S \in SUBSET Nat, S # {}
  PROVE  \E m \in S : \A y \in S : m <= y
<1> DEFINE R == OpToRel(<, Nat)
<1>1. IsWellFoundedOn(R, Nat)
  BY NatLessThanWellFounded, Zenon
<1>2. \A y \in S, m \in S : <<y, m>> \notin R => m <= y
  BY DEF OpToRel
<1> HIDE DEF R
<1>3. PICK m \in S : \A y \in S : <<y, m>> \notin R
  BY <1>1, WFMin
<1> QED
  BY <1>2, <1>3

\* The recursive function of Keep is defined for every sequence.
LEMMA KeptExists ==
  ASSUME NEW P, NEW s \in Seq(P), NEW S
  PROVE  \E f : f = [i \in 0..Len(s) |->
                       IF i = 0 THEN <<>>
                       ELSE IF s[i] \in S THEN Append(f[i - 1], s[i]) ELSE f[i - 1]]
<1> DEFINE Def(f, n) == f = [i \in 0..n |->
                               IF i = 0 THEN <<>>
                               ELSE IF s[i] \in S THEN Append(f[i - 1], s[i]) ELSE f[i - 1]]
           Without == {n \in 0..Len(s) : ~\E f : Def(f, n)}
<1>1. Def([i \in 0..0 |-> <<>>], 0)
  OBVIOUS
<1>2. ASSUME NEW n \in 0..Len(s), n > 0, NEW f, Def(f, n - 1)
      PROVE  \E g : Def(g, n)
  <2> DEFINE next == IF s[n] \in S THEN Append(f[n - 1], s[n]) ELSE f[n - 1]
             g == [i \in 0..n |-> IF i = n THEN next ELSE f[i]]
  <2>1. \A i \in 0..n - 1 : g[i] = f[i]
    BY <1>2
  <2>2. g[n] = next
    BY <1>2
  <2>3. \A i \in 0..n : g[i] = IF i = 0 THEN <<>>
                               ELSE IF s[i] \in S THEN Append(g[i - 1], s[i]) ELSE g[i - 1]
    <3> SUFFICES ASSUME NEW i \in 0..n
                 PROVE  g[i] = IF i = 0 THEN <<>>
                               ELSE IF s[i] \in S THEN Append(g[i - 1], s[i]) ELSE g[i - 1]
      OBVIOUS
    <3>1. CASE i = n
      <4>1. n - 1 \in 0..n - 1 /\ n # 0
        BY <1>2
      <4> QED
        BY <2>1, <2>2, <3>1, <4>1
    <3>2. CASE i # n
      <4>1. i \in 0..n - 1 /\ (i # 0 => i - 1 \in 0..n - 1)
        BY <3>2, <1>2
      <4>2. f[i] = IF i = 0 THEN <<>>
                   ELSE IF s[i] \in S THEN Append(f[i - 1], s[i]) ELSE f[i - 1]
        BY <4>1, <1>2
      <4> HIDE DEF g, Def
      <4> QED
        BY <2>1, <4>1, <4>2
    <3> QED
      BY <3>1, <3>2
  <2>4. Def(g, n)
    BY <2>3
  <2> QED
    BY <2>4
<1> HIDE DEF Def
<1>3. Without = {}
  <2> SUFFICES ASSUME Without # {} PROVE FALSE
    OBVIOUS
  <2>1. Without \in SUBSET Nat
    OBVIOUS
  <2>2. PICK m \in Without : \A y \in Without : m <= y
    BY <2>1, LeastOf
  <2>3. m # 0 /\ m \in 0..Len(s)
    BY <1>1
  <2>4. m - 1 \in 0..Len(s) /\ m > 0 /\ m - 1 \notin Without
    BY <2>2, <2>3, LenProperties
  <2> QED
    BY <1>2, <2>3, <2>4
<1>4. \E f : Def(f, Len(s))
  BY <1>3, LenProperties
<1> QED
  BY <1>4 DEF Def

\* Keep(s, S) as the last of the sequences kept from the prefixes of s.
LEMMA KeptSteps ==
  ASSUME NEW P, NEW s \in Seq(P), NEW S
  PROVE  \E f : /\ f[0] = <<>>
                /\ \A i \in 1..Len(s) :
                     f[i] = IF s[i] \in S THEN Append(f[i - 1], s[i]) ELSE f[i - 1]
                /\ Keep(s, S) = f[Len(s)]
<1> DEFINE f == CHOOSE f : f = [i \in 0..Len(s) |->
                       IF i = 0 THEN <<>>
                       ELSE IF s[i] \in S THEN Append(f[i - 1], s[i]) ELSE f[i - 1]]
<1>1. f = [i \in 0..Len(s) |->
                       IF i = 0 THEN <<>>
                       ELSE IF s[i] \in S THEN Append(f[i - 1], s[i]) ELSE f[i - 1]]
  <2>1. \E g : g = [i \in 0..Len(s) |->
                       IF i = 0 THEN <<>>
                       ELSE IF s[i] \in S THEN Append(g[i - 1], s[i]) ELSE g[i - 1]]
    BY KeptExists
  <2> QED
    BY <2>1, Zenon
<1>2. Keep(s, S) = f[Len(s)]
  BY Zenon DEF Keep
<1> HIDE DEF f
<1>3. f[0] = <<>>
  BY <1>1, LenProperties
<1>4. ASSUME NEW i \in 1..Len(s)
      PROVE  f[i] = IF s[i] \in S THEN Append(f[i - 1], s[i]) ELSE f[i - 1]
  <2>1. i \in 0..Len(s) /\ i # 0
    BY <1>4
  <2> QED
    BY <1>1, <2>1
<1> QED
  BY <1>2, <1>3, <1>4

\* Lists, one position at a time.
LEMMA ListsDef ==
  ASSUME NEW s, NEW S
  PROVE  Lists(s, S) <=>
           /\ s \in Seq(Page) /\ Len(s) \in Nat
           /\ \A i \in 1..Len(s) : s[i] \in S
           /\ \A x \in S : \E i \in 1..Len(s) : s[i] = x
           /\ \A i, j \in 1..Len(s) : s[i] = s[j] => i = j
<1>1. s \in Seq(Page) => DOMAIN s = 1..Len(s) /\ Len(s) \in Nat
  BY LenProperties
<1>2. ToSet(s) = S <=> /\ \A i \in DOMAIN s : s[i] \in S
                       /\ \A x \in S : \E i \in DOMAIN s : s[i] = x
  BY Zenon DEF ToSet
<1> QED
  BY <1>1, <1>2, Zenon DEF Lists, IsInjective

\* Keep leaves a list of the pages that are kept.
LEMMA KeepLists ==
  ASSUME NEW s, NEW T, NEW S, Lists(s, T)
  PROVE  Lists(Keep(s, S), T \cap S)
<1>1. /\ s \in Seq(Page) /\ Len(s) \in Nat
      /\ \A i \in 1..Len(s) : s[i] \in T
      /\ \A x \in T : \E i \in 1..Len(s) : s[i] = x
      /\ \A i, j \in 1..Len(s) : s[i] = s[j] => i = j
  BY ListsDef
<1>2. PICK f : /\ f[0] = <<>>
               /\ \A i \in 1..Len(s) :
                    f[i] = IF s[i] \in S THEN Append(f[i - 1], s[i]) ELSE f[i - 1]
               /\ Keep(s, S) = f[Len(s)]
  BY <1>1, KeptSteps
<1> DEFINE Good(i) == /\ f[i] \in Seq(Page)
                      /\ \A j \in 1..Len(f[i]) : \E k \in 1..i : f[i][j] = s[k] /\ s[k] \in S
                      /\ \A k \in 1..i : s[k] \in S => \E j \in 1..Len(f[i]) : f[i][j] = s[k]
                      /\ \A j, k \in 1..Len(f[i]) : f[i][j] = f[i][k] => j = k
           Bad == {i \in 0..Len(s) : ~Good(i)}
<1>3. Good(0)
  BY <1>2, EmptySeq
<1>4. ASSUME NEW i \in 1..Len(s), Good(i - 1)
      PROVE  Good(i)
  <2>1. s[i] \in Page /\ i \in Nat \ {0} /\ i - 1 \in Nat
    BY <1>1, ElementOfSeq
  <2>2. PICK g : g = f[i - 1]
    OBVIOUS
  <2>3. /\ g \in Seq(Page)
        /\ \A j \in 1..Len(g) : \E k \in 1..i - 1 : g[j] = s[k] /\ s[k] \in S
        /\ \A k \in 1..i - 1 : s[k] \in S => \E j \in 1..Len(g) : g[j] = s[k]
        /\ \A j, k \in 1..Len(g) : g[j] = g[k] => j = k
    BY <1>4, <2>2
  <2>4. f[i] = IF s[i] \in S THEN Append(g, s[i]) ELSE g
    BY <1>2, <2>2
  <2> HIDE DEF Good
  <2>5. CASE s[i] \notin S
    <3>1. f[i] = g
      BY <2>4, <2>5
    <3>2. /\ \A j \in 1..Len(g) : \E k \in 1..i : g[j] = s[k] /\ s[k] \in S
          /\ \A k \in 1..i : s[k] \in S => \E j \in 1..Len(g) : g[j] = s[k]
      BY <2>1, <2>3, <2>5
    <3> QED
      BY <2>3, <3>1, <3>2 DEF Good
  <2>6. CASE s[i] \in S
    <3>1. PICK t : t = Append(g, s[i])
      OBVIOUS
    <3>2. t \in Seq(Page) /\ Len(t) = Len(g) + 1 /\ t[Len(g) + 1] = s[i] /\ Len(g) \in Nat
      BY <2>1, <2>3, <3>1, AppendProperties, LenProperties
    <3>3. \A j \in 1..Len(g) : t[j] = g[j]
      BY <2>1, <2>3, <3>1, AppendProperties
    <3>4. \A j \in 1..Len(g) : g[j] # s[i]
      BY <1>1, <2>1, <2>3
    <3>5. \A j \in 1..Len(t) : \E k \in 1..i : t[j] = s[k] /\ s[k] \in S
      BY <2>1, <2>3, <2>6, <3>2, <3>3
    <3>6. \A k \in 1..i : s[k] \in S => \E j \in 1..Len(t) : t[j] = s[k]
      <4> SUFFICES ASSUME NEW k \in 1..i, s[k] \in S
                   PROVE  \E j \in 1..Len(t) : t[j] = s[k]
        OBVIOUS
      <4>1. CASE k = i
        <5>1. Len(g) + 1 \in 1..Len(t)
          BY <3>2
        <5> QED
          BY <3>2, <4>1, <5>1
      <4>2. CASE k # i
        <5>1. k \in 1..i - 1
          BY <2>1, <4>2
        <5>2. PICK j \in 1..Len(g) : g[j] = s[k]
          BY <2>3, <5>1
        <5>3. j \in 1..Len(t)
          BY <3>2
        <5> QED
          BY <3>3, <5>2, <5>3
      <4> QED
        BY <4>1, <4>2
    <3>7. \A j, k \in 1..Len(t) : t[j] = t[k] => j = k
      <4>1. \A j \in 1..Len(t) : j \in 1..Len(g) \/ j = Len(g) + 1
        BY <3>2
      <4> QED
        BY <2>3, <3>2, <3>3, <3>4, <4>1
    <3>8. f[i] = t
      BY <2>4, <2>6, <3>1
    <3> QED
      BY <3>2, <3>5, <3>6, <3>7, <3>8 DEF Good
  <2> QED
    BY <2>5, <2>6
<1> HIDE DEF Good
<1>5. Bad = {}
  <2> SUFFICES ASSUME Bad # {} PROVE FALSE
    OBVIOUS
  <2>1. PICK m \in Bad : \A y \in Bad : m <= y
    <3>1. Bad \in SUBSET Nat
      OBVIOUS
    <3> QED
      BY <3>1, LeastOf
  <2>2. m \in 1..Len(s) /\ m - 1 \in 0..Len(s) /\ m - 1 \notin Bad
    BY <1>1, <1>3, <2>1
  <2> QED
    BY <1>4, <2>1, <2>2
<1>6. Good(Len(s)) /\ f[Len(s)] = Keep(s, S)
  BY <1>1, <1>2, <1>5
<1>7. PICK g : g = Keep(s, S)
  OBVIOUS
<1>8. /\ g \in Seq(Page)
      /\ \A j \in 1..Len(g) : \E k \in 1..Len(s) : g[j] = s[k] /\ s[k] \in S
      /\ \A k \in 1..Len(s) : s[k] \in S => \E j \in 1..Len(g) : g[j] = s[k]
      /\ \A j, k \in 1..Len(g) : g[j] = g[k] => j = k
  BY <1>6, <1>7 DEF Good
<1>9. Len(g) \in Nat
  BY <1>8, LenProperties
<1>10. ASSUME NEW x \in T \cap S PROVE \E j \in 1..Len(g) : g[j] = x
  BY <1>1, <1>8
<1>11. ASSUME NEW j \in 1..Len(g) PROVE g[j] \in T \cap S
  BY <1>1, <1>8
<1> QED
  BY <1>7, <1>8, <1>9, <1>10, <1>11, ListsDef

\* Removing a position by swapping removes its page.
LEMMA SwapRemoveLists ==
  ASSUME NEW s, NEW S, Lists(s, S), NEW i \in 1..Len(s)
  PROVE  s[i] \in S /\ Lists(SwapRemove(s, i), S \ {s[i]})
<1>1. /\ s \in Seq(Page) /\ Len(s) \in Nat
      /\ \A j \in 1..Len(s) : s[j] \in S
      /\ \A x \in S : \E j \in 1..Len(s) : s[j] = x
      /\ \A j, k \in 1..Len(s) : s[j] = s[k] => j = k
  BY ListsDef
<1>2. PICK t : t = [s EXCEPT ![i] = s[Len(s)]]
  OBVIOUS
<1>3. t \in Seq(Page) /\ Len(t) = Len(s)
  BY <1>1, <1>2, ElementOfSeq, ExceptSeq
<1>4. PICK u : u = SwapRemove(s, i)
  OBVIOUS
<1>5. u = SubSeq(t, 1, Len(s) - 1)
  BY <1>2, <1>3, <1>4 DEF SwapRemove, Front, Last
<1>6. u \in Seq(Page) /\ Len(u) = Len(s) - 1
  BY <1>1, <1>3, <1>5, ElementOfSeq, SubSeqProperties
<1>7. \A j \in 1..Len(s) - 1 : u[j] = IF j = i THEN s[Len(s)] ELSE s[j]
  BY <1>1, <1>2, <1>3, <1>5, SubSeqProperties
<1>8. \A j, k \in 1..Len(u) : u[j] = u[k] => j = k
  BY <1>1, <1>6, <1>7
<1>9. \A j \in 1..Len(u) : u[j] \in S \ {s[i]}
  BY <1>1, <1>6, <1>7
<1>10. ASSUME NEW x \in S \ {s[i]} PROVE \E j \in 1..Len(u) : u[j] = x
  <2>1. PICK j \in 1..Len(s) : x = s[j] /\ j # i
    BY <1>1
  <2>2. CASE j = Len(s)
    <3>1. i \in 1..Len(u) /\ u[i] = x
      BY <1>1, <1>6, <1>7, <2>1, <2>2
    <3> QED
      BY <3>1
  <2>3. CASE j # Len(s)
    <3>1. j \in 1..Len(u) /\ u[j] = x
      BY <1>1, <1>6, <1>7, <2>1, <2>3
    <3> QED
      BY <3>1
  <2> QED
    BY <2>2, <2>3
<1>11. s[i] \in S /\ Len(u) \in Nat
  BY <1>1, <1>6
<1> QED
  BY <1>4, <1>6, <1>8, <1>9, <1>10, <1>11, ListsDef

\* Popping the back removes the last page.
LEMMA FrontLists ==
  ASSUME NEW s, NEW S, Lists(s, S), s # <<>>
  PROVE  Last(s) \in S /\ Lists(Front(s), S \ {Last(s)})
<1>1. s \in Seq(Page) /\ Len(s) \in 1..Len(s)
  BY LenProperties, EmptySeq DEF Lists
<1>2. [s EXCEPT ![Len(s)] = Last(s)] = s
  BY <1>1 DEF Last
<1>3. SwapRemove(s, Len(s)) = Front(s)
  BY <1>2 DEF SwapRemove
<1> QED
  BY <1>1, <1>3, SwapRemoveLists DEF Last

\* Two lists of disjoint pages make one of all of them.
LEMMA ConcatLists ==
  ASSUME NEW s, NEW S, NEW t, NEW T, Lists(s, S), Lists(t, T), S \cap T = {}
  PROVE  Lists(s \o t, S \cup T)
<1>1. /\ s \in Seq(Page) /\ Len(s) \in Nat
      /\ \A i \in 1..Len(s) : s[i] \in S
      /\ \A x \in S : \E i \in 1..Len(s) : s[i] = x
      /\ \A i, j \in 1..Len(s) : s[i] = s[j] => i = j
  BY ListsDef
<1>2. /\ t \in Seq(Page) /\ Len(t) \in Nat
      /\ \A i \in 1..Len(t) : t[i] \in T
      /\ \A x \in T : \E i \in 1..Len(t) : t[i] = x
      /\ \A i, j \in 1..Len(t) : t[i] = t[j] => i = j
  BY ListsDef
<1>3. PICK u : u = s \o t
  OBVIOUS
<1>4. u \in Seq(Page) /\ Len(u) = Len(s) + Len(t) /\ Len(u) \in Nat
  BY <1>1, <1>2, <1>3, ConcatProperties, LenProperties
<1>5. /\ \A i \in 1..Len(s) : i \in 1..Len(u) /\ u[i] = s[i]
      /\ \A i \in 1..Len(t) : Len(s) + i \in 1..Len(u) /\ u[Len(s) + i] = t[i]
  BY <1>1, <1>2, <1>3, <1>4, ConcatProperties
<1>6. \A i \in 1..Len(u) : \/ i \in 1..Len(s) /\ u[i] = s[i]
                           \/ \E k \in 1..Len(t) : i = Len(s) + k /\ u[i] = t[k]
  <2> SUFFICES ASSUME NEW i \in 1..Len(u), i \notin 1..Len(s)
               PROVE  \E k \in 1..Len(t) : i = Len(s) + k /\ u[i] = t[k]
    BY <1>5
  <2>1. i - Len(s) \in 1..Len(t) /\ i = Len(s) + (i - Len(s))
    BY <1>1, <1>2, <1>4
  <2> QED
    BY <1>5, <2>1
<1>7. \A i, j \in 1..Len(u) : u[i] = u[j] => i = j
  <2> SUFFICES ASSUME NEW i \in 1..Len(u), NEW j \in 1..Len(u), u[i] = u[j]
               PROVE  i = j
    OBVIOUS
  <2>1. \A x \in S : x \notin T
    OBVIOUS
  <2>2. CASE i \in 1..Len(s) /\ u[i] = s[i]
    <3>1. j \in 1..Len(s) /\ u[j] = s[j]
      BY <1>1, <1>2, <1>6, <2>1, <2>2
    <3> QED
      BY <1>1, <2>2, <3>1
  <2>3. ASSUME NEW k \in 1..Len(t), i = Len(s) + k, u[i] = t[k]
        PROVE  i = j
    <3>1. PICK m \in 1..Len(t) : j = Len(s) + m /\ u[j] = t[m]
      BY <1>1, <1>2, <1>6, <2>1, <2>3
    <3>2. k = m
      BY <1>2, <2>3, <3>1
    <3> QED
      BY <2>3, <3>1, <3>2
  <2> QED
    BY <1>6, <2>2, <2>3
<1>8. \A i \in 1..Len(u) : u[i] \in S \cup T
  BY <1>1, <1>2, <1>6
<1>9. \A x \in S \cup T : \E i \in 1..Len(u) : u[i] = x
  <2>1. ASSUME NEW x \in S PROVE \E i \in 1..Len(u) : u[i] = x
    BY <1>1, <1>5
  <2>2. ASSUME NEW x \in T PROVE \E i \in 1..Len(u) : u[i] = x
    <3>1. PICK i \in 1..Len(t) : t[i] = x
      BY <1>2
    <3>2. Len(s) + i \in 1..Len(u) /\ u[Len(s) + i] = x
      BY <1>5, <3>1
    <3> QED
      BY <3>2
  <2> QED
    BY <2>1, <2>2
<1> QED
  BY <1>3, <1>4, <1>7, <1>8, <1>9, ListsDef

\* SetMaxPages pushes finitely many pages.
LEMMA PagesFinite == IsFiniteSet(Page)
<1>1. PageOrder \in Seq(Page) /\ Len(PageOrder) \in Nat /\ DOMAIN PageOrder = 1..Len(PageOrder)
  BY BlocksIdentified, LenProperties DEF BlockAssumption
<1>2. PageOrder \in Surjection(1..Len(PageOrder), Page)
  BY <1>1, LenProperties DEF Surjection, Page, ToSet
<1> QED
  BY <1>1, <1>2, FS_Interval, FS_Surjection

\* An order of some pages lists them.
LEMMA OrderLists ==
  ASSUME NEW S \in SUBSET Page, NEW s \in SetToSeqs(S)
  PROVE  Lists(s, S)
<1>1. IsFiniteSet(S)
  BY PagesFinite, FS_Subset
<1>2. Cardinality(S) \in Nat
  BY <1>1, FS_CardinalityType
<1>3. s \in [1..Cardinality(S) -> S] /\ IsInjective(s)
  BY DEF SetToSeqs, IsInjective
<1>4. s \in Injection(1..Cardinality(S), S)
  BY <1>3 DEF Injection
<1>5. Cardinality(1..Cardinality(S)) = Cardinality(S)
  BY <1>2, FS_Interval
<1>6. s \in Surjection(1..Cardinality(S), S)
  BY <1>1, <1>4, <1>5, FS_Injection
<1>7. s \in Seq(Page)
  BY <1>2, <1>3, SeqDef
<1>8. ToSet(s) = S
  BY <1>3, <1>6 DEF Surjection, ToSet
<1> QED
  BY <1>3, <1>7, <1>8 DEF Lists

\* So does the sequence chosen for a set of pages.
LEMMA SetToSeqLists ==
  ASSUME NEW S \in SUBSET Page
  PROVE  Lists(SetToSeq(S), S)
<1>1. IsFiniteSet(S)
  BY PagesFinite, FS_Subset
<1>2. ExistsBijection(1..Cardinality(S), S)
  BY <1>1, FS_CardinalityType
<1>3. PICK b \in [1..Cardinality(S) -> S] : IsInjective(b)
  BY <1>2 DEF ExistsBijection, Bijection, Injection
<1>4. SetToSeq(S) \in [1..Cardinality(S) -> S] /\ IsInjective(SetToSeq(S))
  BY <1>3, Zenon DEF SetToSeq
<1>5. SetToSeq(S) \in SetToSeqs(S)
  BY <1>4 DEF SetToSeqs, IsInjective
<1> QED
  BY <1>5, OrderLists
-----------------------------------------------------------------------------
\* The beginnings of a sequence.
LEMMA UptoFacts ==
  ASSUME NEW B, NEW s \in Seq(B), NEW k \in 0..Len(s)
  PROVE  /\ Upto(s, k) \in Seq(B) /\ Len(Upto(s, k)) = k /\ k \in Nat
         /\ \A i \in 1..k : Upto(s, k)[i] = s[i]
         /\ \A i \in 0..k : Upto(Upto(s, k), i) = Upto(s, i)
<1>1. Len(s) \in Nat /\ k \in Nat
  BY LenProperties
<1>2. \A j \in 0..Len(s) : \A i \in 1..j : s[i] \in B
  BY <1>1, ElementOfSeq
<1>3. \A j \in 0..Len(s) : /\ Upto(s, j) \in Seq(B) /\ Len(Upto(s, j)) = j
                           /\ \A i \in 1..j : Upto(s, j)[i] = s[i]
  <2> SUFFICES ASSUME NEW j \in 0..Len(s)
               PROVE  /\ Upto(s, j) \in Seq(B) /\ Len(Upto(s, j)) = j
                      /\ \A i \in 1..j : Upto(s, j)[i] = s[i]
    OBVIOUS
  <2> QED
    BY <1>1, <1>2, SubSeqProperties DEF Upto
<1>4. ASSUME NEW i \in 0..k PROVE Upto(Upto(s, k), i) = Upto(s, i)
  <2>1. PICK t : t = Upto(s, k)
    OBVIOUS
  <2>2. t \in Seq(B) /\ Len(t) = k /\ \A j \in 1..k : t[j] = s[j]
    BY <1>3, <2>1
  <2>3. \A j \in 1..i : t[j] \in B
    BY <1>1, <1>2, <2>2
  <2>4. Upto(t, i) \in Seq(B) /\ Len(Upto(t, i)) = i /\ \A j \in 1..i : Upto(t, i)[j] = s[j]
    BY <1>1, <2>2, <2>3, SubSeqProperties DEF Upto
  <2>5. Upto(s, i) \in Seq(B) /\ Len(Upto(s, i)) = i /\ \A j \in 1..i : Upto(s, i)[j] = s[j]
    BY <1>1, <1>3
  <2>6. Upto(t, i) = Upto(s, i)
    BY <2>4, <2>5, SeqEqual
  <2> QED
    BY <2>1, <2>6
<1> QED
  BY <1>1, <1>3, <1>4

\* A sequence begins with all of itself.
LEMMA UptoAll ==
  ASSUME NEW B, NEW s \in Seq(B)
  PROVE  Upto(s, Len(s)) = s
  BY SubSeqFull DEF Upto

\* What BlockAssumption says of a prompt and of its beginnings.
LEMMA PromptFacts ==
  ASSUME NEW p \in Prompt
  PROVE  /\ p \in Seq(Block) /\ Len(p) \in Nat \ {0} /\ DOMAIN p = 1..Len(p)
         /\ \A i \in 1..Len(p) : p[i] \in Block
         /\ Upto(p, Len(p)) = p
         /\ \A k \in 1..Len(p) : /\ Upto(p, k) \in Prompt /\ Len(Upto(p, k)) = k
                                 /\ Upto(p, k)[k] = p[k]
                                 /\ \A i \in 1..k : Upto(Upto(p, k), i) = Upto(p, i)
<1>1. p \in Seq(Block) /\ p # <<>> /\ \A i \in DOMAIN p : SubSeq(p, 1, i) \in Prompt
  BY BlocksIdentified DEF BlockAssumption
<1>2. Len(p) \in Nat \ {0} /\ DOMAIN p = 1..Len(p)
  BY <1>1, LenProperties, EmptySeq
<1>3. \A i \in 1..Len(p) : p[i] \in Block
  BY <1>1, ElementOfSeq
<1>4. ASSUME NEW k \in 1..Len(p)
      PROVE  /\ Upto(p, k) \in Prompt /\ Len(Upto(p, k)) = k /\ Upto(p, k)[k] = p[k]
             /\ \A i \in 1..k : Upto(Upto(p, k), i) = Upto(p, i)
  <2>1. k \in 0..Len(p) /\ k \in 1..k /\ \A i \in 1..k : i \in 0..k
    BY <1>2
  <2>2. /\ Len(Upto(p, k)) = k
        /\ \A i \in 1..k : Upto(p, k)[i] = p[i]
        /\ \A i \in 0..k : Upto(Upto(p, k), i) = Upto(p, i)
    BY <1>1, <2>1, UptoFacts
  <2>3. Upto(p, k) \in Prompt
    BY <1>1, <1>2 DEF Upto
  <2> QED
    BY <2>1, <2>2, <2>3
<1> QED
  BY <1>1, <1>2, <1>3, <1>4, UptoAll

\* When one sequence begins another.
LEMMA PrefixDef ==
  ASSUME NEW B, NEW s \in Seq(B), NEW t \in Seq(B)
  PROVE  /\ IsPrefix(s, t) <=> Len(s) <= Len(t) /\ s = Upto(t, Len(s))
         /\ IsStrictPrefix(s, t) <=> Len(s) < Len(t) /\ s = Upto(t, Len(s))
<1>1. Len(s) \in Nat /\ Len(t) \in Nat
  BY LenProperties
<1>2. Upto(s, Len(s)) = s /\ Upto(t, Len(t)) = t
  BY UptoAll
<1>3. IsPrefix(s, t) <=> Len(s) <= Len(t) /\ s = Upto(t, Len(s))
  BY <1>2, Zenon DEF IsPrefix, Upto
<1>4. s = Upto(t, Len(s)) /\ Len(s) = Len(t) => s = t
  BY <1>2
<1> QED
  BY <1>1, <1>3, <1>4 DEF IsStrictPrefix

\* One prompt extends another when it begins with it.
LEMMA LongerDef ==
  ASSUME NEW p \in Prompt, NEW r \in Prompt
  PROVE  <<p, r>> \in Longer <=> Len(p) < Len(r) /\ p = Upto(r, Len(p))
<1>1. <<p, r>> \in Longer <=> IsStrictPrefix(p, r)
  BY DEF Longer
<1> QED
  BY <1>1, PromptFacts, PrefixDef

\* The path of a prompt is as long, and its beginnings are the paths of the
\* prompt's beginnings.
LEMMA PathFacts ==
  ASSUME NEW p \in Prompt
  PROVE  /\ HashPath(p) \in Seq(Hash) /\ Len(HashPath(p)) = Len(p)
         /\ \A i \in 1..Len(p) : HashPath(p)[i] = EdgeHash[p[i]]
         /\ HashPath(p) # Root
         /\ \A k \in 1..Len(p) : HashPath(Upto(p, k)) = Upto(HashPath(p), k)
<1>1. /\ p \in Seq(Block) /\ Len(p) \in Nat \ {0} /\ DOMAIN p = 1..Len(p)
      /\ \A i \in 1..Len(p) : p[i] \in Block
  BY PromptFacts
<1>2. HashPath(p) = [i \in 1..Len(p) |-> EdgeHash[p[i]]]
  BY <1>1 DEF HashPath
<1>3. HashPath(p) \in [1..Len(p) -> Hash]
  BY <1>1, <1>2 DEF Hash
<1>4. HashPath(p) \in Seq(Hash)
  BY <1>1, <1>3, SeqDef
<1>5. Len(HashPath(p)) = Len(p)
  BY <1>1, <1>3, <1>4, LenProperties
<1>6. HashPath(p) # Root
  BY <1>1, <1>5, EmptySeq DEF Root
<1>7. ASSUME NEW k \in 1..Len(p) PROVE HashPath(Upto(p, k)) = Upto(HashPath(p), k)
  <2>1. PICK u : u = Upto(p, k)
    OBVIOUS
  <2>2. k \in 0..Len(p) /\ k \in 0..Len(HashPath(p)) /\ k \in Nat
    BY <1>1, <1>5
  <2>3. u \in Seq(Block) /\ Len(u) = k /\ \A i \in 1..k : u[i] = p[i]
    BY <1>1, <2>1, <2>2, UptoFacts
  <2>4. DOMAIN u = 1..k
    BY <2>3, LenProperties
  <2>5. HashPath(u) = [i \in 1..k |-> EdgeHash[p[i]]]
    BY <2>3, <2>4 DEF HashPath
  <2>6. \A i \in 1..k : i \in 1..Len(p) /\ EdgeHash[p[i]] \in Hash
    BY <1>1 DEF Hash
  <2>7. HashPath(u) \in [1..k -> Hash]
    BY <2>5, <2>6
  <2>8. HashPath(u) \in Seq(Hash)
    BY <2>2, <2>7, SeqDef
  <2>9. Len(HashPath(u)) = k
    BY <2>2, <2>7, <2>8, LenProperties
  <2>10. /\ Upto(HashPath(p), k) \in Seq(Hash) /\ Len(Upto(HashPath(p), k)) = k
         /\ \A i \in 1..k : Upto(HashPath(p), k)[i] = HashPath(p)[i]
    BY <1>4, <2>2, UptoFacts
  <2>11. \A i \in 1..k : HashPath(u)[i] = Upto(HashPath(p), k)[i]
    BY <1>2, <2>5, <2>6, <2>10
  <2>12. HashPath(u) = Upto(HashPath(p), k)
    BY <2>8, <2>9, <2>10, <2>11, SeqEqual
  <2> QED
    BY <2>1, <2>12
<1> QED
  BY <1>2, <1>4, <1>5, <1>6, <1>7

\* One path extends another when the prompts' hashes do.
LEMMA PathStrict ==
  ASSUME NEW p \in Prompt, NEW r \in Prompt
  PROVE  IsStrictPrefix(HashPath(p), HashPath(r)) <=>
           Len(p) < Len(r) /\ HashPath(p) = HashPath(Upto(r, Len(p)))
<1>1. /\ HashPath(p) \in Seq(Hash) /\ Len(HashPath(p)) = Len(p)
      /\ HashPath(r) \in Seq(Hash) /\ Len(HashPath(r)) = Len(r)
  BY PathFacts
<1>2. Len(p) \in Nat \ {0} /\ Len(r) \in Nat
  BY PromptFacts
<1>3. Len(p) < Len(r) => HashPath(Upto(r, Len(p))) = Upto(HashPath(r), Len(p))
  BY <1>2, PathFacts
<1>4. IsStrictPrefix(HashPath(p), HashPath(r)) <=>
        Len(p) < Len(r) /\ HashPath(p) = Upto(HashPath(r), Len(p))
  BY <1>1, PrefixDef
<1> QED
  BY <1>3, <1>4

\* Prompts ordered by extension are what PagePool assumes of its prefixes.
LEMMA PoolAssumed == PoolFacts!PagePoolAssumption
<1>1. NoPage \notin Page /\ Root \notin Prompt /\ IsFiniteSet(Holder)
  BY BlocksIdentified DEF BlockAssumption, Root
<1>2. Longer \subseteq Prompt \X Prompt
  BY DEF Longer
<1>3. \A p \in Prompt : <<p, p>> \notin Longer
  BY LongerDef, PromptFacts
<1>4. ASSUME NEW p \in Prompt, NEW q \in Prompt, NEW r \in Prompt,
             <<p, q>> \in Longer, <<q, r>> \in Longer
      PROVE  <<p, r>> \in Longer
  <2>1. Len(p) < Len(q) /\ p = Upto(q, Len(p)) /\ Len(q) < Len(r) /\ q = Upto(r, Len(q))
    BY <1>4, LongerDef
  <2>2. Len(p) \in Nat \ {0} /\ Len(q) \in Nat \ {0} /\ Len(r) \in Nat \ {0}
    BY PromptFacts
  <2>3. Upto(Upto(r, Len(q)), Len(p)) = Upto(r, Len(p))
    BY <2>1, <2>2, PromptFacts
  <2> QED
    BY <2>1, <2>2, <2>3, LongerDef
<1>5. PoolFacts!IsFiniteSet(Holder)
  BY <1>1, Zenon DEF IsFiniteSet, PoolFacts!IsFiniteSet
<1> QED
  BY <1>1, <1>2, <1>3, <1>4, <1>5, Zenon DEF PoolFacts!PagePoolAssumption
-----------------------------------------------------------------------------
\* SpelledIn is Spells for the nodes of the trie.
LEMMA SpellsIs ==
  ASSUME NEW p \in Prompt
  PROVE  /\ Spells(p) <=> SpelledIn(trieNodes, p)
         /\ Spells(p)' <=> SpelledIn(trieNodes', p)
<1>1. DOMAIN p = 1..Len(p)
  BY PromptFacts
<1> QED
  BY <1>1, Zenon DEF Spells, SpelledIn, Upto

\* TrieOf is poolTrie for the nodes of the trie.
LEMMA PoolTrieIs == poolTrie = TrieOf(trieNodes) /\ poolTrie' = TrieOf(trieNodes')
  BY SpellsIs DEF poolTrie, TrieOf

\* The beginnings of a prompt that is spelled are spelled.
LEMMA SpelledUpto ==
  ASSUME NEW N, NEW p \in Prompt, SpelledIn(N, p), NEW k \in 1..Len(p)
  PROVE  SpelledIn(N, Upto(p, k)) /\ HashPath(Upto(p, k)) \in DOMAIN N
<1>1. /\ Upto(p, k) \in Prompt /\ Len(Upto(p, k)) = k
      /\ \A i \in 1..k : i \in 1..Len(p) /\ Upto(Upto(p, k), i) = Upto(p, i)
      /\ \A i \in 1..k : Upto(p, k)[i] = p[i]
  <2>1. p \in Seq(Block) /\ Len(p) \in Nat /\ k \in 0..Len(p)
    BY PromptFacts
  <2> QED
    BY <2>1, PromptFacts, UptoFacts
<1> QED
  BY <1>1, Zenon DEF SpelledIn

\* Hashes and media keys together tell prompts apart.
LEMMA SpelledUnique ==
  ASSUME NEW N, NEW p \in Prompt, NEW r \in Prompt,
         SpelledIn(N, p), SpelledIn(N, r), HashPath(p) = HashPath(r)
  PROVE  p = r
<1>1. /\ p \in Seq(Block) /\ r \in Seq(Block)
      /\ \A i \in 1..Len(p) : p[i] \in Block
      /\ \A i \in 1..Len(r) : r[i] \in Block
  BY PromptFacts
<1>2. Len(p) = Len(r)
  BY PathFacts
<1>3. ASSUME NEW i \in 1..Len(p) PROVE p[i] = r[i]
  <2>1. EdgeHash[p[i]] = EdgeHash[r[i]]
    BY <1>2, PathFacts
  <2>2. HashPath(Upto(p, i)) = HashPath(Upto(r, i))
    BY <1>2, PathFacts
  <2>3. ExtraKey[p[i]] = ExtraKey[r[i]]
    BY <1>2, <2>2, Zenon DEF SpelledIn
  <2> QED
    BY <1>1, <1>2, <2>1, <2>3, BlocksIdentified DEF BlockAssumption
<1> QED
  BY <1>1, <1>2, <1>3, SeqEqual

\* What NodeOf says of a page.
LEMMA NodeOfMeans ==
  ASSUME NEW N, WellSpelled(N), NEW m \in [Page -> DOMAIN N \cup {Root}]
  PROVE  /\ NodeOf(N, m) \in [Page -> Prompt \cup {Root}]
         /\ \A q \in Page, p \in Prompt :
              NodeOf(N, m)[q] = p <=> m[q] = HashPath(p) /\ SpelledIn(N, p)
         /\ \A q \in Page : NodeOf(N, m)[q] = Root <=> m[q] = Root
<1>1. ASSUME NEW q \in Page, m[q] = Root
      PROVE  /\ NodeOf(N, m)[q] = Root
             /\ \A p \in Prompt : NodeOf(N, m)[q] # p /\ m[q] # HashPath(p)
  <2>1. NodeOf(N, m)[q] = Root
    BY <1>1 DEF NodeOf
  <2>2. \A p \in Prompt : p # Root /\ HashPath(p) # Root
    BY PathFacts, PoolAssumed DEF PoolFacts!PagePoolAssumption
  <2> QED
    BY <1>1, <2>1, <2>2
<1>2. ASSUME NEW q \in Page, m[q] # Root
      PROVE  /\ NodeOf(N, m)[q] \in Prompt /\ NodeOf(N, m)[q] # Root
             /\ \A p \in Prompt :
                  NodeOf(N, m)[q] = p <=> m[q] = HashPath(p) /\ SpelledIn(N, p)
  <2>1. \E p \in Prompt : HashPath(p) = m[q] /\ SpelledIn(N, p)
    BY <1>2 DEF WellSpelled
  <2>2. PICK r : r = CHOOSE p \in Prompt : HashPath(p) = m[q] /\ SpelledIn(N, p)
    OBVIOUS
  <2>3. r \in Prompt /\ HashPath(r) = m[q] /\ SpelledIn(N, r)
    BY <2>1, <2>2, Zenon
  <2>4. NodeOf(N, m)[q] = r
    BY <1>2, <2>2 DEF NodeOf
  <2>5. \A p \in Prompt : m[q] = HashPath(p) /\ SpelledIn(N, p) => p = r
    BY <2>3, SpelledUnique
  <2>6. r # Root
    BY <2>3, PoolAssumed DEF PoolFacts!PagePoolAssumption
  <2> QED
    BY <2>3, <2>4, <2>5, <2>6
<1>3. NodeOf(N, m) = [q \in Page |-> NodeOf(N, m)[q]]
  BY DEF NodeOf
<1>4. \A q \in Page : NodeOf(N, m)[q] \in Prompt \cup {Root}
  BY <1>1, <1>2
<1> HIDE DEF NodeOf
<1>5. NodeOf(N, m) \in [Page -> Prompt \cup {Root}]
  BY <1>3, <1>4, Zenon
<1> QED
  BY <1>1, <1>2, <1>5

\* A function that says the same of every page is NodeOf.
LEMMA NodeOfIs ==
  ASSUME NEW N, WellSpelled(N), NEW m \in [Page -> DOMAIN N \cup {Root}],
         NEW F \in [Page -> Prompt \cup {Root}],
         \A q \in Page, p \in Prompt : F[q] = p <=> m[q] = HashPath(p) /\ SpelledIn(N, p)
  PROVE  NodeOf(N, m) = F
<1>1. /\ NodeOf(N, m) \in [Page -> Prompt \cup {Root}]
      /\ \A q \in Page, p \in Prompt : NodeOf(N, m)[q] = p <=> F[q] = p
  BY NodeOfMeans
<1>2. \A q \in Page : NodeOf(N, m)[q] = F[q]
  BY <1>1
<1> QED
  BY <1>1, <1>2

\* NodeOf is poolNodeOf for the nodes and the back pointers of the manager.
LEMMA PoolNodeOfIs ==
  WellSpelled(trieNodes) /\ pageToTrieNode \in [Page -> DOMAIN trieNodes \cup {Root}]
    => poolNodeOf = NodeOf(trieNodes, pageToTrieNode)
<1> SUFFICES ASSUME WellSpelled(trieNodes),
                    pageToTrieNode \in [Page -> DOMAIN trieNodes \cup {Root}]
             PROVE  poolNodeOf = NodeOf(trieNodes, pageToTrieNode)
  OBVIOUS
<1>1. ASSUME NEW q \in Page, pageToTrieNode[q] = Root
      PROVE  poolNodeOf[q] = NodeOf(trieNodes, pageToTrieNode)[q]
  BY <1>1, Zenon DEF poolNodeOf, NodeOf
<1>2. ASSUME NEW q \in Page, pageToTrieNode[q] # Root
      PROVE  poolNodeOf[q] = NodeOf(trieNodes, pageToTrieNode)[q]
  <2>1. PICK r : r = CHOOSE p \in Prompt : HashPath(p) = pageToTrieNode[q] /\ Spells(p)
    OBVIOUS
  <2>2. \E p \in Prompt : HashPath(p) = pageToTrieNode[q] /\ Spells(p)
    BY <1>2, SpellsIs DEF WellSpelled
  <2>3. r \in Prompt /\ HashPath(r) = pageToTrieNode[q] /\ Spells(r)
    BY <2>1, <2>2, Zenon
  <2>4. NodeOf(trieNodes, pageToTrieNode)[q] = r
    BY <2>3, SpellsIs, NodeOfMeans
  <2>5. poolNodeOf[q] = r
    BY <1>2, <2>1 DEF poolNodeOf
  <2> QED
    BY <2>4, <2>5
<1> QED
  BY <1>1, <1>2 DEF poolNodeOf, NodeOf

\* The same in the next state.
LEMMA PoolNodeOfIsPrime ==
  (WellSpelled(trieNodes) /\ pageToTrieNode \in [Page -> DOMAIN trieNodes \cup {Root}]
    => poolNodeOf = NodeOf(trieNodes, pageToTrieNode))'
  BY PoolNodeOfIs, PTL

\* What TrieOf says of a prompt.
LEMMA TrieOfMeans ==
  ASSUME NEW N, WellSpelled(N)
  PROVE  /\ TrieOf(N) \in [Prompt -> Page \cup {NoPage}]
         /\ \A p \in Prompt : /\ TrieOf(N)[p] # NoPage <=> SpelledIn(N, p)
                              /\ SpelledIn(N, p) => /\ HashPath(p) \in DOMAIN N
                                                    /\ TrieOf(N)[p] = N[HashPath(p)].pageId
<1>1. ASSUME NEW p \in Prompt, SpelledIn(N, p)
      PROVE  HashPath(p) \in DOMAIN N /\ N[HashPath(p)].pageId \in Page
  <2>1. Len(p) \in 1..Len(p) /\ Upto(p, Len(p)) = p
    BY PromptFacts
  <2> QED
    BY <1>1, <2>1, SpelledUpto DEF WellSpelled
<1> QED
  BY <1>1, PoolAssumed DEF TrieOf, PoolFacts!PagePoolAssumption
-----------------------------------------------------------------------------
\* The pool's TrieInverse, for the back pointers and the nodes themselves.
LEMMA BackLinks ==
  ASSUME Nodes, PoolFacts!IInv
  PROVE  Inverses(trieNodes, pageToTrieNode)
<1> SUFFICES ASSUME NEW q \in Page, NEW n \in DOMAIN trieNodes
             PROVE  pageToTrieNode[q] = n <=> trieNodes[n].pageId = q
  BY DEF Inverses
<1>1. PICK p \in Prompt : HashPath(p) = n /\ SpelledIn(trieNodes, p)
  BY DEF Nodes, WellSpelled
<1>2. poolTrie[p] = trieNodes[n].pageId
  BY <1>1, PoolTrieIs, TrieOfMeans DEF Nodes
<1>3. poolNodeOf[q] = p <=> pageToTrieNode[q] = n
  BY <1>1, PoolNodeOfIs, NodeOfMeans DEF Nodes
<1>4. poolNodeOf[q] = p <=> poolTrie[p] = q
  BY DEF PoolFacts!IInv, PoolFacts!TrieInverse
<1> QED
  BY <1>2, <1>3, <1>4

\* What Chains says of one holder.
ChainOf(h) ==
  /\ tokens[h] \in Seq(Block) /\ Len(tokens[h]) \in Nat
  /\ pageIndex[h] \in Seq(Page) /\ Len(pageIndex[h]) \in Nat
  /\ Len(tokens[h]) <= Len(pageIndex[h])
  /\ LastPageFull(h) <=> Len(pageIndex[h]) = Len(tokens[h])
  /\ ~LastPageFull(h) => Len(pageIndex[h]) = Len(tokens[h]) + 1
  /\ \A k \in 1..Len(pageIndex[h]) : pageIndex[h][k] \in Page
  /\ \A k \in 1..Len(tokens[h]) : Upto(tokens[h], k) \in Prompt /\ Len(Upto(tokens[h], k)) = k

\* The chain of a holder is well formed.
LEMMA ChainFacts == Chains => \A h \in Holder : ChainOf(h)
<1> SUFFICES ASSUME Chains, NEW h \in Holder PROVE ChainOf(h)
  OBVIOUS
<1>1. tokens[h] \in Prompt \/ tokens[h] = <<>>
  BY DEF Chains, Root
<1>2. tokens[h] \in Seq(Block) /\ Len(tokens[h]) \in Nat
  BY <1>1, PromptFacts, EmptySeq
<1>3. pageIndex[h] \in Seq(Page) /\ Len(pageIndex[h]) \in Nat
  BY LenProperties DEF Chains
<1>4. \A k \in 1..Len(pageIndex[h]) : pageIndex[h][k] \in Page
  BY <1>3, ElementOfSeq
<1>5. \A k \in 1..Len(tokens[h]) : Upto(tokens[h], k) \in Prompt /\ Len(Upto(tokens[h], k)) = k
  BY <1>1, PromptFacts, EmptySeq
<1>6. Len(pageIndex[h]) \in {Len(tokens[h]), Len(tokens[h]) + 1}
  BY DEF Chains
<1> QED
  BY <1>2, <1>3, <1>4, <1>5, <1>6 DEF ChainOf, LastPageFull

\* The page table of one holder, as the pool has it.
TableOf(h) ==
  /\ \A p \in Prompt :
       poolTable[h][p] = IF Len(p) <= Len(tokens[h]) /\ p = Upto(tokens[h], Len(p))
                         THEN pageIndex[h][Len(p)] ELSE NoPage
  /\ \A k \in 1..Len(tokens[h]) : poolTable[h][Upto(tokens[h], k)] = pageIndex[h][k]
  /\ poolTail[h] = IF Len(pageIndex[h]) = Len(tokens[h]) THEN NoPage
                   ELSE pageIndex[h][Len(pageIndex[h])]

\* The table of a holder is its chain, position by position.
LEMMA TableIs == Chains => \A h \in Holder : TableOf(h)
<1> SUFFICES ASSUME Chains, NEW h \in Holder PROVE TableOf(h)
  OBVIOUS
<1>1. tokens[h] \in Seq(Block) /\ Len(tokens[h]) \in Nat
  BY ChainFacts DEF ChainOf
<1>2. ASSUME NEW p \in Prompt
      PROVE  poolTable[h][p] = IF Len(p) <= Len(tokens[h]) /\ p = Upto(tokens[h], Len(p))
                               THEN pageIndex[h][Len(p)] ELSE NoPage
  <2>1. IsPrefix(p, tokens[h]) <=> Len(p) <= Len(tokens[h]) /\ p = Upto(tokens[h], Len(p))
    BY <1>1, PromptFacts, PrefixDef
  <2> QED
    BY <2>1 DEF poolTable
<1>3. ASSUME NEW k \in 1..Len(tokens[h])
      PROVE  poolTable[h][Upto(tokens[h], k)] = pageIndex[h][k]
  <2>1. Upto(tokens[h], k) \in Prompt /\ Len(Upto(tokens[h], k)) = k
    BY ChainFacts DEF ChainOf
  <2>2. k <= Len(tokens[h])
    BY <1>1
  <2> QED
    BY <1>2, <2>1, <2>2
<1>4. poolTail[h] = IF Len(pageIndex[h]) = Len(tokens[h]) THEN NoPage
                    ELSE pageIndex[h][Len(pageIndex[h])]
  BY DEF poolTail, LastPageFull, Last
<1> QED
  BY <1>2, <1>3, <1>4 DEF TableOf

\* A page table for each holder.
IsTables(t) == t = [g \in Holder |-> [r \in Prompt |-> t[g][r]]]

\* t2 is t but for entry p of holder h, which is x.
EntryBecomes(t, t2, h, p, x) ==
  /\ IsTables(t) /\ IsTables(t2)
  /\ \A r \in Prompt : t2[h][r] = IF r = p THEN x ELSE t[h][r]
  /\ \A g \in Holder : g # h => \A r \in Prompt : t2[g][r] = t[g][r]

\* One entry of a table of tables.
LEMMA EntryUpdate ==
  ASSUME NEW t, NEW t2, NEW h \in Holder, NEW p \in Prompt, NEW x,
         EntryBecomes(t, t2, h, p, x)
  PROVE  t2 = [t EXCEPT ![h][p] = x]
<1> USE DEF EntryBecomes
<1>1. /\ DOMAIN t = Holder /\ DOMAIN t2 = Holder
      /\ t = [g \in Holder |-> t[g]] /\ t2 = [g \in Holder |-> t2[g]]
      /\ \A g \in Holder : t[g] = [r \in Prompt |-> t[g][r]] /\ t2[g] = [r \in Prompt |-> t2[g][r]]
  BY Zenon DEF IsTables
<1>2. ASSUME NEW g \in Holder, g # h PROVE t2[g] = t[g]
  BY <1>1, <1>2, Zenon
<1>3. PICK u, u2 : u = t[h] /\ u2 = t2[h]
  OBVIOUS
<1>4. u = [r \in Prompt |-> u[r]] /\ u2 = [r \in Prompt |-> IF r = p THEN x ELSE u[r]]
  BY <1>1, <1>3, Zenon
<1>5. u2 = [u EXCEPT ![p] = x]
  BY <1>4
<1>6. t2 = [t EXCEPT ![h] = u2]
  BY <1>1, <1>2, <1>3
<1> QED
  BY <1>3, <1>5, <1>6, Zenon

\* The same in the next state.
LEMMA TableIsPrime == (Chains => \A h \in Holder : TableOf(h))'
  BY TableIs, PTL

\* Tables and tails are functions.
LEMMA TableShape ==
  /\ IsTables(poolTable)
  /\ poolTail = [h \in Holder |-> poolTail[h]]
  BY DEF IsTables, poolTable, poolTail

\* The same in the next state.
LEMMA TableShapePrime ==
  (/\ IsTables(poolTable)
   /\ poolTail = [h \in Holder |-> poolTail[h]])'
  BY TableShape, PTL

\* A holder holds the pages of its chain.
LEMMA HeldIs ==
  ASSUME Chains, NEW h \in Holder
  PROVE  PoolFacts!Held(h) = {pageIndex[h][k] : k \in 1..Len(pageIndex[h])}
<1>1. /\ Len(tokens[h]) \in Nat /\ Len(pageIndex[h]) \in Nat /\ Len(tokens[h]) <= Len(pageIndex[h])
      /\ Len(pageIndex[h]) # Len(tokens[h]) => Len(pageIndex[h]) = Len(tokens[h]) + 1
      /\ \A k \in 1..Len(pageIndex[h]) : pageIndex[h][k] \in Page
      /\ \A k \in 1..Len(tokens[h]) : Upto(tokens[h], k) \in Prompt /\ Len(Upto(tokens[h], k)) = k
  BY ChainFacts DEF ChainOf
<1>2. NoPage \notin Page
  BY PoolAssumed DEF PoolFacts!PagePoolAssumption
<1>3. ASSUME NEW q \in PoolFacts!Held(h)
      PROVE  \E k \in 1..Len(pageIndex[h]) : pageIndex[h][k] = q
  <2>1. CASE q = poolTail[h]
    <3>1. q # NoPage
      BY DEF PoolFacts!Held
    <3>2. Len(pageIndex[h]) \in 1..Len(pageIndex[h]) /\ q = pageIndex[h][Len(pageIndex[h])]
      BY <1>1, <2>1, <3>1, TableIs DEF TableOf
    <3> QED
      BY <3>2
  <2>2. CASE q # poolTail[h]
    <3>1. PICK p \in Prompt : q = poolTable[h][p] /\ q # NoPage
      BY <2>2 DEF PoolFacts!Held
    <3>2. Len(p) <= Len(tokens[h]) /\ q = pageIndex[h][Len(p)]
      BY <3>1, TableIs DEF TableOf
    <3>3. Len(p) \in 1..Len(pageIndex[h])
      BY <1>1, <3>2, PromptFacts
    <3> QED
      BY <3>2, <3>3
  <2> QED
    BY <2>1, <2>2
<1>4. ASSUME NEW k \in 1..Len(pageIndex[h])
      PROVE  pageIndex[h][k] \in PoolFacts!Held(h)
  <2>1. pageIndex[h][k] \in Page /\ pageIndex[h][k] # NoPage
    BY <1>1, <1>2
  <2>2. CASE k \in 1..Len(tokens[h])
    <3>1. Upto(tokens[h], k) \in Prompt /\ poolTable[h][Upto(tokens[h], k)] = pageIndex[h][k]
      BY <1>1, <2>2, TableIs DEF TableOf
    <3> QED
      BY <2>1, <3>1 DEF PoolFacts!Held
  <2>3. CASE k \notin 1..Len(tokens[h])
    <3>1. k = Len(pageIndex[h]) /\ Len(pageIndex[h]) # Len(tokens[h])
      BY <1>1, <2>3
    <3>2. poolTail[h] = pageIndex[h][k]
      BY <3>1, TableIs DEF TableOf
    <3> QED
      BY <2>1, <3>2 DEF PoolFacts!Held
  <2> QED
    BY <2>2, <2>3
<1> QED
  BY <1>3, <1>4

\* The page of a chain is in neither pool.
LEMMA HeldBusy ==
  ASSUME Chains, PoolFacts!IInv, NEW h \in Holder, NEW k \in 1..Len(pageIndex[h])
  PROVE  /\ pageIndex[h][k] \in Page
         /\ pageIndex[h][k] \notin freePagesSet /\ pageIndex[h][k] \notin triePagesSet
<1>1. pageIndex[h][k] \in Page /\ pageIndex[h][k] \in PoolFacts!Held(h)
  BY ChainFacts, HeldIs DEF ChainOf
<1>2. h \in PoolFacts!Users(pageIndex[h][k])
  BY <1>1 DEF PoolFacts!Users
<1> QED
  BY <1>1, <1>2 DEF PoolFacts!IInv, PoolFacts!Partition

\* A full page of a chain holds the blocks up to it, and no page occurs twice.
LEMMA ChainContent ==
  ASSUME Chains, PoolFacts!IInv, NEW h \in Holder
  PROVE  /\ \A k \in 1..Len(tokens[h]) : content[pageIndex[h][k]] = Upto(tokens[h], k)
         /\ Lists(pageIndex[h], PoolFacts!Held(h))
<1>1. /\ Len(tokens[h]) \in Nat /\ Len(pageIndex[h]) \in Nat /\ Len(tokens[h]) <= Len(pageIndex[h])
      /\ Len(pageIndex[h]) # Len(tokens[h]) => Len(pageIndex[h]) = Len(tokens[h]) + 1
      /\ pageIndex[h] \in Seq(Page)
      /\ \A k \in 1..Len(pageIndex[h]) : pageIndex[h][k] \in Page
      /\ \A k \in 1..Len(tokens[h]) : Upto(tokens[h], k) \in Prompt /\ Len(Upto(tokens[h], k)) = k
  BY ChainFacts DEF ChainOf
<1>2. NoPage \notin Page /\ Root \notin Prompt
  BY PoolAssumed DEF PoolFacts!PagePoolAssumption
<1>3. ASSUME NEW k \in 1..Len(tokens[h]) PROVE content[pageIndex[h][k]] = Upto(tokens[h], k)
  <2>1. /\ Upto(tokens[h], k) \in Prompt /\ poolTable[h][Upto(tokens[h], k)] = pageIndex[h][k]
        /\ pageIndex[h][k] # NoPage
    BY <1>1, <1>2, TableIs DEF TableOf
  <2> QED
    BY <2>1 DEF PoolFacts!IInv, PoolFacts!CacheCoherent
<1>4. ASSUME NEW k \in 1..Len(pageIndex[h]), k \notin 1..Len(tokens[h])
      PROVE  k = Len(pageIndex[h]) /\ content[pageIndex[h][k]] = Root
  <2>1. k = Len(pageIndex[h]) /\ Len(pageIndex[h]) # Len(tokens[h])
    BY <1>1, <1>4
  <2>2. poolTail[h] = pageIndex[h][k] /\ poolTail[h] # NoPage
    BY <1>1, <1>2, <2>1, TableIs DEF TableOf
  <2> QED
    BY <2>1, <2>2 DEF PoolFacts!IInv, PoolFacts!TailFresh
<1>5. \A k \in 1..Len(tokens[h]) : content[pageIndex[h][k]] # Root
  BY <1>1, <1>2, <1>3
<1>6. ASSUME NEW j \in 1..Len(pageIndex[h]), NEW k \in 1..Len(pageIndex[h]),
             pageIndex[h][j] = pageIndex[h][k]
      PROVE  j = k
  <2>1. CASE j \in 1..Len(tokens[h]) /\ k \in 1..Len(tokens[h])
    BY <1>1, <1>3, <1>6, <2>1
  <2>2. CASE j \notin 1..Len(tokens[h]) \/ k \notin 1..Len(tokens[h])
    BY <1>4, <1>5, <1>6, <2>2
  <2> QED
    BY <2>1, <2>2
<1>7. /\ \A k \in 1..Len(pageIndex[h]) : pageIndex[h][k] \in PoolFacts!Held(h)
      /\ \A q \in PoolFacts!Held(h) : \E k \in 1..Len(pageIndex[h]) : pageIndex[h][k] = q
  BY HeldIs
<1>8. Lists(pageIndex[h], PoolFacts!Held(h))
  BY <1>1, <1>6, <1>7, ListsDef
<1> QED
  BY <1>3, <1>8
-----------------------------------------------------------------------------
\* An untouched trie means the same to the pool.
LEMMA SameTrie ==
  ASSUME Nodes, UNCHANGED <<trieNodes, pageToTrieNode>>
  PROVE  UNCHANGED <<poolTrie, poolNodeOf>>
<1>1. /\ WellSpelled(trieNodes) /\ pageToTrieNode \in [Page -> DOMAIN trieNodes \cup {Root}]
      /\ trieNodes' = trieNodes /\ pageToTrieNode' = pageToTrieNode
  BY DEF Nodes
<1>2. poolTrie' = poolTrie
  BY <1>1, PoolTrieIs
<1>3. poolNodeOf = NodeOf(trieNodes, pageToTrieNode)
  BY <1>1, PoolNodeOfIs
<1>4. poolNodeOf' = NodeOf(trieNodes', pageToTrieNode')
  BY <1>1, PoolNodeOfIsPrime
<1> QED
  BY <1>1, <1>2, <1>3, <1>4

\* FillPage is the pool's Fill.
LEMMA FillStep ==
  ASSUME Linked, NEW h \in Holder, NEW b \in Block, FillPage(h, b)
  PROVE  /\ Stacks' /\ Chains' /\ Nodes'
         /\ \E p \in Prompt : PoolFacts!Fill(h, p)
<1>1. Stacks /\ Chains /\ Nodes /\ PoolFacts!IInv
  BY DEF Linked
<1>2. PICK p : p = Append(tokens[h], b)
  OBVIOUS
<1>3. /\ ~LastPageFull(h) /\ p \in Prompt
      /\ tokens' = [tokens EXCEPT ![h] = p]
      /\ content' = [content EXCEPT ![Last(pageIndex[h])] = tokens'[h]]
      /\ UNCHANGED <<manager, pageIndex>>
  BY <1>2 DEF FillPage
<1>4. /\ tokens[h] \in Seq(Block) /\ Len(tokens[h]) \in Nat
      /\ Len(pageIndex[h]) = Len(tokens[h]) + 1
      /\ pageIndex[h][Len(pageIndex[h])] \in Page
  BY <1>1, <1>3, ChainFacts DEF ChainOf
<1>5. Len(p) = Len(tokens[h]) + 1 /\ \A i \in 1..Len(tokens[h]) : p[i] = tokens[h][i]
  BY <1>2, <1>4, AppendProperties
<1>6. tokens'[h] = p /\ \A g \in Holder : g # h => tokens'[g] = tokens[g]
  BY <1>1, <1>3 DEF Chains
<1>7. Stacks' /\ Nodes'
  BY <1>1, <1>3 DEF Stacks, Nodes, manager
<1>8. Chains'
  <2>1. tokens' \in [Holder -> Prompt \cup {Root}]
    BY <1>1, <1>3 DEF Chains
  <2> QED
    BY <1>1, <1>3, <1>4, <1>5, <1>6, <2>1 DEF Chains
<1>9. /\ p \in Seq(Block) /\ Len(p) \in Nat
      /\ \A k \in 1..Len(tokens[h]) : Upto(p, k) = Upto(tokens[h], k)
  <2>1. p \in Seq(Block) /\ Len(p) \in Nat
    BY <1>3, PromptFacts
  <2>2. ASSUME NEW k \in 1..Len(tokens[h]) PROVE Upto(p, k) = Upto(tokens[h], k)
    <3>1. k \in 0..Len(p) /\ k \in 0..Len(tokens[h]) /\ \A i \in 1..k : i \in 1..Len(tokens[h])
      BY <1>4, <1>5
    <3>2. /\ Upto(p, k) \in Seq(Block) /\ Len(Upto(p, k)) = k
          /\ \A i \in 1..k : Upto(p, k)[i] = p[i]
      BY <2>1, <3>1, UptoFacts
    <3>3. /\ Upto(tokens[h], k) \in Seq(Block) /\ Len(Upto(tokens[h], k)) = k
          /\ \A i \in 1..k : Upto(tokens[h], k)[i] = tokens[h][i]
      BY <1>4, <3>1, UptoFacts
    <3>4. \A i \in 1..k : Upto(p, k)[i] = Upto(tokens[h], k)[i]
      BY <1>5, <3>1, <3>2, <3>3
    <3> QED
      BY <3>2, <3>3, <3>4, SeqEqual
  <2> QED
    BY <2>1, <2>2
<1>10. NoPage \notin Page
  BY PoolAssumed DEF PoolFacts!PagePoolAssumption
<1>11. poolTail[h] = Last(pageIndex[h]) /\ poolTail[h] \in Page /\ poolTail[h] # NoPage
  BY <1>1, <1>4, <1>10, TableIs DEF TableOf, Last
<1>12. ASSUME NEW r \in Prompt
       PROVE  /\ poolTable[h][r] # NoPage <=> <<r, p>> \in Longer
              /\ r = p => poolTable[h][r] = NoPage
              /\ poolTable'[h][r] = IF r = p THEN poolTail[h] ELSE poolTable[h][r]
  <2>1. Len(r) \in Nat \ {0} /\ Upto(p, Len(p)) = p /\ (Len(r) = Len(p) => Upto(p, Len(r)) = p)
    BY <1>3, PromptFacts
  <2>2. <<r, p>> \in Longer <=> Len(r) < Len(p) /\ r = Upto(p, Len(r))
    BY <1>3, LongerDef
  <2>3. poolTable[h][r] = IF Len(r) <= Len(tokens[h]) /\ r = Upto(tokens[h], Len(r))
                          THEN pageIndex[h][Len(r)] ELSE NoPage
    BY <1>1, TableIs DEF TableOf
  <2>4. poolTable'[h][r] = IF Len(r) <= Len(p) /\ r = Upto(p, Len(r))
                           THEN pageIndex[h][Len(r)] ELSE NoPage
    BY <1>3, <1>6, <1>8, TableIsPrime DEF TableOf
  <2>5. Len(r) <= Len(tokens[h]) =>
          /\ Len(r) \in 1..Len(tokens[h]) /\ Len(r) < Len(p) /\ Len(r) <= Len(p)
          /\ Upto(p, Len(r)) = Upto(tokens[h], Len(r))
          /\ pageIndex[h][Len(r)] # NoPage
    <3> SUFFICES ASSUME Len(r) <= Len(tokens[h])
                 PROVE  /\ Len(r) \in 1..Len(tokens[h]) /\ Len(r) < Len(p) /\ Len(r) <= Len(p)
                        /\ Upto(p, Len(r)) = Upto(tokens[h], Len(r))
                        /\ pageIndex[h][Len(r)] # NoPage
      OBVIOUS
    <3>1. Len(r) \in 1..Len(tokens[h]) /\ Len(r) < Len(p) /\ Len(r) <= Len(p)
      BY <1>4, <1>5, <2>1
    <3>2. pageIndex[h][Len(r)] \in Page
      BY <1>1, <1>4, <3>1, ChainFacts DEF ChainOf
    <3> QED
      BY <1>9, <1>10, <3>1, <3>2
  <2>6. ~(Len(r) <= Len(tokens[h])) => ~(Len(r) < Len(p))
    BY <1>4, <1>5, <2>1
  <2>7. Len(r) <= Len(p) <=> Len(r) < Len(p) \/ Len(r) = Len(p)
    BY <1>9, <2>1
  <2>8. r = p => ~(Len(r) <= Len(tokens[h])) /\ Len(r) <= Len(p) /\ r = Upto(p, Len(r))
    BY <1>4, <1>5, <2>1
  <2>9. pageIndex[h][Len(p)] = poolTail[h]
    BY <1>4, <1>5, <1>11 DEF Last
  <2>10. CASE Len(r) <= Len(tokens[h])
    <3>1. r # p
      BY <2>8, <2>10
    <3>2. CASE r = Upto(tokens[h], Len(r))
      <4>1. r = Upto(p, Len(r))
        BY <2>5, <2>10, <3>2
      <4>2. poolTable[h][r] = pageIndex[h][Len(r)] /\ poolTable'[h][r] = pageIndex[h][Len(r)]
        BY <2>3, <2>4, <2>5, <2>10, <3>2, <4>1
      <4> QED
        BY <2>2, <2>5, <2>10, <3>1, <4>1, <4>2
    <3>3. CASE r # Upto(tokens[h], Len(r))
      <4>1. r # Upto(p, Len(r))
        BY <2>5, <2>10, <3>3
      <4>2. poolTable[h][r] = NoPage /\ poolTable'[h][r] = NoPage
        BY <2>3, <2>4, <3>3, <4>1
      <4> QED
        BY <2>2, <3>1, <4>1, <4>2
    <3> QED
      BY <3>2, <3>3
  <2>11. CASE ~(Len(r) <= Len(tokens[h]))
    <3>1. <<r, p>> \notin Longer /\ poolTable[h][r] = NoPage
      BY <2>2, <2>3, <2>6, <2>11, Zenon
    <3>2. CASE r = p
      BY <2>4, <2>8, <2>9, <3>1, <3>2, Zenon
    <3>3. CASE r # p
      <4>1. ~(Len(r) <= Len(p) /\ r = Upto(p, Len(r)))
        BY <2>1, <2>6, <2>7, <2>11, <3>3
      <4> QED
        BY <2>4, <3>1, <3>3, <4>1, Zenon
    <3> QED
      BY <3>2, <3>3
  <2> QED
    BY <2>10, <2>11
<1>13. \A g \in Holder : g # h => \A r \in Prompt : poolTable'[g][r] = poolTable[g][r]
  BY <1>1, <1>3, <1>6, <1>8, TableIs, TableIsPrime DEF TableOf
<1>14. poolTable' = [poolTable EXCEPT ![h][p] = poolTail[h]]
  <2>1. PICK t, t2, x : t = poolTable /\ t2 = poolTable' /\ x = poolTail[h]
    OBVIOUS
  <2>2. IsTables(t) /\ IsTables(t2)
    BY <2>1, TableShape, TableShapePrime, Zenon
  <2>3. \A r \in Prompt : t2[h][r] = IF r = p THEN x ELSE t[h][r]
    BY <1>12, <2>1
  <2>4. \A g \in Holder : g # h => \A r \in Prompt : t2[g][r] = t[g][r]
    BY <1>13, <2>1
  <2>5. t2 = [t EXCEPT ![h][p] = x]
    <3>1. p \in Prompt /\ EntryBecomes(t, t2, h, p, x)
      BY <1>3, <2>2, <2>3, <2>4, Zenon DEF EntryBecomes
    <3> QED
      BY <3>1, EntryUpdate, Zenon
  <2> QED
    BY <2>1, <2>5, Zenon
<1>15. poolTail' = [poolTail EXCEPT ![h] = NoPage]
  <2>1. poolTail'[h] = NoPage
    <3>1. Len(pageIndex'[h]) = Len(tokens'[h])
      BY <1>3, <1>4, <1>5, <1>6
    <3> QED
      BY <1>8, <3>1, TableIsPrime DEF TableOf
  <2>2. \A g \in Holder : g # h => poolTail'[g] = poolTail[g]
    BY <1>1, <1>3, <1>6, <1>8, TableIs, TableIsPrime DEF TableOf
  <2> QED
    BY <2>1, <2>2, TableShape, TableShapePrime
<1>16. content' = [content EXCEPT ![poolTail[h]] = p]
  BY <1>3, <1>6, <1>11
<1>17. UNCHANGED <<freePagesSet, triePagesSet, pageRefCount, poolTrie, poolNodeOf>>
  BY <1>1, <1>3, SameTrie DEF manager
<1>18. PoolFacts!Fill(h, p)
  BY <1>3, <1>11, <1>12, <1>14, <1>15, <1>16, <1>17, Zenon DEF PoolFacts!Fill
<1> QED
  BY <1>3, <1>7, <1>8, <1>18

\* t2 is t but for holder h, which has u.
RowBecomes(t, t2, h, u) ==
  /\ IsTables(t) /\ IsTables(t2)
  /\ u = [p \in Prompt |-> t2[h][p]]
  /\ \A g \in Holder : g # h => \A r \in Prompt : t2[g][r] = t[g][r]

\* The whole entry of one holder.
LEMMA RowUpdate ==
  ASSUME NEW t, NEW t2, NEW h \in Holder, NEW u, RowBecomes(t, t2, h, u)
  PROVE  t2 = [t EXCEPT ![h] = u]
<1> USE DEF RowBecomes
<1>1. /\ DOMAIN t = Holder /\ DOMAIN t2 = Holder
      /\ t = [g \in Holder |-> t[g]] /\ t2 = [g \in Holder |-> t2[g]]
      /\ \A g \in Holder : t[g] = [r \in Prompt |-> t[g][r]] /\ t2[g] = [r \in Prompt |-> t2[g][r]]
  BY Zenon DEF IsTables
<1>2. ASSUME NEW g \in Holder, g # h PROVE t2[g] = t[g]
  BY <1>1, <1>2, Zenon
<1>3. t2[h] = u
  BY <1>1, Zenon
<1> QED
  BY <1>1, <1>2, <1>3

\* The tables when one holder gives up all of its pages.
LEMMA ChainDropped ==
  ASSUME Chains, NEW h \in Holder,
         pageIndex' = [pageIndex EXCEPT ![h] = <<>>],
         tokens' = [tokens EXCEPT ![h] = <<>>]
  PROVE  /\ Chains'
         /\ poolTable' = [poolTable EXCEPT ![h] = PoolFacts!Empty]
         /\ poolTail' = [poolTail EXCEPT ![h] = NoPage]
<1>1. /\ tokens'[h] = <<>> /\ pageIndex'[h] = <<>>
      /\ \A g \in Holder : g # h => tokens'[g] = tokens[g] /\ pageIndex'[g] = pageIndex[g]
  BY DEF Chains
<1>2. Len(<<>>) = 0 /\ <<>> \in Seq(Page)
  BY EmptySeq
<1>3. Chains'
  <2>1. tokens' \in [Holder -> Prompt \cup {Root}] /\ pageIndex' \in [Holder -> Seq(Page)]
    BY <1>2 DEF Chains, Root
  <2>2. \A g \in Holder : Len(pageIndex'[g]) \in {Len(tokens'[g]), Len(tokens'[g]) + 1}
    BY <1>1, <1>2 DEF Chains
  <2> QED
    BY <2>1, <2>2 DEF Chains
<1>4. \A g \in Holder : TableOf(g)
  BY TableIs
<1>5. \A g \in Holder : TableOf(g)'
  BY <1>3, TableIsPrime
<1>6. \A g \in Holder : g # h => \A r \in Prompt : poolTable'[g][r] = poolTable[g][r]
  BY <1>1, <1>4, <1>5 DEF TableOf
<1>7. \A r \in Prompt : poolTable'[h][r] = NoPage
  BY <1>1, <1>2, <1>5, PromptFacts DEF TableOf
<1>8. poolTail'[h] = NoPage /\ \A g \in Holder : g # h => poolTail'[g] = poolTail[g]
  <2>1. poolTail'[h] = NoPage
    BY <1>1, <1>2, <1>5 DEF TableOf
  <2>2. \A g \in Holder : g # h => poolTail'[g] = poolTail[g]
    BY <1>1, <1>4, <1>5 DEF TableOf
  <2> QED
    BY <2>1, <2>2
<1>9. poolTail' = [poolTail EXCEPT ![h] = NoPage]
  BY <1>8, TableShape, TableShapePrime
<1>10. PICK t, t2, u : t = poolTable /\ t2 = poolTable' /\ u = PoolFacts!Empty
  OBVIOUS
<1>11. u = [p \in Prompt |-> t2[h][p]]
  BY <1>7, <1>10 DEF PoolFacts!Empty
<1>12. RowBecomes(t, t2, h, u)
  <2>1. IsTables(t) /\ IsTables(t2)
    BY <1>10, TableShape, TableShapePrime, Zenon
  <2>2. \A g \in Holder : g # h => \A r \in Prompt : t2[g][r] = t[g][r]
    BY <1>6, <1>10
  <2> QED
    BY <1>11, <2>1, <2>2, Zenon DEF RowBecomes
<1>13. t2 = [t EXCEPT ![h] = u]
  BY <1>12, RowUpdate, Zenon
<1> QED
  BY <1>3, <1>9, <1>10, <1>13, Zenon

\* ReleasePageIndices is the pool's Release.
LEMMA ReleaseStep ==
  ASSUME Linked, NEW h \in Holder, ReleasePageIndices(h)
  PROVE  /\ Stacks' /\ Chains' /\ Nodes'
         /\ PoolFacts!Release(h)
<1>1. Stacks /\ Chains /\ Nodes /\ PoolFacts!IInv
  BY DEF Linked
<1>2. PICK held : held = PoolFacts!Held(h)
  OBVIOUS
<1>3. PICK unused, toTrie, toFree :
        /\ unused = Keep(pageIndex[h], {q \in Page : pageRefCount[q] <= 1})
        /\ toTrie = Keep(unused, {q \in Page \ triePagesSet : pageToTrieNode[q] # Root})
        /\ toFree = Keep(unused, {q \in Page \ freePagesSet : pageToTrieNode[q] = Root})
  OBVIOUS
<1>4. /\ pageIndex[h] # <<>>
      /\ pageRefCount' = [q \in Page |->
           IF q \in ToSet(unused) THEN 0
           ELSE IF q \in ToSet(pageIndex[h]) THEN pageRefCount[q] - 1
           ELSE pageRefCount[q]]
      /\ triePages' = triePages \o toTrie
      /\ triePagesSet' = triePagesSet \cup ToSet(toTrie)
      /\ freePages' = freePages \o toFree
      /\ freePagesSet' = freePagesSet \cup ToSet(toFree)
      /\ pageIndex' = [pageIndex EXCEPT ![h] = <<>>]
      /\ tokens' = [tokens EXCEPT ![h] = <<>>]
      /\ UNCHANGED <<pageTimestamp, currentTimestamp, trieNodes, pageToTrieNode, content>>
  BY <1>3, Zenon DEF ReleasePageIndices
<1>5. Lists(pageIndex[h], held)
  BY <1>1, <1>2, ChainContent
<1>6. held \subseteq Page /\ held \cap freePagesSet = {} /\ held \cap triePagesSet = {}
  BY <1>1, <1>2, HeldIs, HeldBusy
<1>7. PICK U, T, F : /\ U = {q \in held : pageRefCount[q] <= 1}
                     /\ T = {q \in U : pageToTrieNode[q] # Root}
                     /\ F = {q \in U : pageToTrieNode[q] = Root}
  OBVIOUS
<1>8. Lists(unused, U)
  <2>1. Lists(unused, held \cap {q \in Page : pageRefCount[q] <= 1})
    BY <1>3, <1>5, KeepLists
  <2>2. held \cap {q \in Page : pageRefCount[q] <= 1} = U
    BY <1>6, <1>7
  <2> QED
    BY <2>1, <2>2
<1>9. Lists(toTrie, T)
  <2>1. Lists(toTrie, U \cap {q \in Page \ triePagesSet : pageToTrieNode[q] # Root})
    BY <1>3, <1>8, KeepLists
  <2>2. U \cap {q \in Page \ triePagesSet : pageToTrieNode[q] # Root} = T
    BY <1>6, <1>7
  <2> QED
    BY <2>1, <2>2
<1>10. Lists(toFree, F)
  <2>1. Lists(toFree, U \cap {q \in Page \ freePagesSet : pageToTrieNode[q] = Root})
    BY <1>3, <1>8, KeepLists
  <2>2. U \cap {q \in Page \ freePagesSet : pageToTrieNode[q] = Root} = F
    BY <1>6, <1>7
  <2> QED
    BY <2>1, <2>2
<1>11. ToSet(pageIndex[h]) = held /\ ToSet(unused) = U /\ ToSet(toTrie) = T /\ ToSet(toFree) = F
  BY <1>5, <1>8, <1>9, <1>10 DEF Lists
<1>12. Stacks'
  <2>1. Lists(triePages', triePagesSet')
    <3>1. triePagesSet \cap T = {}
      BY <1>6, <1>7
    <3> QED
      BY <1>1, <1>4, <1>9, <1>11, <3>1, ConcatLists DEF Stacks
  <2>2. Lists(freePages', freePagesSet')
    <3>1. freePagesSet \cap F = {}
      BY <1>6, <1>7
    <3> QED
      BY <1>1, <1>4, <1>10, <1>11, <3>1, ConcatLists DEF Stacks
  <2> QED
    BY <2>1, <2>2 DEF Stacks
<1>13. Nodes'
  BY <1>1, <1>4 DEF Nodes
<1>14. /\ Chains'
       /\ poolTable' = [poolTable EXCEPT ![h] = PoolFacts!Empty]
       /\ poolTail' = [poolTail EXCEPT ![h] = NoPage]
  BY <1>1, <1>4, ChainDropped
<1>15. UNCHANGED <<poolTrie, poolNodeOf>>
  BY <1>1, <1>4, SameTrie
<1>16. \A q \in Page : poolNodeOf[q] = Root <=> pageToTrieNode[q] = Root
  BY <1>1, PoolNodeOfIs, NodeOfMeans DEF Nodes
<1>17. T = {q \in U : poolNodeOf[q] # Root} /\ F = {q \in U : poolNodeOf[q] = Root}
  BY <1>6, <1>7, <1>16
<1>18. held # {}
  <2>1. Len(pageIndex[h]) \in Nat /\ (Len(pageIndex[h]) = 0 => pageIndex[h] = <<>>)
    BY <1>5, EmptySeq, LenProperties DEF Lists
  <2>2. 1 \in 1..Len(pageIndex[h])
    BY <1>4, <2>1
  <2> QED
    BY <1>1, <1>2, <2>2, HeldIs
<1>19. pageRefCount' = [q \in Page |-> IF q \in U THEN 0
                                       ELSE IF q \in held THEN pageRefCount[q] - 1
                                       ELSE pageRefCount[q]]
  BY <1>4, <1>11, Zenon
<1>20. PoolFacts!Release(h)
  <2>1. U = {q \in PoolFacts!Held(h) : pageRefCount[q] <= 1}
    BY <1>2, <1>7
  <2>2. triePagesSet' = triePagesSet \cup {q \in U : poolNodeOf[q] # Root}
    BY <1>4, <1>11, <1>17
  <2>3. freePagesSet' = freePagesSet \cup {q \in U : poolNodeOf[q] = Root}
    BY <1>4, <1>11, <1>17
  <2> QED
    BY <1>2, <1>4, <1>14, <1>15, <1>18, <1>19, <2>1, <2>2, <2>3, Zenon DEF PoolFacts!Release
<1> QED
  BY <1>12, <1>13, <1>14, <1>20
-----------------------------------------------------------------------------
\* A bounded set of numbers has a maximum.
LEMMA MaxOf ==
  ASSUME NEW n \in Nat, NEW S \in SUBSET (0..n), S # {}
  PROVE  Max(S) \in S /\ \A y \in S : y <= Max(S)
<1>1. PICK T : T = {n - x : x \in S}
  OBVIOUS
<1>2. T \in SUBSET Nat /\ T # {}
  <2>1. ASSUME NEW y \in T PROVE y \in Nat
    <3>1. PICK x \in S : y = n - x
      BY <1>1
    <3>2. x \in 0..n
      OBVIOUS
    <3> QED
      BY <3>1, <3>2
  <2>2. PICK z \in S : TRUE
    OBVIOUS
  <2>3. n - z \in T
    BY <1>1
  <2> QED
    BY <2>1, <2>3
<1>3. PICK m \in T : \A y \in T : m <= y
  BY <1>2, LeastOf
<1>4. PICK x \in S : m = n - x
  BY <1>1, <1>3
<1>5. ASSUME NEW y \in S PROVE x >= y
  <2>1. n - y \in T /\ x \in 0..n /\ y \in 0..n
    BY <1>1
  <2> QED
    BY <1>3, <1>4, <2>1
<1>6. Max(S) \in S /\ \A y \in S : Max(S) >= y
  BY <1>4, <1>5, Zenon DEF Max
<1> QED
  BY <1>6

\* Query by what the trie means: the pages along the longest published prefix.
QueryOf(blocks, m) ==
  /\ m \in 0..Len(blocks)
  /\ Query(blocks) \in Seq(Page) /\ Len(Query(blocks)) = m
  /\ \A i \in 1..Len(blocks) : SpelledIn(trieNodes, Upto(blocks, i)) <=> i <= m
  /\ \A i \in 1..m : Query(blocks)[i] = poolTrie[Upto(blocks, i)]

\* Query stops at the first position that does not spell the blocks.
LEMMA QueryIs ==
  ASSUME Nodes, NEW blocks \in Prompt
  PROVE  \E m : QueryOf(blocks, m)
<1>1. PICK len : len = Len(blocks)
  OBVIOUS
<1>2. len \in Nat \ {0} /\ \A i \in 1..len : Upto(blocks, i) \in Prompt /\ Len(Upto(blocks, i)) = i
  BY <1>1, PromptFacts
<1>3. ASSUME NEW i \in 1..len
      PROVE  Passes(HashPath(Upto(blocks, i)), blocks[i]) <=>
               /\ HashPath(Upto(blocks, i)) \in DOMAIN trieNodes
               /\ trieNodes[HashPath(Upto(blocks, i))].extraKey = ExtraKey[blocks[i]]
  <2>1. PICK n : n = HashPath(Upto(blocks, i))
    OBVIOUS
  <2>2. n \in DOMAIN trieNodes =>
          /\ trieNodes[n].pageId # NoPage
          /\ pageTimestamp[trieNodes[n].pageId] = trieNodes[n].timestamp
    BY PoolAssumed DEF Nodes, WellSpelled, PoolFacts!PagePoolAssumption
  <2>3. Passes(n, blocks[i]) <=> n \in DOMAIN trieNodes /\ trieNodes[n].extraKey = ExtraKey[blocks[i]]
    BY <2>2, Zenon DEF Passes
  <2> QED
    BY <2>1, <2>3
<1>4. ASSUME NEW n \in 1..len
      PROVE  SpelledIn(trieNodes, Upto(blocks, n)) <=>
               \A i \in 1..n : Passes(HashPath(Upto(blocks, i)), blocks[i])
  <2>1. PICK u : u = Upto(blocks, n)
    OBVIOUS
  <2>2. n \in 0..len /\ \A i \in 1..n : i \in 1..len /\ i \in 0..n
    BY <1>2
  <2>3. /\ Len(u) = n /\ \A i \in 1..n : u[i] = blocks[i] /\ Upto(u, i) = Upto(blocks, i)
    BY <1>1, <2>1, <2>2, PromptFacts, UptoFacts
  <2>4. SpelledIn(trieNodes, u) <=>
          \A i \in 1..n : /\ HashPath(Upto(blocks, i)) \in DOMAIN trieNodes
                          /\ trieNodes[HashPath(Upto(blocks, i))].extraKey = ExtraKey[blocks[i]]
    BY <2>3, Zenon DEF SpelledIn
  <2> QED
    BY <1>3, <2>1, <2>2, <2>4, Zenon
<1>5. PICK reach : reach = {n \in 0..len : \A i \in 1..n : Passes(HashPath(Upto(blocks, i)), blocks[i])}
  OBVIOUS
<1>6. 0 \in reach /\ reach \in SUBSET (0..len)
  BY <1>2, <1>5
<1>7. PICK m : m = Max(reach)
  OBVIOUS
<1>8. m \in reach /\ \A y \in reach : y <= m
  BY <1>2, <1>6, <1>7, MaxOf
<1>9. m \in 0..len /\ m \in Nat
  BY <1>2, <1>6, <1>8
<1>10. ASSUME NEW i \in 1..len PROVE SpelledIn(trieNodes, Upto(blocks, i)) <=> i <= m
  <2>1. CASE i <= m
    <3>1. \A j \in 1..i : j \in 1..m
      BY <1>9, <2>1
    <3>2. \A j \in 1..m : Passes(HashPath(Upto(blocks, j)), blocks[j])
      BY <1>5, <1>8
    <3> QED
      BY <1>4, <2>1, <3>1, <3>2, Zenon
  <2>2. CASE ~(i <= m)
    <3>1. i \notin reach /\ i \in 0..len
      BY <1>2, <1>8, <2>2
    <3>2. ~\A j \in 1..i : Passes(HashPath(Upto(blocks, j)), blocks[j])
      BY <1>5, <3>1
    <3> QED
      BY <1>4, <2>2, <3>2, Zenon
  <2> QED
    BY <2>1, <2>2
<1>11. Query(blocks) = [i \in 1..m |-> trieNodes[HashPath(Upto(blocks, i))].pageId]
  BY <1>1, <1>5, <1>7, Zenon DEF Query, Upto
<1>12. ASSUME NEW i \in 1..m
       PROVE  /\ trieNodes[HashPath(Upto(blocks, i))].pageId = poolTrie[Upto(blocks, i)]
              /\ trieNodes[HashPath(Upto(blocks, i))].pageId \in Page
  <2>1. i \in 1..len /\ i <= m
    BY <1>2, <1>9
  <2>2. SpelledIn(trieNodes, Upto(blocks, i)) /\ Upto(blocks, i) \in Prompt
    BY <1>2, <1>10, <2>1
  <2>3. /\ HashPath(Upto(blocks, i)) \in DOMAIN trieNodes
        /\ poolTrie[Upto(blocks, i)] = trieNodes[HashPath(Upto(blocks, i))].pageId
    BY <2>2, PoolTrieIs, TrieOfMeans DEF Nodes
  <2> QED
    BY <2>3 DEF Nodes, WellSpelled
<1>13. Query(blocks) \in [1..m -> Page]
  BY <1>11, <1>12
<1>14. Query(blocks) \in Seq(Page) /\ Len(Query(blocks)) = m
  <2>1. Query(blocks) \in Seq(Page)
    BY <1>9, <1>13, SeqDef
  <2> QED
    BY <1>9, <1>13, <2>1, LenProperties
<1>15. \A i \in 1..m : Query(blocks)[i] = poolTrie[Upto(blocks, i)]
  BY <1>11, <1>12
<1> QED
  BY <1>1, <1>9, <1>10, <1>14, <1>15 DEF QueryOf

\* QueryExact follows from the inductive invariant.
LEMMA LinkedQuery ==
  ASSUME Linked
  PROVE  QueryExact
<1> SUFFICES ASSUME NEW blocks \in Prompt
             PROVE  /\ \A i \in DOMAIN Query(blocks) :
                         content[Query(blocks)[i]] = SubSeq(blocks, 1, i)
                    /\ \A n \in 1 .. Len(blocks) :
                         Spells(SubSeq(blocks, 1, n)) => Len(Query(blocks)) >= n
  BY DEF QueryExact
<1>1. Nodes /\ PoolFacts!IInv
  BY DEF Linked
<1>2. PICK m : QueryOf(blocks, m)
  BY <1>1, QueryIs
<1>3. m \in Nat /\ m <= Len(blocks) /\ DOMAIN Query(blocks) = 1..m
      /\ \A i \in 1..Len(blocks) : Upto(blocks, i) \in Prompt
  BY <1>2, PromptFacts, LenProperties DEF QueryOf
<1>4. ASSUME NEW i \in 1..m PROVE content[Query(blocks)[i]] = Upto(blocks, i)
  <2>1. i \in 1..Len(blocks) /\ i <= m
    BY <1>3, PromptFacts
  <2>2. /\ Upto(blocks, i) \in Prompt /\ SpelledIn(trieNodes, Upto(blocks, i))
        /\ Query(blocks)[i] = poolTrie[Upto(blocks, i)]
    BY <1>2, <1>3, <2>1 DEF QueryOf
  <2>3. poolTrie[Upto(blocks, i)] # NoPage
    BY <1>1, <2>2, PoolTrieIs, TrieOfMeans DEF Nodes
  <2> QED
    BY <1>1, <2>2, <2>3 DEF PoolFacts!IInv, PoolFacts!CacheCoherent
<1>5. ASSUME NEW n \in 1..Len(blocks), Spells(Upto(blocks, n)) PROVE Len(Query(blocks)) >= n
  <2>1. SpelledIn(trieNodes, Upto(blocks, n))
    BY <1>3, <1>5, SpellsIs
  <2> QED
    BY <1>2, <1>3, <2>1 DEF QueryOf
<1> QED
  BY <1>3, <1>4, <1>5 DEF Upto

\* The nodes a walk to the first n blocks of a prompt visits.
LEMMA ChainUpto ==
  ASSUME NEW blocks \in Prompt, NEW n \in 1..Len(blocks)
  PROVE  /\ PoolFacts!Chain(Upto(blocks, n)) = {Upto(blocks, i) : i \in 1..n}
         /\ \A r \in Prompt : r \in PoolFacts!Chain(Upto(blocks, n)) <=>
                                Len(r) <= n /\ r = Upto(blocks, Len(r))
<1>1. PICK p : p = Upto(blocks, n)
  OBVIOUS
<1>2. /\ p \in Prompt /\ Len(p) = n /\ n \in Nat \ {0} /\ n <= Len(blocks) /\ Len(blocks) \in Nat
      /\ \A i \in 1..n : Upto(p, i) = Upto(blocks, i)
  BY <1>1, PromptFacts
<1>3. \A i \in 1..n : i \in 1..Len(blocks)
  BY <1>2
<1>4. \A i \in 1..n : Upto(blocks, i) \in Prompt /\ Len(Upto(blocks, i)) = i
  BY <1>3, PromptFacts
<1>5. ASSUME NEW r \in Prompt
      PROVE  /\ r = p \/ <<r, p>> \in Longer <=> Len(r) <= n /\ r = Upto(blocks, Len(r))
             /\ Len(r) <= n => Len(r) \in 1..n
  <2>1. Len(r) \in Nat \ {0}
    BY PromptFacts
  <2>2. <<r, p>> \in Longer <=> Len(r) < n /\ r = Upto(p, Len(r))
    BY <1>2, LongerDef
  <2>3. Len(r) <= n => Len(r) \in 1..n /\ Upto(p, Len(r)) = Upto(blocks, Len(r))
    BY <1>2, <2>1
  <2>4. r = p => Len(r) = n /\ r = Upto(blocks, Len(r))
    BY <1>1, <1>2
  <2>5. Len(r) = n /\ r = Upto(blocks, Len(r)) => r = p
    BY <1>1
  <2>6. Len(r) <= n <=> Len(r) < n \/ Len(r) = n
    BY <1>2, <2>1
  <2>7. CASE Len(r) < n
    BY <1>2, <2>1, <2>2, <2>3, <2>4, <2>6, <2>7
  <2>8. CASE ~(Len(r) < n)
    BY <2>2, <2>3, <2>4, <2>5, <2>6, <2>8
  <2> QED
    BY <2>7, <2>8
<1>6. PoolFacts!Chain(p) = {r \in Prompt : Len(r) <= n /\ r = Upto(blocks, Len(r))}
  BY <1>5 DEF PoolFacts!Chain
<1>7. \A i \in 1..n : Upto(blocks, i) \in PoolFacts!Chain(p)
  BY <1>2, <1>4, <1>6
<1>8. \A r \in PoolFacts!Chain(p) : Len(r) \in 1..n /\ r = Upto(blocks, Len(r))
  BY <1>5, <1>6
<1>9. PoolFacts!Chain(p) = {Upto(blocks, i) : i \in 1..n}
  <2>1. \A r \in PoolFacts!Chain(p) : \E i \in 1..n : r = Upto(blocks, i)
    BY <1>8, Zenon
  <2> QED
    BY <1>7, <2>1
<1> QED
  BY <1>1, <1>6, <1>9

\* QueryAndPick is the pool's Restore.
LEMMA PickStep ==
  ASSUME Linked, NEW h \in Holder, NEW blocks \in Prompt, NEW n, QueryAndPick(h, blocks, n)
  PROVE  /\ Stacks' /\ Chains' /\ Nodes'
         /\ \E p \in Prompt : PoolFacts!Restore(h, p)
<1>1. Stacks /\ Chains /\ Nodes /\ PoolFacts!IInv
  BY DEF Linked
<1>2. PICK cached, picked : cached = Query(blocks) /\ picked = {cached[i] : i \in 1..n}
  OBVIOUS
<1>3. /\ pageIndex[h] = <<>>
      /\ n \in 1..Len(cached)
      /\ pageIndex' = [pageIndex EXCEPT ![h] = SubSeq(cached, 1, n)]
      /\ tokens' = [tokens EXCEPT ![h] = SubSeq(blocks, 1, n)]
      /\ pageRefCount' = [q \in Page |-> pageRefCount[q] + (IF q \in picked THEN 1 ELSE 0)]
      /\ freePagesSet' = freePagesSet \ picked
      /\ triePagesSet' = triePagesSet \ (picked \ freePagesSet)
      /\ freePages' = Keep(freePages, freePagesSet')
      /\ triePages' = Keep(triePages, triePagesSet')
      /\ UNCHANGED <<pageTimestamp, currentTimestamp, trieNodes, pageToTrieNode, content>>
  BY <1>2, Zenon DEF QueryAndPick
<1>4. PICK m : QueryOf(blocks, m)
  BY <1>1, QueryIs
<1>5. /\ m \in Nat /\ m <= Len(blocks) /\ Len(blocks) \in Nat /\ n \in 1..m
      /\ cached \in Seq(Page) /\ Len(cached) = m /\ blocks \in Seq(Block)
      /\ \A i \in 1..m : i \in 1..Len(blocks) /\ cached[i] = poolTrie[Upto(blocks, i)]
  BY <1>2, <1>3, <1>4, PromptFacts DEF QueryOf
<1>6. n \in 1..Len(blocks) /\ n \in 0..Len(cached) /\ n \in Nat /\ n > 0 /\ \A i \in 1..n : i \in 1..m
  BY <1>5
<1>7. PICK p, part : p = Upto(blocks, n) /\ part = Upto(cached, n)
  OBVIOUS
<1>8. /\ p \in Prompt /\ Len(p) = n /\ part \in Seq(Page) /\ Len(part) = n
      /\ \A i \in 1..n : part[i] = cached[i] /\ Upto(p, i) = Upto(blocks, i)
  <2>1. p \in Prompt /\ Len(p) = n /\ \A i \in 1..n : Upto(p, i) = Upto(blocks, i)
    BY <1>6, <1>7, PromptFacts
  <2>2. part \in Seq(Page) /\ Len(part) = n /\ \A i \in 1..n : part[i] = cached[i]
    BY <1>5, <1>6, <1>7, UptoFacts
  <2> QED
    BY <2>1, <2>2
<1>9. /\ tokens' = [tokens EXCEPT ![h] = p] /\ pageIndex' = [pageIndex EXCEPT ![h] = part]
      /\ tokens'[h] = p /\ pageIndex'[h] = part
      /\ \A g \in Holder : g # h => tokens'[g] = tokens[g] /\ pageIndex'[g] = pageIndex[g]
  BY <1>1, <1>3, <1>7 DEF Chains, Upto
<1>10. Chains'
  <2>1. tokens' \in [Holder -> Prompt \cup {Root}] /\ pageIndex' \in [Holder -> Seq(Page)]
    BY <1>1, <1>8, <1>9 DEF Chains
  <2>2. \A g \in Holder : Len(pageIndex'[g]) \in {Len(tokens'[g]), Len(tokens'[g]) + 1}
    BY <1>1, <1>8, <1>9 DEF Chains
  <2> QED
    BY <2>1, <2>2 DEF Chains
<1>11. Nodes'
  BY <1>1, <1>3 DEF Nodes
<1>12. UNCHANGED <<poolTrie, poolNodeOf>>
  BY <1>1, <1>3, SameTrie
<1>13. PICK path : path = PoolFacts!Chain(p)
  OBVIOUS
<1>14. /\ path = {Upto(blocks, i) : i \in 1..n}
       /\ \A r \in Prompt : r \in path <=> Len(r) <= n /\ r = Upto(blocks, Len(r))
  BY <1>6, <1>7, <1>13, ChainUpto
<1>15. \A i \in 1..n : cached[i] = poolTrie[Upto(blocks, i)] /\ Upto(blocks, i) \in Prompt
  BY <1>5, <1>6, PromptFacts
<1>16. picked = {poolTrie[r] : r \in path}
  <2>1. \A i \in 1..n : Upto(blocks, i) \in path /\ cached[i] = poolTrie[Upto(blocks, i)]
    BY <1>14, <1>15
  <2>2. \A r \in path : \E i \in 1..n : r = Upto(blocks, i)
    BY <1>14
  <2> QED
    BY <1>2, <2>1, <2>2
<1>17. \A r \in path : poolTrie[r] # NoPage
  <2>1. ASSUME NEW i \in 1..n PROVE poolTrie[Upto(blocks, i)] # NoPage
    <3>1. i \in 1..Len(blocks) /\ i <= m
      BY <1>5, <1>6
    <3>2. SpelledIn(trieNodes, Upto(blocks, i))
      BY <1>4, <3>1 DEF QueryOf
    <3> QED
      BY <1>1, <1>15, <3>2, PoolTrieIs, TrieOfMeans DEF Nodes
  <2> QED
    BY <1>14, <2>1
<1>18. \A g \in Holder : TableOf(g) /\ TableOf(g)'
  BY <1>1, <1>10, TableIs, TableIsPrime
<1>19. Len(pageIndex[h]) = 0 /\ Len(tokens[h]) = 0 /\ tokens[h] \in Seq(Block)
  <2>1. Len(pageIndex[h]) = 0
    BY <1>3, EmptySeq
  <2> QED
    BY <1>1, <2>1, ChainFacts DEF ChainOf
<1>20. PoolFacts!Held(h) = {}
  <2>1. 1..0 = {}
    OBVIOUS
  <2> QED
    BY <1>1, <1>19, <2>1, HeldIs
<1>21. poolTail' = poolTail
  <2>1. poolTail[h] = NoPage
    BY <1>18, <1>19 DEF TableOf
  <2>2. poolTail'[h] = NoPage
    BY <1>8, <1>9, <1>18 DEF TableOf
  <2>3. \A g \in Holder : g # h => poolTail'[g] = poolTail[g]
    BY <1>9, <1>18 DEF TableOf
  <2> QED
    BY <2>1, <2>2, <2>3, TableShape, TableShapePrime
<1>22. \A g \in Holder : g # h => \A r \in Prompt : poolTable'[g][r] = poolTable[g][r]
  BY <1>9, <1>18 DEF TableOf
<1>23. ASSUME NEW r \in Prompt
       PROVE  poolTable'[h][r] = IF r \in path THEN poolTrie[r] ELSE NoPage
  <2>1. poolTable'[h][r] = IF Len(r) <= n /\ r = Upto(p, Len(r)) THEN part[Len(r)] ELSE NoPage
    BY <1>8, <1>9, <1>18 DEF TableOf
  <2>2. Len(r) \in Nat \ {0}
    BY PromptFacts
  <2>3. Len(r) <= n => /\ Len(r) \in 1..n /\ Upto(p, Len(r)) = Upto(blocks, Len(r))
                       /\ part[Len(r)] = poolTrie[Upto(blocks, Len(r))]
    BY <1>6, <1>8, <1>15, <2>2
  <2>4. CASE r \in path
    <3>1. Len(r) <= n /\ r = Upto(blocks, Len(r))
      BY <1>14, <2>4
    <3>2. poolTable'[h][r] = part[Len(r)]
      BY <2>1, <2>3, <3>1
    <3> QED
      BY <2>3, <2>4, <3>1, <3>2
  <2>5. CASE r \notin path
    <3>1. ~(Len(r) <= n /\ r = Upto(p, Len(r)))
      BY <1>14, <2>3, <2>5
    <3> QED
      BY <2>1, <2>5, <3>1, Zenon
  <2> QED
    BY <2>4, <2>5
<1>24. poolTable' = [poolTable EXCEPT ![h] = [r \in Prompt |-> IF r \in path THEN poolTrie[r] ELSE NoPage]]
  <2>1. PICK t, t2, u : /\ t = poolTable /\ t2 = poolTable'
                        /\ u = [r \in Prompt |-> IF r \in path THEN poolTrie[r] ELSE NoPage]
    OBVIOUS
  <2>2. u = [r \in Prompt |-> t2[h][r]]
    BY <1>23, <2>1
  <2>3. IsTables(t) /\ IsTables(t2)
    BY <2>1, TableShape, TableShapePrime, Zenon
  <2>4. \A g \in Holder : g # h => \A r \in Prompt : t2[g][r] = t[g][r]
    BY <1>22, <2>1
  <2>5. RowBecomes(t, t2, h, u)
    BY <2>2, <2>3, <2>4, Zenon DEF RowBecomes
  <2>6. t2 = [t EXCEPT ![h] = u]
    BY <2>5, RowUpdate, Zenon
  <2> QED
    BY <2>1, <2>6, Zenon
<1>25. freePagesSet \cap triePagesSet = {} /\ pageRefCount \in [Page -> Nat]
  BY <1>1 DEF PoolFacts!IInv, PoolFacts!Partition, PoolFacts!TypeOK
<1>26. triePagesSet' = triePagesSet \ picked
  BY <1>3, <1>25
<1>27. pageRefCount' = [q \in Page |-> IF q \in picked THEN pageRefCount[q] + 1 ELSE pageRefCount[q]]
  BY <1>3, <1>25
<1>28. Stacks'
  <2>1. Lists(freePages', freePagesSet \cap freePagesSet') /\ Lists(triePages', triePagesSet \cap triePagesSet')
    BY <1>1, <1>3, KeepLists DEF Stacks
  <2>2. freePagesSet \cap freePagesSet' = freePagesSet' /\ triePagesSet \cap triePagesSet' = triePagesSet'
    BY <1>3, <1>26
  <2> QED
    BY <2>1, <2>2 DEF Stacks
<1>29. PoolFacts!Restore(h, p)
  BY <1>3, <1>12, <1>13, <1>16, <1>17, <1>20, <1>21, <1>24, <1>26, <1>27, Zenon DEF PoolFacts!Restore
<1> QED
  BY <1>8, <1>10, <1>11, <1>28, <1>29
-----------------------------------------------------------------------------
\* The table and the tail when one page is appended to a full chain.
LEMMA ChainGrows ==
  ASSUME Chains, NEW h \in Holder, NEW q \in Page, LastPageFull(h),
         pageIndex' = [pageIndex EXCEPT ![h] = Append(@, q)], tokens' = tokens
  PROVE  /\ Chains'
         /\ poolTail[h] = NoPage
         /\ poolTable' = poolTable
         /\ poolTail' = [poolTail EXCEPT ![h] = q]
<1>1. PICK chain, more, len : chain = pageIndex[h] /\ more = Append(chain, q) /\ len = Len(tokens[h])
  OBVIOUS
<1>2. chain \in Seq(Page) /\ Len(chain) = len /\ len \in Nat
  BY <1>1, ChainFacts DEF ChainOf
<1>3. more \in Seq(Page) /\ Len(more) = len + 1 /\ more[len + 1] = q
  BY <1>1, <1>2, AppendProperties
<1>4. \A k \in 1..len : more[k] = chain[k]
  BY <1>1, <1>2, AppendProperties
<1>5. pageIndex'[h] = more /\ \A g \in Holder : g # h => pageIndex'[g] = pageIndex[g]
  BY <1>1 DEF Chains
<1>6. Chains'
  <2>1. pageIndex' \in [Holder -> Seq(Page)]
    BY <1>1, <1>3 DEF Chains
  <2>2. \A g \in Holder : Len(pageIndex'[g]) \in {Len(tokens'[g]), Len(tokens'[g]) + 1}
    BY <1>1, <1>3, <1>5 DEF Chains
  <2> QED
    BY <2>1, <2>2 DEF Chains
<1>7. \A g \in Holder : TableOf(g) /\ TableOf(g)'
  BY <1>6, TableIs, TableIsPrime
<1>8. ASSUME NEW r \in Prompt PROVE poolTable'[h][r] = poolTable[h][r]
  <2>1. Len(r) <= len => Len(r) \in 1..len
    BY <1>2, PromptFacts
  <2>2. poolTable[h][r] = IF Len(r) <= len /\ r = Upto(tokens[h], Len(r)) THEN chain[Len(r)] ELSE NoPage
    BY <1>1, <1>7 DEF TableOf
  <2>3. poolTable'[h][r] = IF Len(r) <= len /\ r = Upto(tokens[h], Len(r)) THEN more[Len(r)] ELSE NoPage
    <3>1. poolTable'[h][r] = IF Len(r) <= Len(tokens'[h]) /\ r = Upto(tokens'[h], Len(r))
                             THEN pageIndex'[h][Len(r)] ELSE NoPage
      BY <1>7, Zenon DEF TableOf
    <3>2. tokens'[h] = tokens[h] /\ Len(tokens'[h]) = len /\ pageIndex'[h] = more
      BY <1>1, <1>5
    <3> QED
      BY <3>1, <3>2
  <2> QED
    BY <1>4, <2>1, <2>2, <2>3
<1>9. \A g \in Holder : \A r \in Prompt : poolTable'[g][r] = poolTable[g][r]
  BY <1>5, <1>7, <1>8 DEF TableOf
<1>10. poolTable' = poolTable
  <2>1. PICK t, t2 : t = poolTable /\ t2 = poolTable'
    OBVIOUS
  <2>2. IsTables(t) /\ IsTables(t2)
    BY <2>1, TableShape, TableShapePrime, Zenon
  <2>3. \A g \in Holder : \A r \in Prompt : t2[g][r] = t[g][r]
    BY <1>9, <2>1
  <2>4. t2 = [g \in Holder |-> [r \in Prompt |-> t[g][r]]]
    BY <2>2, <2>3 DEF IsTables
  <2> QED
    BY <2>1, <2>2, <2>4, Zenon DEF IsTables
<1>11. poolTail[h] = NoPage
  BY <1>1, <1>2, <1>7 DEF TableOf
<1>12. poolTail'[h] = q /\ \A g \in Holder : g # h => poolTail'[g] = poolTail[g]
  <2>1. poolTail'[h] = q
    BY <1>1, <1>2, <1>3, <1>5, <1>7 DEF TableOf
  <2>2. \A g \in Holder : g # h => poolTail'[g] = poolTail[g]
    BY <1>5, <1>7 DEF TableOf
  <2> QED
    BY <2>1, <2>2
<1>13. poolTail' = [poolTail EXCEPT ![h] = q]
  BY <1>12, TableShape, TableShapePrime
<1> QED
  BY <1>6, <1>10, <1>11, <1>13

\* The nodes below the one of a page, as the prompts they spell.
LEMMA Below ==
  ASSUME Nodes, NEW q \in Page, pageToTrieNode[q] # Root
  PROVE  /\ poolNodeOf[q] \in Prompt /\ poolNodeOf[q] # Root
         /\ pageToTrieNode[q] \in DOMAIN trieNodes
         /\ \A p \in Prompt : SpelledIn(trieNodes, p) =>
              /\ HashPath(p) = pageToTrieNode[q] <=> p = poolNodeOf[q]
              /\ HashPath(p) \in NodesBelow(pageToTrieNode[q]) <=> <<poolNodeOf[q], p>> \in Longer
<1>1. PICK p0, node : p0 = poolNodeOf[q] /\ node = pageToTrieNode[q]
  OBVIOUS
<1>2. /\ p0 \in Prompt /\ p0 # Root /\ node \in DOMAIN trieNodes
      /\ HashPath(p0) = node /\ SpelledIn(trieNodes, p0)
  <2>1. node \in DOMAIN trieNodes
    BY <1>1 DEF Nodes
  <2>2. poolNodeOf = NodeOf(trieNodes, pageToTrieNode)
    BY PoolNodeOfIs DEF Nodes
  <2>3. /\ p0 \in Prompt \cup {Root} /\ p0 # Root
        /\ \A p \in Prompt : p0 = p <=> node = HashPath(p) /\ SpelledIn(trieNodes, p)
    BY <1>1, <2>2, NodeOfMeans DEF Nodes
  <2> QED
    BY <2>1, <2>3
<1>3. ASSUME NEW p \in Prompt, SpelledIn(trieNodes, p)
      PROVE  /\ HashPath(p) = node <=> p = p0
             /\ HashPath(p) \in NodesBelow(node) <=> <<p0, p>> \in Longer
  <2>1. HashPath(p) = node <=> p = p0
    BY <1>2, <1>3, SpelledUnique
  <2>2. HashPath(p) \in DOMAIN trieNodes /\ Len(p) \in Nat \ {0} /\ Len(p0) \in Nat \ {0}
    BY <1>2, <1>3, TrieOfMeans, PromptFacts DEF Nodes
  <2>3. HashPath(p) \in NodesBelow(node) <=> IsStrictPrefix(HashPath(p0), HashPath(p))
    BY <1>2, <2>2 DEF NodesBelow
  <2>4. HashPath(p) \in NodesBelow(node) <=>
          Len(p0) < Len(p) /\ HashPath(p0) = HashPath(Upto(p, Len(p0)))
    BY <1>2, <2>3, PathStrict
  <2>5. <<p0, p>> \in Longer <=> Len(p0) < Len(p) /\ p0 = Upto(p, Len(p0))
    BY <1>2, LongerDef
  <2>6. ASSUME Len(p0) < Len(p), HashPath(p0) = HashPath(Upto(p, Len(p0)))
        PROVE  p0 = Upto(p, Len(p0))
    <3>1. Len(p0) \in 1..Len(p)
      BY <2>2, <2>6
    <3>2. Upto(p, Len(p0)) \in Prompt /\ SpelledIn(trieNodes, Upto(p, Len(p0)))
      BY <1>3, <3>1, PromptFacts, SpelledUpto
    <3> QED
      BY <1>2, <2>6, <3>2, SpelledUnique
  <2>7. HashPath(p) \in NodesBelow(node) <=> <<p0, p>> \in Longer
    BY <2>4, <2>5, <2>6
  <2> QED
    BY <2>1, <2>7
<1> QED
  BY <1>1, <1>2, <1>3

\* What goes with the node of page q and the nodes below it.
GoneWith(q) == {pageToTrieNode[q]} \cup NodesBelow(pageToTrieNode[q])

LostWith(q) == {trieNodes[n].pageId : n \in GoneWith(q)}

\* Removing a node with those below it is removing the prompts from that node on.
LEMMA EvictLemma ==
  ASSUME Nodes, PoolFacts!IInv, NEW q \in Page, pageToTrieNode[q] # Root,
         trieNodes' = WithoutNodes(GoneWith(q)),
         pageToTrieNode' = Unmap(LostWith(q)),
         UNCHANGED <<pageTimestamp, currentTimestamp>>
  PROVE  /\ Nodes'
         /\ LostWith(q) = {poolTrie[p] : p \in PoolFacts!Subtree(poolNodeOf[q])} \ {NoPage}
         /\ poolTrie' = [p \in Prompt |-> IF p \in PoolFacts!Subtree(poolNodeOf[q])
                                          THEN NoPage ELSE poolTrie[p]]
         /\ poolNodeOf' = [x \in Page |-> IF x \in LostWith(q) THEN Root ELSE poolNodeOf[x]]
<1>1. PICK N, N2, m, m2, p0, R, lost, gone :
        /\ N = trieNodes /\ N2 = trieNodes' /\ m = pageToTrieNode /\ m2 = pageToTrieNode'
        /\ p0 = poolNodeOf[q] /\ R = GoneWith(q) /\ lost = LostWith(q)
        /\ gone = PoolFacts!Subtree(poolNodeOf[q])
  OBVIOUS
<1>2. /\ p0 \in Prompt /\ m[q] \in DOMAIN N
      /\ \A p \in Prompt : SpelledIn(N, p) =>
           /\ HashPath(p) = m[q] <=> p = p0
           /\ HashPath(p) \in NodesBelow(m[q]) <=> <<p0, p>> \in Longer
  BY <1>1, Below
<1>3. WellSpelled(N) /\ m \in [Page -> DOMAIN N \cup {Root}] /\ Inverses(N, m)
  BY <1>1, BackLinks DEF Nodes
<1>4. R \subseteq DOMAIN N
  BY <1>1, <1>2 DEF GoneWith, NodesBelow
<1>5. lost = {N[n].pageId : n \in R}
  BY <1>1 DEF LostWith
<1>6. N2 = [n \in DOMAIN N \ R |-> N[n]]
  BY <1>1 DEF WithoutNodes
<1>7. m2 = [x \in Page |-> IF x \in lost THEN Root ELSE m[x]]
  BY <1>1 DEF Unmap
<1>8. ASSUME NEW p \in Prompt, SpelledIn(N, p)
      PROVE  HashPath(p) \in R <=> p \in gone
  BY <1>1, <1>2, <1>8 DEF GoneWith, PoolFacts!Subtree
<1>9. ASSUME NEW p \in Prompt, NEW i \in 1..Len(p), Upto(p, i) \in gone
      PROVE  p \in gone
  <2>1. PICK u : u = Upto(p, i)
    OBVIOUS
  <2>2. u \in Prompt /\ Len(u) = i /\ Len(p) \in Nat /\ Upto(p, Len(p)) = p
    BY <2>1, PromptFacts
  <2>3. u = p \/ <<u, p>> \in Longer
    <3>1. CASE i = Len(p)
      BY <2>1, <2>2, <3>1
    <3>2. CASE i # Len(p)
      <4>1. Len(u) < Len(p) /\ u = Upto(p, Len(u))
        BY <2>1, <2>2, <3>2
      <4> QED
        BY <2>2, <4>1, LongerDef
    <3> QED
      BY <3>1, <3>2
  <2>4. u = p0 \/ <<p0, u>> \in Longer
    BY <1>1, <1>9, <2>1 DEF PoolFacts!Subtree
  <2>5. p = p0 \/ <<p0, p>> \in Longer
    BY <1>2, <2>2, <2>3, <2>4, PoolAssumed DEF PoolFacts!PagePoolAssumption
  <2> QED
    BY <1>1, <2>5 DEF PoolFacts!Subtree
<1>10. ASSUME NEW p \in Prompt
       PROVE  SpelledIn(N2, p) <=> SpelledIn(N, p) /\ p \notin gone
  <2>1. ASSUME SpelledIn(N2, p) PROVE SpelledIn(N, p) /\ p \notin gone
    <3>1. ASSUME NEW i \in 1..Len(p)
          PROVE  /\ HashPath(Upto(p, i)) \in DOMAIN N /\ HashPath(Upto(p, i)) \notin R
                 /\ N[HashPath(Upto(p, i))].extraKey = ExtraKey[p[i]]
      <4>1. PICK n : n = HashPath(Upto(p, i))
        OBVIOUS
      <4>2. n \in DOMAIN N2 /\ N2[n].extraKey = ExtraKey[p[i]]
        BY <2>1, <4>1, Zenon DEF SpelledIn
      <4>3. n \in DOMAIN N /\ n \notin R /\ N2[n] = N[n]
        BY <1>6, <4>2
      <4> QED
        BY <4>1, <4>2, <4>3
    <3>2. SpelledIn(N, p)
      BY <3>1 DEF SpelledIn
    <3>3. Len(p) \in 1..Len(p) /\ Upto(p, Len(p)) = p
      BY PromptFacts
    <3>4. HashPath(p) \notin R
      BY <3>1, <3>3
    <3> QED
      BY <1>8, <3>2, <3>4
  <2>2. ASSUME SpelledIn(N, p), p \notin gone PROVE SpelledIn(N2, p)
    <3> SUFFICES ASSUME NEW i \in 1..Len(p)
                 PROVE  /\ HashPath(Upto(p, i)) \in DOMAIN N2
                        /\ N2[HashPath(Upto(p, i))].extraKey = ExtraKey[p[i]]
      BY DEF SpelledIn
    <3>1. PICK n : n = HashPath(Upto(p, i))
      OBVIOUS
    <3>2. n \in DOMAIN N /\ N[n].extraKey = ExtraKey[p[i]]
      BY <2>2, <3>1, Zenon DEF SpelledIn
    <3>3. Upto(p, i) \in Prompt /\ SpelledIn(N, Upto(p, i))
      BY <2>2, SpelledUpto, PromptFacts
    <3>4. n \notin R
      BY <1>8, <1>9, <2>2, <3>1, <3>3
    <3>5. n \in DOMAIN N2 /\ N2[n] = N[n]
      BY <1>6, <3>2, <3>4
    <3> QED
      BY <3>1, <3>2, <3>5
  <2> QED
    BY <2>1, <2>2
<1>11. WellSpelled(N2)
  <2> SUFFICES ASSUME NEW n \in DOMAIN N2
               PROVE  N2[n].pageId \in Page /\ \E p \in Prompt : HashPath(p) = n /\ SpelledIn(N2, p)
    BY DEF WellSpelled
  <2>1. n \in DOMAIN N /\ n \notin R /\ N2[n] = N[n]
    BY <1>6
  <2>2. N[n].pageId \in Page
    BY <1>3, <2>1 DEF WellSpelled
  <2>3. PICK p \in Prompt : HashPath(p) = n /\ SpelledIn(N, p)
    BY <1>3, <2>1 DEF WellSpelled
  <2>4. SpelledIn(N2, p)
    BY <1>8, <1>10, <2>1, <2>3
  <2> QED
    BY <2>1, <2>2, <2>3, <2>4
<1>12. ASSUME NEW x \in Page, x \notin lost, m[x] # Root
       PROVE  m[x] \in DOMAIN N2
  <2>1. m[x] \in DOMAIN N
    BY <1>3, <1>12
  <2>2. N[m[x]].pageId = x
    BY <1>3, <2>1 DEF Inverses
  <2>3. m[x] \notin R
    BY <1>5, <1>12, <2>2
  <2> QED
    BY <1>6, <2>1, <2>3
<1>13. m2 \in [Page -> DOMAIN N2 \cup {Root}]
  BY <1>7, <1>12
<1>14. Nodes'
  <2>1. \A n \in DOMAIN N2 : N2[n].timestamp = pageTimestamp[N2[n].pageId]
    <3> SUFFICES ASSUME NEW n \in DOMAIN N2 PROVE N2[n].timestamp = pageTimestamp[N2[n].pageId]
      OBVIOUS
    <3>1. n \in DOMAIN N /\ N2[n] = N[n]
      BY <1>6
    <3> QED
      BY <1>1, <3>1 DEF Nodes
  <2> QED
    BY <1>1, <1>11, <1>13, <2>1 DEF Nodes
<1>15. /\ poolTrie = TrieOf(N) /\ poolTrie' = TrieOf(N2)
       /\ poolNodeOf = NodeOf(N, m) /\ poolNodeOf' = NodeOf(N2, m2)
  <2>1. poolTrie = TrieOf(N) /\ poolTrie' = TrieOf(N2)
    BY <1>1, PoolTrieIs
  <2>2. poolNodeOf = NodeOf(N, m)
    BY <1>1, <1>3, PoolNodeOfIs
  <2>3. poolNodeOf' = NodeOf(N2, m2)
    BY <1>1, <1>11, <1>13, PoolNodeOfIsPrime
  <2> QED
    BY <2>1, <2>2, <2>3
<1>16. lost = {poolTrie[p] : p \in gone} \ {NoPage}
  <2>1. ASSUME NEW p \in gone, poolTrie[p] # NoPage PROVE poolTrie[p] \in lost
    <3>1. p \in Prompt
      BY <1>1 DEF PoolFacts!Subtree
    <3>2. SpelledIn(N, p) /\ poolTrie[p] = N[HashPath(p)].pageId
      BY <1>3, <1>15, <2>1, <3>1, TrieOfMeans
    <3>3. HashPath(p) \in R
      BY <1>8, <2>1, <3>1, <3>2
    <3> QED
      BY <1>5, <3>2, <3>3
  <2>2. ASSUME NEW n \in R
        PROVE  N[n].pageId # NoPage /\ \E p \in gone : N[n].pageId = poolTrie[p]
    <3>1. n \in DOMAIN N
      BY <1>4
    <3>2. PICK p \in Prompt : HashPath(p) = n /\ SpelledIn(N, p)
      BY <1>3, <3>1 DEF WellSpelled
    <3>3. p \in gone
      BY <1>8, <2>2, <3>2
    <3>4. poolTrie[p] = N[n].pageId
      BY <1>3, <1>15, <3>2, TrieOfMeans
    <3>5. N[n].pageId # NoPage
      BY <1>3, <3>1, PoolAssumed DEF WellSpelled, PoolFacts!PagePoolAssumption
    <3> QED
      BY <3>3, <3>4, <3>5
  <2>3. \A x \in lost : x # NoPage /\ \E p \in gone : x = poolTrie[p]
    BY <1>5, <2>2
  <2> QED
    BY <2>1, <2>3
<1>17. poolTrie' = [p \in Prompt |-> IF p \in gone THEN NoPage ELSE poolTrie[p]]
  <2>1. ASSUME NEW p \in Prompt
        PROVE  TrieOf(N2)[p] = IF p \in gone THEN NoPage ELSE TrieOf(N)[p]
    <3>1. CASE SpelledIn(N2, p)
      <4>1. /\ TrieOf(N2)[p] = N2[HashPath(p)].pageId /\ HashPath(p) \in DOMAIN N2
            /\ TrieOf(N)[p] = N[HashPath(p)].pageId /\ p \notin gone
        BY <1>3, <1>10, <1>11, <3>1, TrieOfMeans
      <4>2. N2[HashPath(p)] = N[HashPath(p)]
        BY <1>6, <4>1
      <4> QED
        BY <4>1, <4>2
    <3>2. CASE ~SpelledIn(N2, p)
      <4>1. TrieOf(N2)[p] = NoPage
        BY <1>11, <3>2, TrieOfMeans
      <4>2. p \in gone \/ TrieOf(N)[p] = NoPage
        BY <1>3, <1>10, <3>2, TrieOfMeans
      <4> QED
        BY <4>1, <4>2
    <3> QED
      BY <3>1, <3>2
  <2>2. DOMAIN TrieOf(N2) = Prompt /\ TrieOf(N2) = [p \in Prompt |-> TrieOf(N2)[p]]
    BY DEF TrieOf
  <2> QED
    BY <1>15, <2>1, <2>2
<1>18. poolNodeOf' = [x \in Page |-> IF x \in lost THEN Root ELSE poolNodeOf[x]]
  <2>1. PICK F : F = [x \in Page |-> IF x \in lost THEN Root ELSE NodeOf(N, m)[x]]
    OBVIOUS
  <2>2. F \in [Page -> Prompt \cup {Root}]
    BY <1>3, <2>1, NodeOfMeans
  <2>3. ASSUME NEW x \in Page, NEW p \in Prompt
        PROVE  F[x] = p <=> m2[x] = HashPath(p) /\ SpelledIn(N2, p)
    <3>1. p # Root /\ HashPath(p) # Root
      BY PathFacts, PoolAssumed DEF PoolFacts!PagePoolAssumption
    <3>2. CASE x \in lost
      BY <1>7, <2>1, <3>1, <3>2
    <3>3. CASE x \notin lost
      <4>1. F[x] = NodeOf(N, m)[x] /\ m2[x] = m[x]
        BY <1>7, <2>1, <3>3
      <4>2. NodeOf(N, m)[x] = p <=> m[x] = HashPath(p) /\ SpelledIn(N, p)
        BY <1>3, NodeOfMeans
      <4>3. ASSUME m[x] = HashPath(p), SpelledIn(N, p) PROVE p \notin gone
        <5>1. HashPath(p) \notin R
          BY <1>6, <1>12, <3>1, <3>3, <4>3
        <5> QED
          BY <1>8, <4>3, <5>1
      <4> QED
        BY <1>10, <4>1, <4>2, <4>3
    <3> QED
      BY <3>2, <3>3
  <2>4. NodeOf(N2, m2) = F
    BY <1>11, <1>13, <2>2, <2>3, NodeOfIs
  <2> QED
    BY <1>15, <2>1, <2>4
<1> QED
  BY <1>1, <1>14, <1>16, <1>17, <1>18

\* GetUnusedPageIndex is the pool's Acquire, whichever of its branches it takes.
LEMMA GetStep ==
  ASSUME Linked, NEW h \in Holder, GetUnusedPageIndex(h)
  PROVE  /\ Stacks' /\ Chains' /\ Nodes'
         /\ PoolFacts!Acquire(h)
<1>1. Stacks /\ Chains /\ Nodes /\ PoolFacts!IInv
  BY DEF Linked
<1>2. PICK scanned : scanned = {i \in DOMAIN triePages :
                                  \/ pageToTrieNode[triePages[i]] = Root
                                  \/ NodesBelow(pageToTrieNode[triePages[i]]) = {}}
  OBVIOUS
<1>3. /\ freePagesSet \subseteq Page /\ triePagesSet \subseteq Page
      /\ freePagesSet \cap triePagesSet = {}
      /\ poolTrie \in [Prompt -> Page \cup {NoPage}]
      /\ poolNodeOf \in [Page -> Prompt \cup {Root}]
      /\ \A x \in triePagesSet : poolNodeOf[x] # Root
  BY <1>1 DEF PoolFacts!IInv, PoolFacts!TypeOK, PoolFacts!Partition, PoolFacts!TrieInverse
<1>4. \A x \in Page : poolNodeOf[x] = Root <=> pageToTrieNode[x] = Root
  BY <1>1, PoolNodeOfIs, NodeOfMeans DEF Nodes
<1>5. /\ Lists(freePages, freePagesSet) /\ Lists(triePages, triePagesSet)
      /\ triePages \in Seq(Page) /\ Len(triePages) \in Nat /\ DOMAIN triePages = 1..Len(triePages)
      /\ \A i \in 1..Len(triePages) : triePages[i] \in triePagesSet
      /\ \A x \in triePagesSet : \E i \in 1..Len(triePages) : triePages[i] = x
  BY <1>1, ListsDef, LenProperties DEF Stacks
<1>6. ~(triePages # <<>> /\ pageToTrieNode[Last(triePages)] = Root)
  <2> SUFFICES ASSUME triePages # <<>> PROVE pageToTrieNode[Last(triePages)] # Root
    OBVIOUS
  <2>1. Last(triePages) \in triePagesSet
    BY <1>5, FrontLists
  <2> QED
    BY <1>3, <1>4, <2>1
<1>7. PICK q \in Page :
        /\ IF freePages # <<>> THEN PickFree(q)
           ELSE IF scanned # {} THEN PickLeaf(q, Max(scanned))
           ELSE PickInner(q)
        /\ pageRefCount' = [pageRefCount EXCEPT ![q] = 1]
        /\ pageIndex' = [pageIndex EXCEPT ![h] = Append(@, q)]
        /\ content' = [content EXCEPT ![q] = Root]
  BY <1>2, <1>6, Zenon DEF GetUnusedPageIndex
<1>8. LastPageFull(h) /\ UNCHANGED <<pageTimestamp, currentTimestamp, tokens>> /\ FreePageCount > 0
  BY DEF GetUnusedPageIndex
<1>9. /\ Chains' /\ poolTail[h] = NoPage
      /\ poolTable' = poolTable /\ poolTail' = [poolTail EXCEPT ![h] = q]
  BY <1>1, <1>7, <1>8, ChainGrows
<1>10. PICK gone, lost : gone = PoolFacts!Evicted(q) /\ lost = {poolTrie[p] : p \in gone} \ {NoPage}
  OBVIOUS
<1>11. ASSUME q \in PoolFacts!Eligible,
              freePagesSet' = (freePagesSet \cup (triePagesSet \cap lost)) \ {q},
              triePagesSet' = triePagesSet \ (lost \cup {q}),
              poolTrie' = [p \in Prompt |-> IF p \in gone THEN NoPage ELSE poolTrie[p]],
              poolNodeOf' = [x \in Page |-> IF x \in lost THEN Root ELSE poolNodeOf[x]]
       PROVE  PoolFacts!Acquire(h)
  BY <1>7, <1>9, <1>10, <1>11, Zenon DEF PoolFacts!Acquire
<1>12. CASE freePages # <<>>
  <2>1. PickFree(q)
    BY <1>7, <1>12
  <2>2. /\ q = Last(freePages) /\ freePages' = Front(freePages) /\ triePages' = triePages
        /\ freePagesSet' = freePagesSet \ {q} /\ triePagesSet' = triePagesSet
        /\ UNCHANGED <<trieNodes, pageToTrieNode>>
    BY <1>12, <2>1 DEF PickFree
  <2>3. q \in freePagesSet /\ Lists(freePages', freePagesSet')
    BY <1>5, <1>12, <2>2, FrontLists
  <2>4. Stacks'
    BY <1>5, <2>2, <2>3 DEF Stacks
  <2>5. Nodes' /\ UNCHANGED <<poolTrie, poolNodeOf>>
    <3>1. Nodes'
      BY <1>1, <1>8, <2>2 DEF Nodes
    <3> QED
      BY <1>1, <2>2, <3>1, SameTrie
  <2>6. gone = {} /\ lost = {}
    BY <1>10, <2>3 DEF PoolFacts!Evicted
  <2>7. q \in PoolFacts!Eligible
    BY <2>3 DEF PoolFacts!Eligible
  <2>8. /\ freePagesSet' = (freePagesSet \cup (triePagesSet \cap lost)) \ {q}
        /\ triePagesSet' = triePagesSet \ (lost \cup {q})
    BY <1>3, <2>2, <2>3, <2>6
  <2>9. /\ poolTrie' = [p \in Prompt |-> IF p \in gone THEN NoPage ELSE poolTrie[p]]
        /\ poolNodeOf' = [x \in Page |-> IF x \in lost THEN Root ELSE poolNodeOf[x]]
    BY <1>3, <2>5, <2>6
  <2> QED
    BY <1>9, <1>11, <2>4, <2>5, <2>7, <2>8, <2>9
<1>13. CASE freePages = <<>>
  <2>1. freePagesSet = {}
    BY <1>5, <1>13, ListsDef, EmptySeq
  <2>2. IF scanned # {} THEN PickLeaf(q, Max(scanned)) ELSE PickInner(q)
    BY <1>7, <1>13, Zenon
  <2>3. triePages # <<>>
    BY <1>8, <1>13, EmptySeq DEF FreePageCount
  <2>4. \A x \in triePagesSet : pageToTrieNode[x] # Root
    BY <1>3, <1>4
  <2>5. ASSUME q \in triePagesSet,
               trieNodes' = WithoutNodes(GoneWith(q)), pageToTrieNode' = Unmap(LostWith(q))
        PROVE  /\ Nodes' /\ q \in LostWith(q)
               /\ q \notin freePagesSet
               /\ gone = PoolFacts!Subtree(poolNodeOf[q])
               /\ lost = LostWith(q)
               /\ poolTrie' = [p \in Prompt |-> IF p \in gone THEN NoPage ELSE poolTrie[p]]
               /\ poolNodeOf' = [x \in Page |-> IF x \in lost THEN Root ELSE poolNodeOf[x]]
    <3>1. pageToTrieNode[q] # Root /\ poolNodeOf[q] # Root /\ q \notin freePagesSet
      BY <1>3, <2>1, <2>4, <2>5
    <3>2. gone = PoolFacts!Subtree(poolNodeOf[q])
      BY <1>10, <3>1 DEF PoolFacts!Evicted
    <3>3. /\ Nodes'
          /\ LostWith(q) = {poolTrie[p] : p \in gone} \ {NoPage}
          /\ poolTrie' = [p \in Prompt |-> IF p \in gone THEN NoPage ELSE poolTrie[p]]
          /\ poolNodeOf' = [x \in Page |-> IF x \in LostWith(q) THEN Root ELSE poolNodeOf[x]]
      BY <1>1, <1>8, <2>5, <3>1, <3>2, EvictLemma
    <3>4. q \in LostWith(q)
      <4>1. pageToTrieNode[q] \in DOMAIN trieNodes
        BY <1>1, <3>1, Below
      <4>2. trieNodes[pageToTrieNode[q]].pageId = q
        BY <1>1, <4>1, BackLinks DEF Inverses
      <4> QED
        BY <4>2 DEF LostWith, GoneWith
    <3> QED
      BY <1>10, <3>1, <3>2, <3>3, <3>4, Zenon
  <2>6. CASE scanned # {}
    <3>1. PICK i : i = Max(scanned)
      OBVIOUS
    <3>2. i \in scanned /\ i \in 1..Len(triePages)
      <4>1. scanned \in SUBSET (0..Len(triePages))
        BY <1>2, <1>5
      <4> QED
        BY <1>2, <1>5, <2>6, <3>1, <4>1, MaxOf
    <3>3. PickLeaf(q, i)
      BY <2>2, <2>6, <3>1
    <3>4. q = triePages[i] /\ q \in triePagesSet /\ pageToTrieNode[q] # Root
      BY <1>5, <2>4, <3>2, <3>3 DEF PickLeaf
    <3>5. NodesBelow(pageToTrieNode[q]) = {}
      BY <1>2, <3>2, <3>4
    <3>6. /\ GoneWith(q) = {pageToTrieNode[q]} /\ LostWith(q) = {trieNodes[pageToTrieNode[q]].pageId}
      BY <3>5 DEF GoneWith, LostWith
    <3>7. pageToTrieNode[q] \in DOMAIN trieNodes
      BY <1>1, <3>4, Below
    <3>8. LostWith(q) = {q}
      BY <1>1, <3>6, <3>7, BackLinks DEF Inverses
    <3>9. /\ triePages' = SwapRemove(triePages, i) /\ triePagesSet' = triePagesSet \ {q}
          /\ trieNodes' = WithoutNodes(GoneWith(q)) /\ pageToTrieNode' = Unmap(LostWith(q))
          /\ UNCHANGED <<freePages, freePagesSet>>
      BY <3>3, <3>6, <3>8 DEF PickLeaf
    <3>10. Stacks'
      BY <1>5, <3>2, <3>4, <3>9, SwapRemoveLists DEF Stacks
    <3>11. /\ Nodes' /\ q \notin freePagesSet /\ gone = PoolFacts!Subtree(poolNodeOf[q])
           /\ lost = {q}
           /\ poolTrie' = [p \in Prompt |-> IF p \in gone THEN NoPage ELSE poolTrie[p]]
           /\ poolNodeOf' = [x \in Page |-> IF x \in lost THEN Root ELSE poolNodeOf[x]]
      BY <2>5, <3>4, <3>8, <3>9
    <3>12. q \in PoolFacts!Eligible
      <4>1. ASSUME NEW p \in gone, p # poolNodeOf[q] PROVE poolTrie[p] = NoPage
        <5>1. p \in Prompt /\ <<poolNodeOf[q], p>> \in Longer
          BY <3>11, <4>1 DEF PoolFacts!Subtree
        <5>2. ~SpelledIn(trieNodes, p)
          BY <1>1, <3>4, <3>5, <5>1, Below
        <5> QED
          BY <1>1, <5>1, <5>2, PoolTrieIs, TrieOfMeans DEF Nodes
      <4>2. q \in PoolFacts!Leaves
        BY <1>3, <3>4, <3>11, <4>1 DEF PoolFacts!Leaves
      <4> QED
        BY <2>1, <4>2 DEF PoolFacts!Eligible
    <3>13. /\ freePagesSet' = (freePagesSet \cup (triePagesSet \cap lost)) \ {q}
           /\ triePagesSet' = triePagesSet \ (lost \cup {q})
      BY <2>1, <3>9, <3>11
    <3> QED
      BY <1>9, <1>11, <3>10, <3>11, <3>12, <3>13
  <2>7. CASE scanned = {}
    <3>1. PickInner(q)
      BY <2>2, <2>7
    <3>2. PICK node, below, deep, freed :
            /\ node = pageToTrieNode[q]
            /\ below = NodesBelow(node)
            /\ deep = {trieNodes[n].pageId : n \in below}
            /\ freed = deep \cap (triePagesSet \ {q})
      OBVIOUS
    <3>3. /\ q = Last(triePages)
          /\ \E order \in SetToSeqs(freed) : freePages' = freePages \o order
          /\ freePagesSet' = freePagesSet \cup freed
          /\ triePagesSet' = triePagesSet \ (freed \cup {q})
          /\ triePages' = Keep(Front(triePages), triePagesSet')
          /\ trieNodes' = WithoutNodes(below \cup {node})
          /\ pageToTrieNode' = Unmap(deep \cup {q})
      BY <3>1, <3>2, Zenon DEF PickInner
    <3>4. q \in triePagesSet /\ Lists(Front(triePages), triePagesSet \ {q})
      BY <1>5, <2>3, <3>3, FrontLists
    <3>5. pageToTrieNode[q] # Root /\ node \in DOMAIN trieNodes /\ trieNodes[node].pageId = q
      <4>1. pageToTrieNode[q] # Root
        BY <2>4, <3>4
      <4>2. node \in DOMAIN trieNodes
        BY <1>1, <3>2, <4>1, Below
      <4> QED
        BY <1>1, <3>2, <4>1, <4>2, BackLinks DEF Inverses
    <3>6. GoneWith(q) = below \cup {node} /\ LostWith(q) = deep \cup {q}
      <4>1. GoneWith(q) = below \cup {node}
        BY <3>2 DEF GoneWith
      <4>2. LostWith(q) = deep \cup {trieNodes[node].pageId}
        BY <3>2, <4>1 DEF LostWith
      <4> QED
        BY <3>5, <4>1, <4>2
    <3>7. /\ Nodes' /\ q \notin freePagesSet /\ gone = PoolFacts!Subtree(poolNodeOf[q])
          /\ lost = deep \cup {q}
          /\ poolTrie' = [p \in Prompt |-> IF p \in gone THEN NoPage ELSE poolTrie[p]]
          /\ poolNodeOf' = [x \in Page |-> IF x \in lost THEN Root ELSE poolNodeOf[x]]
      BY <2>5, <3>3, <3>4, <3>6
    <3>8. Lists(freePages', freePagesSet')
      <4>1. PICK order \in SetToSeqs(freed) : freePages' = freePages \o order
        BY <3>3
      <4>2. freed \in SUBSET Page /\ freePagesSet \cap freed = {}
        BY <1>3, <3>2
      <4>3. Lists(order, freed)
        BY <4>2, OrderLists
      <4> QED
        BY <1>5, <3>3, <4>1, <4>2, <4>3, ConcatLists
    <3>9. Lists(triePages', triePagesSet')
      <4>1. Lists(triePages', (triePagesSet \ {q}) \cap triePagesSet')
        BY <3>3, <3>4, KeepLists
      <4>2. (triePagesSet \ {q}) \cap triePagesSet' = triePagesSet'
        BY <3>3
      <4> QED
        BY <4>1, <4>2
    <3>10. Stacks'
      BY <3>8, <3>9 DEF Stacks
    <3>11. q \in PoolFacts!Eligible
      <4>1. ASSUME NEW x \in PoolFacts!Leaves PROVE FALSE
        <5>1. /\ x \in triePagesSet /\ x \in Page /\ pageToTrieNode[x] # Root
              /\ \A p \in PoolFacts!Subtree(poolNodeOf[x]) \ {poolNodeOf[x]} : poolTrie[p] = NoPage
          BY <1>3, <2>4, <4>1 DEF PoolFacts!Leaves
        <5>2. PICK i \in 1..Len(triePages) : triePages[i] = x
          BY <1>5, <5>1
        <5>3. NodesBelow(pageToTrieNode[x]) # {}
          BY <1>2, <1>5, <2>7, <5>2
        <5>4. PICK n \in NodesBelow(pageToTrieNode[x]) : TRUE
          BY <5>3
        <5>5. n \in DOMAIN trieNodes
          BY DEF NodesBelow
        <5>6. PICK p \in Prompt : HashPath(p) = n /\ SpelledIn(trieNodes, p)
          BY <1>1, <5>5 DEF Nodes, WellSpelled
        <5>7. <<poolNodeOf[x], p>> \in Longer /\ poolNodeOf[x] \in Prompt
          BY <1>1, <5>1, <5>4, <5>6, Below
        <5>8. p \in PoolFacts!Subtree(poolNodeOf[x]) /\ p # poolNodeOf[x]
          BY <5>7, PoolAssumed DEF PoolFacts!Subtree, PoolFacts!PagePoolAssumption
        <5>9. poolTrie[p] # NoPage
          BY <1>1, <5>6, PoolTrieIs, TrieOfMeans DEF Nodes
        <5> QED
          BY <5>1, <5>8, <5>9
      <4>2. PoolFacts!Stale = {}
        BY <1>3 DEF PoolFacts!Stale
      <4> QED
        BY <2>1, <3>4, <4>1, <4>2 DEF PoolFacts!Eligible
    <3>12. /\ freePagesSet' = (freePagesSet \cup (triePagesSet \cap lost)) \ {q}
           /\ triePagesSet' = triePagesSet \ (lost \cup {q})
      BY <3>2, <3>3, <3>4, <3>7
    <3> QED
      BY <1>9, <1>11, <3>7, <3>10, <3>11, <3>12
  <2> QED
    BY <2>6, <2>7
<1> QED
  BY <1>12, <1>13
-----------------------------------------------------------------------------
(* Record: what its loop has done after k pages, in closed form. *)

\* The loop's variables, as a record with these fields.
IsState(st) ==
  st = [free |-> st.free, trie |-> st.trie, freeSet |-> st.freeSet, trieSet |-> st.trieSet,
        map |-> st.map, stamp |-> st.stamp, nodes |-> st.nodes, stop |-> st.stop]

\* f is what Record's loop computes from the state `before'.
IsLoop(h, before, n, f) ==
  f = [i \in 0..n |-> IF i = 0 THEN before ELSE RecordPage(h, f[i - 1], i)]

\* The recursive function of Record's loop is defined.
LEMMA LoopExists ==
  ASSUME NEW h, NEW b, NEW n \in Nat
  PROVE  \E f : IsLoop(h, b, n, f)
<1> DEFINE Def(f, k) == f = [i \in 0..k |-> IF i = 0 THEN b ELSE RecordPage(h, f[i - 1], i)]
           Without == {k \in 0..n : ~\E f : Def(f, k)}
<1>1. Def([i \in 0..0 |-> b], 0)
  OBVIOUS
<1>2. ASSUME NEW k \in 0..n, k > 0, NEW f, Def(f, k - 1)
      PROVE  \E g : Def(g, k)
  <2> DEFINE next == RecordPage(h, f[k - 1], k)
             g == [i \in 0..k |-> IF i = k THEN next ELSE f[i]]
  <2>1. \A i \in 0..k - 1 : g[i] = f[i]
    BY <1>2
  <2>2. g[k] = next
    BY <1>2
  <2>3. \A i \in 0..k : g[i] = IF i = 0 THEN b ELSE RecordPage(h, g[i - 1], i)
    <3> SUFFICES ASSUME NEW i \in 0..k
                 PROVE  g[i] = IF i = 0 THEN b ELSE RecordPage(h, g[i - 1], i)
      OBVIOUS
    <3>1. CASE i = k
      <4>1. k - 1 \in 0..k - 1 /\ k # 0
        BY <1>2
      <4>2. g[k - 1] = f[k - 1]
        BY <2>1, <4>1
      <4> HIDE DEF g
      <4> QED
        BY <2>2, <3>1, <4>1, <4>2
    <3>2. CASE i # k
      <4>1. i \in 0..k - 1 /\ (i # 0 => i - 1 \in 0..k - 1)
        BY <3>2, <1>2
      <4>2. f[i] = IF i = 0 THEN b ELSE RecordPage(h, f[i - 1], i)
        BY <4>1, <1>2
      <4> HIDE DEF g, Def
      <4> QED
        BY <2>1, <4>1, <4>2
    <3> QED
      BY <3>1, <3>2
  <2>4. Def(g, k)
    BY <2>3
  <2> QED
    BY <2>4
<1> HIDE DEF Def
<1>3. Without = {}
  <2> SUFFICES ASSUME Without # {} PROVE FALSE
    OBVIOUS
  <2>1. Without \in SUBSET Nat
    OBVIOUS
  <2>2. PICK m \in Without : \A y \in Without : m <= y
    BY <2>1, LeastOf
  <2>3. m # 0 /\ m \in 0..n
    BY <1>1
  <2>4. m - 1 \in 0..n /\ m > 0 /\ m - 1 \notin Without
    BY <2>2, <2>3
  <2> QED
    BY <1>2, <2>3, <2>4
<1>4. PICK f : Def(f, n)
  BY <1>3
<1>5. IsLoop(h, b, n, f)
  BY <1>4, Zenon DEF Def, IsLoop
<1> QED
  BY <1>5

\* A run of the loop that was stopped does nothing more.
LEMMA RecordPageStops ==
  ASSUME NEW h, NEW i, NEW st, IsState(st),
         \/ st.stop
         \/ /\ HashPath(Upto(tokens[h], i)) \in DOMAIN st.nodes
            /\ st.nodes[HashPath(Upto(tokens[h], i))].extraKey # ExtraKey[tokens[h][i]]
  PROVE  RecordPage(h, st, i) = [st EXCEPT !.stop = TRUE]
  BY Zenon DEF RecordPage, Upto

\* The loop's Drop: one page of S leaves s, if there is any.
DropFrom(s, S) ==
  IF S = {} THEN s ELSE SwapRemove(s, CHOOSE j \in DOMAIN s : s[j] \in S)

\* The effect of RecordPage with the names of its LET.
RecordBody(st, path, extra, pid, old, oldIdle, fresh, waits) ==
  [st EXCEPT
      !.free = DropFrom(@ \o SetToSeq(oldIdle), fresh),
      !.freeSet = (@ \cup oldIdle) \ fresh,
      !.trie = DropFrom(@, oldIdle) \o SetToSeq(waits),
      !.trieSet = (@ \ oldIdle) \cup waits,
      !.map = [q \in Page |-> IF q = pid THEN path
                              ELSE IF q \in old THEN Root ELSE @[q]],
      !.stamp = [@ EXCEPT ![pid] = currentTimestamp + 1],
      !.nodes = [n \in DOMAIN @ \cup {path} |->
                   IF n = path
                   THEN [pageId |-> pid, timestamp |-> currentTimestamp + 1,
                         extraKey |-> extra]
                   ELSE @[n]]]

\* What a page of the loop does that was found in neither set.
RecordPlain(st, path, extra, pid, old, idle) ==
  [free |-> st.free \o SetToSeq(idle),
   trie |-> DropFrom(st.trie, idle) \o SetToSeq({}),
   freeSet |-> st.freeSet \cup idle,
   trieSet |-> st.trieSet \ idle,
   map |-> [q \in Page |-> IF q = pid THEN path ELSE IF q \in old THEN Root ELSE st.map[q]],
   stamp |-> [st.stamp EXCEPT ![pid] = currentTimestamp + 1],
   nodes |-> [n \in DOMAIN st.nodes \cup {path} |->
                IF n = path THEN [pageId |-> pid, timestamp |-> currentTimestamp + 1,
                                  extraKey |-> extra]
                ELSE st.nodes[n]],
   stop |-> st.stop]

\* Without a page to drop, Drop does nothing.
LEMMA DropNone == \A s : DropFrom(s, {}) = s
  BY DEF DropFrom

\* The effect of RecordPage when the page itself is not available.
LEMMA RecordBodyIs ==
  ASSUME NEW st, IsState(st), NEW path, NEW extra, NEW pid, NEW old, NEW idle
  PROVE  RecordBody(st, path, extra, pid, old, idle, {}, {}) =
           RecordPlain(st, path, extra, pid, old, idle)
<1>1. PICK f, t, fs, ts, m, s, n, e :
        st = [free |-> f, trie |-> t, freeSet |-> fs, trieSet |-> ts,
              map |-> m, stamp |-> s, nodes |-> n, stop |-> e]
  BY Zenon DEF IsState
<1>2. PICK f2 : f2 = f \o SetToSeq(idle)
  OBVIOUS
<1>3. PICK t2 : t2 = DropFrom(t, idle) \o SetToSeq({})
  OBVIOUS
<1>4. PICK fs2, ts2 : fs2 = fs \cup idle /\ ts2 = ts \ idle
  OBVIOUS
<1>5. PICK m2 : m2 = [q \in Page |-> IF q = pid THEN path ELSE IF q \in old THEN Root ELSE m[q]]
  OBVIOUS
<1>6. PICK s2 : s2 = [s EXCEPT ![pid] = currentTimestamp + 1]
  OBVIOUS
<1>7. PICK n2 : n2 = [y \in DOMAIN n \cup {path} |->
                        IF y = path THEN [pageId |-> pid, timestamp |-> currentTimestamp + 1,
                                          extraKey |-> extra]
                        ELSE n[y]]
  OBVIOUS
<1>8. /\ st.free = f /\ st.trie = t /\ st.freeSet = fs /\ st.trieSet = ts
      /\ st.map = m /\ st.stamp = s /\ st.nodes = n /\ st.stop = e
  BY <1>1
<1>9. RecordPlain(st, path, extra, pid, old, idle) =
        [free |-> f2, trie |-> t2, freeSet |-> fs2, trieSet |-> ts2,
         map |-> m2, stamp |-> s2, nodes |-> n2, stop |-> e]
  BY <1>2, <1>3, <1>4, <1>5, <1>6, <1>7, <1>8 DEF RecordPlain
<1>10. (fs \cup idle) \ {} = fs2 /\ (ts \ idle) \cup {} = ts2
  BY <1>4
<1>11. RecordBody(st, path, extra, pid, old, idle, {}, {}) =
        [st EXCEPT !.free = f2, !.freeSet = (fs \cup idle) \ {}, !.trie = t2,
                   !.trieSet = (ts \ idle) \cup {},
                   !.map = m2, !.stamp = s2, !.nodes = n2]
  BY <1>2, <1>3, <1>4, <1>5, <1>6, <1>7, <1>8, DropNone DEF RecordBody
<1> QED
  BY <1>1, <1>9, <1>10, <1>11

\* Page i of the loop is held, and its node is free or has its media key.
PageGoes(h, i, st, path, extra, pid, old, idle) ==
  /\ IsState(st) /\ st.stop = FALSE
  /\ path = HashPath(Upto(tokens[h], i)) /\ extra = ExtraKey[tokens[h][i]] /\ pid = pageIndex[h][i]
  /\ path \in DOMAIN st.nodes => st.nodes[path].extraKey = extra
  /\ old = IF path \in DOMAIN st.nodes /\ st.nodes[path].pageId # pid
           THEN {st.nodes[path].pageId} ELSE {}
  /\ idle = old \cap st.trieSet
  /\ pid \notin st.freeSet

\* One page of the loop, for a page that is held and so not available.
LEMMA RecordPageIs ==
  ASSUME NEW h, NEW i, NEW st, NEW path, NEW extra, NEW pid, NEW old, NEW idle,
         PageGoes(h, i, st, path, extra, pid, old, idle)
  PROVE  RecordPage(h, st, i) = RecordPlain(st, path, extra, pid, old, idle)
<1> USE DEF PageGoes
<1>1. PICK fresh : fresh = (IF st.map[pid] = Root THEN {pid} ELSE {}) \cap st.freeSet
  OBVIOUS
<1>2. fresh = {}
  BY <1>1
<1>3. PICK waits : waits = {q \in fresh : pageRefCount[q] = 0}
  OBVIOUS
<1>4. waits = {}
  BY <1>2, <1>3
<1>5. RecordPage(h, st, i) =
        IF st.stop \/ (/\ HashPath(SubSeq(tokens[h], 1, i)) \in DOMAIN st.nodes
                       /\ st.nodes[HashPath(SubSeq(tokens[h], 1, i))].extraKey # ExtraKey[tokens[h][i]])
        THEN [st EXCEPT !.stop = TRUE]
        ELSE LET node  == HashPath(SubSeq(tokens[h], 1, i))
                 page  == pageIndex[h][i]
                 found == node \in DOMAIN st.nodes
                 gone  == IF found /\ st.nodes[node].pageId # page
                          THEN {st.nodes[node].pageId} ELSE {}
                 held  == (IF st.map[page] = Root THEN {page} ELSE {}) \cap st.freeSet
             IN  RecordBody(st, node, ExtraKey[tokens[h][i]], page, gone, gone \cap st.trieSet,
                            held, {q \in held : pageRefCount[q] = 0})
  BY DEF RecordPage, RecordBody, DropFrom
<1>8. RecordPage(h, st, i) = RecordBody(st, path, extra, pid, old, idle, {}, {})
  <2>1. path = HashPath(SubSeq(tokens[h], 1, i))
    BY DEF Upto
  <2>2. RecordPage(h, st, i) = RecordBody(st, path, extra, pid, old, idle, fresh, waits)
    BY <1>1, <1>3, <1>5, <2>1
  <2> QED
    BY <1>2, <1>4, <2>2, Zenon
<1> QED
  BY <1>8, RecordBodyIs

\* The node and the nodes of the first k pages of h, and those of its pages.
Node(h, i) == HashPath(Upto(tokens[h], i))
NodesTo(h, k) == {Node(h, i) : i \in 1..k}
PagesTo(h, k) == {pageIndex[h][i] : i \in 1..k}

\* The pages that the nodes of the first k pages of h had instead.
Displaced(h, i) ==
  Node(h, i) \in DOMAIN trieNodes /\ trieNodes[Node(h, i)].pageId # pageIndex[h][i]
Old(h, k) == {trieNodes[Node(h, i)].pageId : i \in {j \in 1..k : Displaced(h, j)}}

\* The nodes that were there have the media keys of h's blocks.
Agrees(h, k) ==
  \A i \in 1..k : Node(h, i) \in DOMAIN trieNodes =>
                    trieNodes[Node(h, i)].extraKey = ExtraKey[tokens[h][i]]

SetsAt(h, k, st) ==
  /\ st.freeSet = freePagesSet \cup (triePagesSet \cap Old(h, k))
  /\ st.trieSet = triePagesSet \ Old(h, k)
  /\ Lists(st.free, st.freeSet) /\ Lists(st.trie, st.trieSet)

NodesAt(h, k, nodes) ==
  /\ DOMAIN nodes = DOMAIN trieNodes \cup NodesTo(h, k)
  /\ \A i \in 1..k :
       nodes[Node(h, i)] = [pageId |-> pageIndex[h][i], timestamp |-> currentTimestamp + 1,
                            extraKey |-> ExtraKey[tokens[h][i]]]
  /\ \A n \in DOMAIN trieNodes \ NodesTo(h, k) : nodes[n] = trieNodes[n]

MapAt(h, k, map) ==
  /\ map = [q \in Page |-> map[q]]
  /\ \A i \in 1..k : map[pageIndex[h][i]] = Node(h, i)
  /\ \A q \in Page \ PagesTo(h, k) : map[q] = IF q \in Old(h, k) THEN Root ELSE pageToTrieNode[q]

StampAt(h, k, stamp) ==
  /\ stamp \in [Page -> Int]
  /\ \A i \in 1..k : stamp[pageIndex[h][i]] = currentTimestamp + 1
  /\ \A q \in Page \ PagesTo(h, k) : stamp[q] = pageTimestamp[q]

StateAt(h, k, st) ==
  /\ IsState(st) /\ Agrees(h, k)
  /\ SetsAt(h, k, st) /\ NodesAt(h, k, st.nodes)
  /\ MapAt(h, k, st.map) /\ StampAt(h, k, st.stamp)

\* The nodes and the pages of one chain are distinct, and no other node has one
\* of its pages.
ChainNodes(h) ==
  \A i \in 1..Len(tokens[h]) :
    /\ Upto(tokens[h], i) \in Prompt /\ Len(Upto(tokens[h], i)) = i
    /\ Node(h, i) # Root
    /\ pageIndex[h][i] \in Page
    /\ pageIndex[h][i] \notin freePagesSet /\ pageIndex[h][i] \notin triePagesSet
    /\ content[pageIndex[h][i]] = Upto(tokens[h], i)
    /\ \A j \in 1..Len(tokens[h]) : /\ Node(h, i) = Node(h, j) => i = j
                                    /\ pageIndex[h][i] = pageIndex[h][j] => i = j
    /\ \A n \in DOMAIN trieNodes : trieNodes[n].pageId = pageIndex[h][i] => n = Node(h, i)

\* The inductive invariant makes it so.
LEMMA ChainNodesHold ==
  ASSUME Linked, NEW h \in Holder
  PROVE  ChainNodes(h)
<1>1. Stacks /\ Chains /\ Nodes /\ PoolFacts!IInv
  BY DEF Linked
<1>2. PICK len : len = Len(tokens[h])
  OBVIOUS
<1>3. /\ len \in Nat /\ Len(pageIndex[h]) \in Nat /\ len <= Len(pageIndex[h])
      /\ \A k \in 1..len : Upto(tokens[h], k) \in Prompt /\ Len(Upto(tokens[h], k)) = k
  BY <1>1, <1>2, ChainFacts DEF ChainOf
<1>4. ASSUME NEW i \in 1..len
      PROVE  /\ Upto(tokens[h], i) \in Prompt /\ Len(Upto(tokens[h], i)) = i
             /\ Node(h, i) # Root /\ Len(Node(h, i)) = i
             /\ pageIndex[h][i] \in Page
             /\ pageIndex[h][i] \notin freePagesSet /\ pageIndex[h][i] \notin triePagesSet
             /\ content[pageIndex[h][i]] = Upto(tokens[h], i)
  <2>1. i \in 1..Len(pageIndex[h])
    BY <1>3
  <2>2. Upto(tokens[h], i) \in Prompt /\ Len(Upto(tokens[h], i)) = i
    BY <1>3
  <2>3. Node(h, i) # Root /\ Len(Node(h, i)) = i
    BY <2>2, PathFacts DEF Node
  <2>4. content[pageIndex[h][i]] = Upto(tokens[h], i)
    BY <1>1, <1>2, ChainContent
  <2> QED
    BY <1>1, <2>1, <2>2, <2>3, <2>4, HeldBusy
<1>5. ASSUME NEW i \in 1..len, NEW j \in 1..len
      PROVE  /\ Node(h, i) = Node(h, j) => i = j
             /\ pageIndex[h][i] = pageIndex[h][j] => i = j
  <2>1. Len(Node(h, i)) = i /\ Len(Node(h, j)) = j
    BY <1>4
  <2>2. /\ content[pageIndex[h][i]] = Upto(tokens[h], i) /\ Len(Upto(tokens[h], i)) = i
        /\ content[pageIndex[h][j]] = Upto(tokens[h], j) /\ Len(Upto(tokens[h], j)) = j
    BY <1>4
  <2> QED
    BY <2>1, <2>2
<1>6. ASSUME NEW i \in 1..len, NEW n \in DOMAIN trieNodes, trieNodes[n].pageId = pageIndex[h][i]
      PROVE  n = Node(h, i)
  <2>1. PICK p \in Prompt : HashPath(p) = n /\ SpelledIn(trieNodes, p)
    BY <1>1 DEF Nodes, WellSpelled
  <2>2. poolTrie[p] = pageIndex[h][i] /\ poolTrie[p] # NoPage
    BY <1>1, <1>6, <2>1, PoolTrieIs, TrieOfMeans DEF Nodes
  <2>3. content[pageIndex[h][i]] = p
    BY <1>1, <2>2 DEF PoolFacts!IInv, PoolFacts!CacheCoherent
  <2> QED
    BY <1>4, <2>1, <2>3 DEF Node
<1> QED
  BY <1>2, <1>4, <1>5, <1>6 DEF ChainNodes

\* The numbers up to k are those before it and k.
LEMMA UpToNext ==
  ASSUME NEW k \in Nat \ {0}
  PROVE  /\ 1..k = (1..(k - 1)) \cup {k} /\ k \notin 1..(k - 1) /\ k \in 1..k
         /\ 1..(k - 1) \subseteq 1..k
  OBVIOUS

\* An iteration that does not stop goes from k - 1 recorded pages to k.
LEMMA RecordOne ==
  ASSUME Linked, NEW h \in Holder, NEW k \in 1..Len(tokens[h]),
         NEW st, StateAt(h, k - 1, st), st.stop = FALSE,
         Node(h, k) \in DOMAIN st.nodes => st.nodes[Node(h, k)].extraKey = ExtraKey[tokens[h][k]],
         NEW s2, s2 = RecordPage(h, st, k)
  PROVE  StateAt(h, k, s2) /\ s2.stop = FALSE
<1>1. Stacks /\ Chains /\ Nodes /\ PoolFacts!IInv
  BY DEF Linked
<1>2. PICK len, N, path, extra, pid :
        /\ len = Len(tokens[h]) /\ N = trieNodes
        /\ path = Node(h, k) /\ extra = ExtraKey[tokens[h][k]] /\ pid = pageIndex[h][k]
  OBVIOUS
<1>3. len \in Nat /\ k \in Nat \ {0} /\ k \in 1..len /\ 1..k \subseteq 1..len
  BY <1>1, <1>2, ChainFacts DEF ChainOf
<1>4. /\ 1..k = (1..(k - 1)) \cup {k} /\ k \notin 1..(k - 1) /\ k \in 1..k
      /\ 1..(k - 1) \subseteq 1..k /\ 1..(k - 1) \subseteq 1..len
  BY <1>3, UpToNext
<1>5. ChainNodes(h)
  BY ChainNodesHold
<1>6. /\ pid \in Page /\ pid \notin freePagesSet /\ pid \notin triePagesSet
      /\ \A i \in 1..(k - 1) : Node(h, i) # path /\ pageIndex[h][i] # pid
      /\ \A n \in DOMAIN N : trieNodes[n].pageId = pid => n = path
  BY <1>2, <1>3, <1>4, <1>5 DEF ChainNodes
<1>7. /\ IsState(st) /\ Agrees(h, k - 1) /\ SetsAt(h, k - 1, st) /\ NodesAt(h, k - 1, st.nodes)
      /\ MapAt(h, k - 1, st.map) /\ StampAt(h, k - 1, st.stamp)
  BY DEF StateAt
<1>8. path \notin NodesTo(h, k - 1) /\ pid \notin PagesTo(h, k - 1)
  BY <1>6 DEF NodesTo, PagesTo
<1>9. /\ path \in DOMAIN st.nodes <=> path \in DOMAIN N
      /\ path \in DOMAIN N => st.nodes[path] = N[path]
  BY <1>2, <1>7, <1>8 DEF NodesAt
<1>10. PICK old, idle :
         /\ old = (IF path \in DOMAIN st.nodes /\ st.nodes[path].pageId # pid
                   THEN {st.nodes[path].pageId} ELSE {})
         /\ idle = old \cap st.trieSet
  OBVIOUS
<1>11. old = IF Displaced(h, k) THEN {N[path].pageId} ELSE {}
  BY <1>2, <1>9, <1>10 DEF Displaced
<1>12. Old(h, k) = Old(h, k - 1) \cup old
  <2>1. CASE Displaced(h, k)
    <3>1. {j \in 1..k : Displaced(h, j)} = {j \in 1..(k - 1) : Displaced(h, j)} \cup {k}
      BY <1>4, <2>1
    <3>2. old = {trieNodes[Node(h, k)].pageId}
      BY <1>2, <1>11, <2>1
    <3> QED
      BY <3>1, <3>2 DEF Old
  <2>2. CASE ~Displaced(h, k)
    <3>1. {j \in 1..k : Displaced(h, j)} = {j \in 1..(k - 1) : Displaced(h, j)}
      BY <1>4, <2>2
    <3>2. old = {}
      BY <1>11, <2>2
    <3> QED
      BY <3>1, <3>2 DEF Old
  <2> QED
    BY <2>1, <2>2
<1>13. old \cap Old(h, k - 1) = {} /\ old \subseteq Page
  <2>1. ASSUME NEW x \in old PROVE x \notin Old(h, k - 1) /\ x \in Page
    <3>1. Displaced(h, k) /\ x = N[path].pageId /\ path \in DOMAIN N
      BY <1>2, <1>11, <2>1 DEF Displaced
    <3>2. x \in Page
      BY <1>1, <1>2, <3>1 DEF Nodes, WellSpelled
    <3>3. ASSUME NEW i \in 1..(k - 1), Displaced(h, i), trieNodes[Node(h, i)].pageId = x
          PROVE  FALSE
      <4>1. Node(h, i) \in DOMAIN N /\ Node(h, i) # path
        BY <1>2, <1>6, <3>3 DEF Displaced
      <4>2. pageToTrieNode[x] = Node(h, i) /\ pageToTrieNode[x] = path
        BY <1>1, <1>2, <3>1, <3>2, <3>3, <4>1, BackLinks DEF Inverses
      <4> QED
        BY <4>1, <4>2
    <3> QED
      BY <3>2, <3>3 DEF Old
  <2> QED
    BY <2>1
<1>14. pid \notin st.freeSet
  BY <1>6, <1>7 DEF SetsAt
<1>15. s2 = RecordPlain(st, path, extra, pid, old, idle)
  <2>1. path = HashPath(Upto(tokens[h], k))
    BY <1>2 DEF Node
  <2>2. path \in DOMAIN st.nodes => st.nodes[path].extraKey = extra
    BY <1>2
  <2> QED
    <3>1. PageGoes(h, k, st, path, extra, pid, old, idle)
      BY <1>2, <1>7, <1>10, <1>14, <2>1, <2>2, Zenon DEF PageGoes
    <3>2. RecordPage(h, st, k) = RecordPlain(st, path, extra, pid, old, idle)
      BY <3>1, RecordPageIs
    <3> QED
      BY <3>2
<1>16. /\ s2.free = st.free \o SetToSeq(idle)
       /\ s2.trie = DropFrom(st.trie, idle) \o SetToSeq({})
       /\ s2.freeSet = st.freeSet \cup idle
       /\ s2.trieSet = st.trieSet \ idle
       /\ s2.stop = FALSE /\ IsState(s2)
  BY <1>15 DEF RecordPlain, IsState
<1>17. s2.map = [q \in Page |-> IF q = pid THEN path ELSE IF q \in old THEN Root ELSE st.map[q]]
  BY <1>15 DEF RecordPlain
<1>18. s2.stamp = [st.stamp EXCEPT ![pid] = currentTimestamp + 1]
  BY <1>15 DEF RecordPlain
<1>19. s2.nodes = [n \in DOMAIN st.nodes \cup {path} |->
                     IF n = path THEN [pageId |-> pid, timestamp |-> currentTimestamp + 1,
                                       extraKey |-> extra]
                     ELSE st.nodes[n]]
  BY <1>15 DEF RecordPlain
<1>20. Agrees(h, k)
  BY <1>2, <1>4, <1>7, <1>9 DEF Agrees
<1>21. SetsAt(h, k, s2)
  <2>1. /\ freePagesSet \cap triePagesSet = {}
        /\ freePagesSet \subseteq Page /\ triePagesSet \subseteq Page
    BY <1>1 DEF PoolFacts!IInv, PoolFacts!Partition, PoolFacts!TypeOK
  <2>2. /\ st.freeSet = freePagesSet \cup (triePagesSet \cap Old(h, k - 1))
        /\ st.trieSet = triePagesSet \ Old(h, k - 1)
        /\ Lists(st.free, st.freeSet) /\ Lists(st.trie, st.trieSet)
    BY <1>7 DEF SetsAt
  <2>3. idle = triePagesSet \cap old
    BY <1>10, <1>13, <2>2
  <2>4. /\ s2.freeSet = freePagesSet \cup (triePagesSet \cap Old(h, k))
        /\ s2.trieSet = triePagesSet \ Old(h, k)
    BY <1>12, <1>16, <2>2, <2>3
  <2>5. Lists(s2.free, s2.freeSet)
    <3>1. idle \in SUBSET Page /\ st.freeSet \cap idle = {}
      BY <1>13, <2>1, <2>2, <2>3
    <3>2. Lists(SetToSeq(idle), idle)
      BY <3>1, SetToSeqLists
    <3> QED
      BY <1>16, <2>2, <3>1, <3>2, ConcatLists
  <2>6. Lists(DropFrom(st.trie, idle), st.trieSet \ idle)
    <3>1. CASE idle = {}
      BY <2>2, <3>1, DropNone
    <3>2. CASE idle # {}
      <4>1. PICK x : idle = {x} /\ x \in st.trieSet
        BY <1>10, <3>2
      <4>2. /\ DOMAIN st.trie = 1..Len(st.trie)
            /\ \E j \in 1..Len(st.trie) : st.trie[j] = x
        BY <2>2, <4>1, ListsDef, LenProperties
      <4>3. PICK j : j = CHOOSE i \in DOMAIN st.trie : st.trie[i] \in idle
        OBVIOUS
      <4>4. \E i \in DOMAIN st.trie : st.trie[i] \in idle
        BY <4>1, <4>2
      <4>5. j \in DOMAIN st.trie /\ st.trie[j] \in idle
        BY <4>3, <4>4, Zenon
      <4>6. j \in 1..Len(st.trie) /\ st.trie[j] = x
        BY <4>1, <4>2, <4>5
      <4>7. DropFrom(st.trie, idle) = SwapRemove(st.trie, j)
        BY <3>2, <4>3, Zenon DEF DropFrom
      <4> QED
        BY <2>2, <4>1, <4>6, <4>7, SwapRemoveLists
    <3> QED
      BY <3>1, <3>2
  <2>7. Lists(s2.trie, s2.trieSet)
    <3>1. Lists(SetToSeq({}), {})
      BY SetToSeqLists
    <3>2. Lists(DropFrom(st.trie, idle) \o SetToSeq({}), (st.trieSet \ idle) \cup {})
      BY <2>6, <3>1, ConcatLists
    <3> QED
      BY <1>16, <3>2
  <2> QED
    BY <2>4, <2>5, <2>7 DEF SetsAt
<1>22. NodesAt(h, k, s2.nodes)
  <2>1. NodesTo(h, k) = NodesTo(h, k - 1) \cup {path}
    BY <1>2, <1>4 DEF NodesTo
  <2>2. /\ DOMAIN st.nodes = DOMAIN trieNodes \cup NodesTo(h, k - 1)
        /\ \A i \in 1..(k - 1) :
             st.nodes[Node(h, i)] = [pageId |-> pageIndex[h][i], timestamp |-> currentTimestamp + 1,
                                     extraKey |-> ExtraKey[tokens[h][i]]]
        /\ \A n \in DOMAIN trieNodes \ NodesTo(h, k - 1) : st.nodes[n] = trieNodes[n]
    BY <1>7 DEF NodesAt
  <2>3. DOMAIN s2.nodes = DOMAIN trieNodes \cup NodesTo(h, k)
    BY <1>19, <2>1, <2>2
  <2>4. s2.nodes[path] = [pageId |-> pid, timestamp |-> currentTimestamp + 1, extraKey |-> extra]
    BY <1>19
  <2>5. \A n \in DOMAIN st.nodes : n # path => s2.nodes[n] = st.nodes[n]
    BY <1>19
  <2>6. ASSUME NEW i \in 1..(k - 1)
        PROVE  s2.nodes[Node(h, i)] =
                 [pageId |-> pageIndex[h][i], timestamp |-> currentTimestamp + 1,
                  extraKey |-> ExtraKey[tokens[h][i]]]
    <3>1. Node(h, i) \in DOMAIN st.nodes /\ Node(h, i) # path
      BY <1>6, <2>2 DEF NodesTo
    <3> QED
      BY <2>2, <2>5, <3>1
  <2>7. ASSUME NEW i \in 1..k
        PROVE  s2.nodes[Node(h, i)] =
                 [pageId |-> pageIndex[h][i], timestamp |-> currentTimestamp + 1,
                  extraKey |-> ExtraKey[tokens[h][i]]]
    <3>1. CASE i = k
      BY <1>2, <2>4, <3>1
    <3>2. CASE i # k
      BY <1>4, <2>6, <3>2
    <3> QED
      BY <3>1, <3>2
  <2>8. \A n \in DOMAIN trieNodes \ NodesTo(h, k) : s2.nodes[n] = trieNodes[n]
    BY <2>1, <2>2, <2>5
  <2> QED
    BY <2>3, <2>7, <2>8 DEF NodesAt
<1>23. PagesTo(h, k) = PagesTo(h, k - 1) \cup {pid}
  BY <1>2, <1>4 DEF PagesTo
<1>24. MapAt(h, k, s2.map)
  <2>1. /\ \A i \in 1..(k - 1) : st.map[pageIndex[h][i]] = Node(h, i)
        /\ \A q \in Page \ PagesTo(h, k - 1) :
             st.map[q] = IF q \in Old(h, k - 1) THEN Root ELSE pageToTrieNode[q]
    BY <1>7 DEF MapAt
  <2>2. ASSUME NEW i \in 1..(k - 1) PROVE s2.map[pageIndex[h][i]] = Node(h, i)
    <3>1. pageIndex[h][i] \in Page /\ pageIndex[h][i] # pid
      BY <1>2, <1>4, <1>5, <1>6 DEF ChainNodes
    <3>2. pageIndex[h][i] \notin old
      <4>1. ASSUME pageIndex[h][i] \in old PROVE FALSE
        <5>1. path \in DOMAIN trieNodes /\ trieNodes[path].pageId = pageIndex[h][i]
          BY <1>2, <1>11, <4>1 DEF Displaced
        <5>2. path = Node(h, i)
          BY <1>2, <1>4, <1>5, <5>1 DEF ChainNodes
        <5> QED
          BY <1>6, <5>2
      <4> QED
        BY <4>1
    <3> QED
      BY <1>17, <2>1, <3>1, <3>2
  <2>3. s2.map[pid] = path
    BY <1>6, <1>17
  <2>4. ASSUME NEW i \in 1..k PROVE s2.map[pageIndex[h][i]] = Node(h, i)
    <3>1. CASE i = k
      BY <1>2, <2>3, <3>1
    <3>2. CASE i # k
      BY <1>4, <2>2, <3>2
    <3> QED
      BY <3>1, <3>2
  <2>5. ASSUME NEW q \in Page \ PagesTo(h, k)
        PROVE  s2.map[q] = IF q \in Old(h, k) THEN Root ELSE pageToTrieNode[q]
    BY <1>12, <1>17, <1>23, <2>1
  <2>6. s2.map = [q \in Page |-> s2.map[q]]
    BY <1>17
  <2> QED
    BY <2>4, <2>5, <2>6 DEF MapAt
<1>25. StampAt(h, k, s2.stamp)
  <2>1. /\ st.stamp \in [Page -> Int]
        /\ \A i \in 1..(k - 1) : st.stamp[pageIndex[h][i]] = currentTimestamp + 1
        /\ \A q \in Page \ PagesTo(h, k - 1) : st.stamp[q] = pageTimestamp[q]
    BY <1>7 DEF StampAt
  <2>2. currentTimestamp + 1 \in Int
    BY <1>1 DEF Nodes
  <2>3. s2.stamp \in [Page -> Int] /\ s2.stamp[pid] = currentTimestamp + 1
        /\ \A q \in Page : q # pid => s2.stamp[q] = st.stamp[q]
    BY <1>6, <1>18, <2>1, <2>2
  <2>4. \A i \in 1..(k - 1) : pageIndex[h][i] \in Page /\ pageIndex[h][i] # pid
    BY <1>2, <1>4, <1>5, <1>6 DEF ChainNodes
  <2>5. \A i \in 1..k : s2.stamp[pageIndex[h][i]] = currentTimestamp + 1
    BY <1>2, <1>4, <2>1, <2>3, <2>4
  <2>6. \A q \in Page \ PagesTo(h, k) : s2.stamp[q] = pageTimestamp[q]
    BY <1>23, <2>1, <2>3
  <2> QED
    BY <2>3, <2>5, <2>6 DEF StampAt
<1> QED
  BY <1>16, <1>20, <1>21, <1>22, <1>24, <1>25 DEF StateAt

\* An iteration that stops changes nothing else.
LEMMA StateStops ==
  ASSUME NEW h, NEW j, NEW st, StateAt(h, j, st)
  PROVE  StateAt(h, j, [st EXCEPT !.stop = TRUE]) /\ [st EXCEPT !.stop = TRUE].stop = TRUE
<1>1. PICK s2 : s2 = [st EXCEPT !.stop = TRUE]
  OBVIOUS
<1>2. IsState(st)
  BY DEF StateAt
<1>3. /\ s2.free = st.free /\ s2.trie = st.trie /\ s2.freeSet = st.freeSet
      /\ s2.trieSet = st.trieSet /\ s2.map = st.map /\ s2.stamp = st.stamp
      /\ s2.nodes = st.nodes /\ s2.stop = TRUE /\ IsState(s2)
  BY <1>1, <1>2 DEF IsState
<1> QED
  BY <1>1, <1>3 DEF StateAt, SetsAt

\* Before the loop no page is recorded.
LEMMA StateBefore ==
  ASSUME Linked, NEW h \in Holder, NEW st,
         st = [free |-> freePages, trie |-> triePages, freeSet |-> freePagesSet,
               trieSet |-> triePagesSet, map |-> pageToTrieNode,
               stamp |-> pageTimestamp, nodes |-> trieNodes, stop |-> FALSE]
  PROVE  StateAt(h, 0, st) /\ st.stop = FALSE
<1>1. Stacks /\ Nodes
  BY DEF Linked
<1>2. IsState(st)
  BY DEF IsState
<1>3. /\ st.free = freePages /\ st.trie = triePages /\ st.freeSet = freePagesSet
      /\ st.trieSet = triePagesSet /\ st.map = pageToTrieNode
      /\ st.stamp = pageTimestamp /\ st.nodes = trieNodes /\ st.stop = FALSE
  OBVIOUS
<1>4. 1..0 = {}
  OBVIOUS
<1>5. NodesTo(h, 0) = {} /\ PagesTo(h, 0) = {} /\ Old(h, 0) = {}
  <2>1. {j \in 1..0 : Displaced(h, j)} = {}
    BY <1>4
  <2> QED
    BY <1>4, <2>1 DEF NodesTo, PagesTo, Old
<1>6. Agrees(h, 0)
  BY <1>4 DEF Agrees
<1>7. SetsAt(h, 0, st)
  BY <1>1, <1>3, <1>5 DEF SetsAt, Stacks
<1>8. NodesAt(h, 0, st.nodes)
  BY <1>3, <1>4, <1>5 DEF NodesAt
<1>9. MapAt(h, 0, st.map)
  BY <1>1, <1>3, <1>4, <1>5 DEF MapAt, Nodes
<1>10. StampAt(h, 0, st.stamp)
  BY <1>1, <1>3, <1>4, <1>5 DEF StampAt, Nodes
<1> QED
  BY <1>2, <1>3, <1>6, <1>7, <1>8, <1>9, <1>10 DEF StateAt

\* Record leaves what its loop has after j of the n pages.
LEMMA RecordLoop ==
  ASSUME Linked, NEW h \in Holder, NEW n, Record(h, n)
  PROVE  /\ n \in 1..Len(tokens[h])
         /\ currentTimestamp' = currentTimestamp + 1
         /\ UNCHANGED <<pageRefCount, pageIndex, tokens, content>>
         /\ \E j \in 0..n : \E st :
              /\ StateAt(h, j, st)
              /\ freePages' = st.free /\ triePages' = st.trie
              /\ freePagesSet' = st.freeSet /\ triePagesSet' = st.trieSet
              /\ pageToTrieNode' = st.map /\ pageTimestamp' = st.stamp
              /\ trieNodes' = st.nodes
<1>1. PICK before : before = [free |-> freePages, trie |-> triePages, freeSet |-> freePagesSet,
                              trieSet |-> triePagesSet, map |-> pageToTrieNode,
                              stamp |-> pageTimestamp, nodes |-> trieNodes, stop |-> FALSE]
  OBVIOUS
<1> DEFINE f == CHOOSE f : f = [i \in 0..n |-> IF i = 0 THEN before ELSE RecordPage(h, f[i - 1], i)]
<1>2. /\ n \in 1..Len(tokens[h])
      /\ currentTimestamp' = currentTimestamp + 1
      /\ UNCHANGED <<pageRefCount, pageIndex, tokens, content>>
      /\ freePages' = f[n].free /\ triePages' = f[n].trie
      /\ freePagesSet' = f[n].freeSet /\ triePagesSet' = f[n].trieSet
      /\ pageToTrieNode' = f[n].map /\ pageTimestamp' = f[n].stamp
      /\ trieNodes' = f[n].nodes
  BY <1>1, Zenon DEF Record
<1>3. n \in Nat /\ n \in 0..n /\ \A i \in 1..n : i \in 1..Len(tokens[h]) /\ i \in 0..n /\ i # 0
  <2>1. Len(tokens[h]) \in Nat
    BY ChainFacts DEF ChainOf, Linked
  <2> QED
    BY <1>2, <2>1
<1>4. f = [i \in 0..n |-> IF i = 0 THEN before ELSE RecordPage(h, f[i - 1], i)]
  <2>1. n \in Nat
    BY <1>3
  <2>2. PICK g : IsLoop(h, before, n, g)
    BY <2>1, LoopExists
  <2>3. g = [i \in 0..n |-> IF i = 0 THEN before ELSE RecordPage(h, g[i - 1], i)]
    BY <2>2, Zenon DEF IsLoop
  <2> QED
    BY <2>3, Zenon
<1> HIDE DEF f
<1>5. f[0] = before
  BY <1>3, <1>4
<1>6. \A i \in 1..n : f[i] = RecordPage(h, f[i - 1], i)
  BY <1>3, <1>4
<1> DEFINE Good(i) == /\ f[i].stop \in BOOLEAN
                      /\ \E j \in 0..i : StateAt(h, j, f[i]) /\ (f[i].stop = FALSE => j = i)
           Bad == {i \in 0..n : ~Good(i)}
<1>7. Good(0)
  <2>1. StateAt(h, 0, before) /\ before.stop = FALSE
    BY <1>1, StateBefore
  <2>2. 0 \in 0..0 /\ FALSE \in BOOLEAN
    OBVIOUS
  <2> QED
    BY <1>5, <2>1, <2>2
<1>8. ASSUME NEW i \in 1..n, Good(i - 1)
      PROVE  Good(i)
  <2>1. PICK st, s2 : st = f[i - 1] /\ s2 = f[i]
    OBVIOUS
  <2>2. PICK j \in 0..(i - 1) : StateAt(h, j, st) /\ (st.stop = FALSE => j = i - 1)
    BY <1>8, <2>1
  <2>3. st.stop \in BOOLEAN
    BY <1>8, <2>1
  <2>4. s2 = RecordPage(h, st, i) /\ IsState(st)
    BY <1>6, <2>1, <2>2 DEF StateAt
  <2>5. j \in 0..i /\ i \in 0..i /\ i \in 1..Len(tokens[h])
    BY <1>3, <2>2
  <2> HIDE DEF Good
  <2>6. CASE \/ st.stop
             \/ Node(h, i) \in DOMAIN st.nodes /\ st.nodes[Node(h, i)].extraKey # ExtraKey[tokens[h][i]]
    <3>1. s2 = [st EXCEPT !.stop = TRUE]
      BY <2>4, <2>6, RecordPageStops DEF Node
    <3>2. StateAt(h, j, s2) /\ s2.stop = TRUE
      BY <2>2, <3>1, StateStops
    <3> QED
      BY <2>1, <2>5, <3>2 DEF Good
  <2>7. CASE ~ \/ st.stop
               \/ Node(h, i) \in DOMAIN st.nodes /\ st.nodes[Node(h, i)].extraKey # ExtraKey[tokens[h][i]]
    <3>1. st.stop = FALSE /\ j = i - 1
      BY <2>2, <2>3, <2>7
    <3>2. StateAt(h, i, s2) /\ s2.stop = FALSE
      BY <2>2, <2>4, <2>5, <2>7, <3>1, RecordOne
    <3> QED
      BY <2>1, <2>5, <3>2 DEF Good
  <2> QED
    BY <2>6, <2>7
<1> HIDE DEF Good
<1>9. Bad = {}
  <2> SUFFICES ASSUME Bad # {} PROVE FALSE
    OBVIOUS
  <2>1. Bad \in SUBSET Nat
    OBVIOUS
  <2>2. PICK m \in Bad : \A y \in Bad : m <= y
    BY <2>1, LeastOf
  <2>3. m \in 1..n /\ m - 1 \in 0..n /\ m - 1 \notin Bad
    BY <1>3, <1>7, <2>2
  <2> QED
    BY <1>8, <2>2, <2>3
<1>10. Good(n)
  BY <1>3, <1>9
<1>11. PICK j \in 0..n : StateAt(h, j, f[n])
  BY <1>10 DEF Good
<1> QED
  BY <1>2, <1>11, Zenon
-----------------------------------------------------------------------------
\* The node of a recorded page.
LEMMA NodeFields ==
  ASSUME NEW h, NEW j, NEW nodes, NodesAt(h, j, nodes), NEW i \in 1..j
  PROVE  /\ nodes[Node(h, i)].pageId = pageIndex[h][i]
         /\ nodes[Node(h, i)].timestamp = currentTimestamp + 1
         /\ nodes[Node(h, i)].extraKey = ExtraKey[tokens[h][i]]
<1>1. PICK rec, pid, ts, extra :
        /\ rec = nodes[Node(h, i)] /\ pid = pageIndex[h][i] /\ ts = currentTimestamp + 1
        /\ extra = ExtraKey[tokens[h][i]]
  OBVIOUS
<1>2. rec = [pageId |-> pid, timestamp |-> ts, extraKey |-> extra]
  BY <1>1, Zenon DEF NodesAt
<1>3. rec.pageId = pid /\ rec.timestamp = ts /\ rec.extraKey = extra
  BY <1>2
<1> QED
  BY <1>1, <1>3, Zenon

\* The prompts of the first j pages of h.
PathTo(h, j) == {Upto(tokens[h], i) : i \in 1..j}

\* After j pages the trie spells what it did before and those prompts.
LEMMA RecordedSpells ==
  ASSUME Linked, NEW h \in Holder, NEW j \in 0..Len(tokens[h]), NEW st, StateAt(h, j, st)
  PROVE  /\ \A r \in Prompt : SpelledIn(st.nodes, r) <=> r \in PathTo(h, j) \/ SpelledIn(trieNodes, r)
         /\ \A r \in Prompt \ PathTo(h, j) : SpelledIn(trieNodes, r) => HashPath(r) \notin NodesTo(h, j)
         /\ \A i \in 1..j : Node(h, i) \in DOMAIN trieNodes => SpelledIn(trieNodes, Upto(tokens[h], i))
         /\ WellSpelled(st.nodes)
<1>1. Stacks /\ Chains /\ Nodes /\ PoolFacts!IInv
  BY DEF Linked
<1>2. PICK len, N, N2 : len = Len(tokens[h]) /\ N = trieNodes /\ N2 = st.nodes
  OBVIOUS
<1>3. /\ len \in Nat /\ j \in 0..len /\ \A i \in 1..j : i \in 1..len
      /\ tokens[h] \in Seq(Block)
  BY <1>1, <1>2, ChainFacts DEF ChainOf
<1>4. ChainNodes(h)
  BY ChainNodesHold
<1>5. \A i \in 1..j : /\ Upto(tokens[h], i) \in Prompt /\ Len(Upto(tokens[h], i)) = i
                      /\ pageIndex[h][i] \in Page
  BY <1>2, <1>3, <1>4 DEF ChainNodes
<1>6. /\ DOMAIN N2 = DOMAIN N \cup NodesTo(h, j)
      /\ \A i \in 1..j : /\ N2[Node(h, i)].pageId = pageIndex[h][i]
                         /\ N2[Node(h, i)].extraKey = ExtraKey[tokens[h][i]]
      /\ \A n \in DOMAIN N \ NodesTo(h, j) : N2[n] = N[n]
      /\ \A i \in 1..j : Node(h, i) \in DOMAIN N => N[Node(h, i)].extraKey = ExtraKey[tokens[h][i]]
  <2>1. NodesAt(h, j, N2) /\ Agrees(h, j)
    BY <1>2, Zenon DEF StateAt
  <2>3. DOMAIN N2 = DOMAIN N \cup NodesTo(h, j) /\ \A n \in DOMAIN N \ NodesTo(h, j) : N2[n] = N[n]
    BY <1>2, <2>1 DEF NodesAt
  <2>4. \A i \in 1..j : Node(h, i) \in DOMAIN N => N[Node(h, i)].extraKey = ExtraKey[tokens[h][i]]
    BY <1>2, <2>1 DEF Agrees
  <2>5. ASSUME NEW i \in 1..j
        PROVE  /\ N2[Node(h, i)].pageId = pageIndex[h][i]
               /\ N2[Node(h, i)].extraKey = ExtraKey[tokens[h][i]]
    BY <2>1, NodeFields
  <2> QED
    BY <2>3, <2>4, <2>5, Zenon
<1>7. \A n \in DOMAIN N : n \in DOMAIN N2 /\ N2[n].extraKey = N[n].extraKey
  <2>1. \A n \in DOMAIN N : n \in NodesTo(h, j) => N2[n].extraKey = N[n].extraKey
    BY <1>6 DEF NodesTo
  <2> QED
    BY <1>6, <2>1
<1>8. ASSUME NEW r \in Prompt, SpelledIn(N, r)
      PROVE  SpelledIn(N2, r)
  BY <1>7, <1>8, Zenon DEF SpelledIn
<1>9. ASSUME NEW i \in 1..j
      PROVE  SpelledIn(N2, Upto(tokens[h], i))
  <2>1. PICK p : p = Upto(tokens[h], i)
    OBVIOUS
  <2>2. i \in 0..len /\ i \in Nat /\ \A k \in 1..i : k \in 0..i /\ k \in 1..j
    BY <1>3
  <2>3. Len(p) = i /\ \A k \in 1..i : p[k] = tokens[h][k] /\ Upto(p, k) = Upto(tokens[h], k)
    BY <1>2, <1>3, <2>1, <2>2, UptoFacts
  <2>4. \A k \in 1..i : /\ HashPath(Upto(p, k)) = Node(h, k)
                        /\ Node(h, k) \in DOMAIN N2
                        /\ N2[Node(h, k)].extraKey = ExtraKey[p[k]]
    BY <1>6, <2>2, <2>3 DEF Node, NodesTo
  <2>5. SpelledIn(N2, p)
    BY <2>3, <2>4 DEF SpelledIn
  <2> QED
    BY <2>1, <2>5
<1>10. ASSUME NEW r \in Prompt, SpelledIn(N2, r), NEW i \in 1..j, HashPath(r) = Node(h, i)
       PROVE  r = Upto(tokens[h], i)
  BY <1>5, <1>9, <1>10, SpelledUnique DEF Node
<1>11. ASSUME NEW r \in Prompt, SpelledIn(N2, r)
       PROVE  r \in PathTo(h, j) \/ SpelledIn(N, r)
  <2>1. HashPath(r) \in DOMAIN N2
    <3>1. Len(r) \in 1..Len(r) /\ Upto(r, Len(r)) = r
      BY PromptFacts
    <3> QED
      BY <1>11, <3>1, SpelledUpto
  <2>2. CASE HashPath(r) \in NodesTo(h, j)
    BY <1>10, <1>11, <2>2 DEF NodesTo, PathTo
  <2>3. CASE HashPath(r) \in DOMAIN N
    <3>1. PICK p \in Prompt : HashPath(p) = HashPath(r) /\ SpelledIn(N, p)
      BY <1>1, <1>2, <2>3 DEF Nodes, WellSpelled
    <3>2. p = r
      BY <1>8, <1>11, <3>1, SpelledUnique
    <3> QED
      BY <3>1, <3>2
  <2> QED
    BY <1>6, <2>1, <2>2, <2>3
<1>12. \A r \in Prompt : SpelledIn(N2, r) <=> r \in PathTo(h, j) \/ SpelledIn(N, r)
  <2>1. \A r \in PathTo(h, j) : SpelledIn(N2, r)
    BY <1>9 DEF PathTo
  <2> QED
    BY <1>8, <1>11, <2>1
<1>13. \A r \in Prompt \ PathTo(h, j) : SpelledIn(N, r) => HashPath(r) \notin NodesTo(h, j)
  BY <1>8, <1>10 DEF NodesTo, PathTo
<1>14. ASSUME NEW i \in 1..j, Node(h, i) \in DOMAIN N
       PROVE  SpelledIn(N, Upto(tokens[h], i))
  <2>1. PICK p \in Prompt : HashPath(p) = Node(h, i) /\ SpelledIn(N, p)
    BY <1>1, <1>2, <1>14 DEF Nodes, WellSpelled
  <2>2. p = Upto(tokens[h], i)
    BY <1>8, <1>10, <2>1
  <2> QED
    BY <2>1, <2>2
<1>15. WellSpelled(N2)
  <2>1. ASSUME NEW i \in 1..j
        PROVE  /\ N2[Node(h, i)].pageId \in Page
               /\ \E p \in Prompt : HashPath(p) = Node(h, i) /\ SpelledIn(N2, p)
    BY <1>5, <1>6, <1>9 DEF Node
  <2>2. ASSUME NEW n \in DOMAIN N \ NodesTo(h, j)
        PROVE  /\ N2[n].pageId \in Page
               /\ \E p \in Prompt : HashPath(p) = n /\ SpelledIn(N2, p)
    <3>1. N[n].pageId \in Page /\ \E p \in Prompt : HashPath(p) = n /\ SpelledIn(N, p)
      BY <1>1, <1>2 DEF Nodes, WellSpelled
    <3> QED
      BY <1>6, <1>8, <3>1
  <2>3. \A n \in NodesTo(h, j) : \E i \in 1..j : n = Node(h, i)
    BY DEF NodesTo
  <2> QED
    BY <1>6, <2>1, <2>2, <2>3 DEF WellSpelled
<1> QED
  BY <1>2, <1>12, <1>13, <1>14, <1>15

\* The trie gives the pages of the chain for those prompts.
LEMMA RecordedTrie ==
  ASSUME Linked, NEW h \in Holder, NEW j \in 0..Len(tokens[h]), NEW st, StateAt(h, j, st)
  PROVE  TrieOf(st.nodes) =
           [r \in Prompt |-> IF r \in PathTo(h, j) THEN poolTable[h][r] ELSE poolTrie[r]]
<1>1. Stacks /\ Chains /\ Nodes /\ PoolFacts!IInv
  BY DEF Linked
<1>2. PICK len, N, N2, path :
        len = Len(tokens[h]) /\ N = trieNodes /\ N2 = st.nodes /\ path = PathTo(h, j)
  OBVIOUS
<1>3. len \in Nat /\ j \in 0..len /\ \A i \in 1..j : i \in 1..len
  BY <1>1, <1>2, ChainFacts DEF ChainOf
<1>4. \A i \in 1..j : poolTable[h][Upto(tokens[h], i)] = pageIndex[h][i]
  BY <1>1, <1>2, <1>3, TableIs DEF TableOf
<1>5. /\ \A r \in Prompt : SpelledIn(N2, r) <=> r \in path \/ SpelledIn(N, r)
      /\ \A r \in Prompt \ path : SpelledIn(N, r) => HashPath(r) \notin NodesTo(h, j)
      /\ WellSpelled(N2) /\ WellSpelled(N)
  BY <1>1, <1>2, RecordedSpells DEF Nodes
<1>6. NodesAt(h, j, N2)
  BY <1>2, Zenon DEF StateAt
<1>7. poolTrie = TrieOf(N)
  BY <1>2, PoolTrieIs
<1>8. ASSUME NEW r \in Prompt, r \in path
      PROVE  TrieOf(N2)[r] = poolTable[h][r]
  <2>1. PICK i \in 1..j : r = Upto(tokens[h], i)
    BY <1>2, <1>8 DEF PathTo
  <2>2. TrieOf(N2)[r] = N2[HashPath(r)].pageId
    BY <1>5, <1>8, TrieOfMeans
  <2>3. N2[HashPath(r)].pageId = pageIndex[h][i]
    BY <1>6, <2>1, NodeFields DEF Node
  <2> QED
    BY <1>4, <2>1, <2>2, <2>3
<1>9. ASSUME NEW r \in Prompt, r \notin path
      PROVE  TrieOf(N2)[r] = poolTrie[r]
  <2>1. CASE SpelledIn(N, r)
    <3>1. /\ TrieOf(N2)[r] = N2[HashPath(r)].pageId /\ TrieOf(N)[r] = N[HashPath(r)].pageId
          /\ HashPath(r) \in DOMAIN N
      BY <1>5, <2>1, TrieOfMeans
    <3>2. N2[HashPath(r)] = N[HashPath(r)]
      BY <1>2, <1>5, <1>6, <1>9, <2>1, <3>1 DEF NodesAt
    <3> QED
      BY <1>7, <3>1, <3>2
  <2>2. CASE ~SpelledIn(N, r)
    BY <1>5, <1>7, <1>9, <2>2, TrieOfMeans
  <2> QED
    BY <2>1, <2>2
<1>10. TrieOf(N2) = [r \in Prompt |-> TrieOf(N2)[r]]
  BY DEF TrieOf
<1> QED
  BY <1>2, <1>8, <1>9, <1>10

\* Every node has the stamp of its page.
LEMMA RecordedStamps ==
  ASSUME Linked, NEW h \in Holder, NEW j \in 0..Len(tokens[h]), NEW st, StateAt(h, j, st)
  PROVE  \A n \in DOMAIN st.nodes : st.nodes[n].timestamp = st.stamp[st.nodes[n].pageId]
<1>1. Stacks /\ Chains /\ Nodes /\ PoolFacts!IInv
  BY DEF Linked
<1>2. PICK len, N, N2, stamp : len = Len(tokens[h]) /\ N = trieNodes /\ N2 = st.nodes /\ stamp = st.stamp
  OBVIOUS
<1>3. len \in Nat /\ j \in 0..len /\ \A i \in 1..j : i \in 1..len
  BY <1>1, <1>2, ChainFacts DEF ChainOf
<1>4. ChainNodes(h)
  BY ChainNodesHold
<1>5. NodesAt(h, j, N2) /\ StampAt(h, j, stamp)
  BY <1>2, Zenon DEF StateAt
<1>6. ASSUME NEW i \in 1..j
      PROVE  N2[Node(h, i)].timestamp = stamp[N2[Node(h, i)].pageId]
  BY <1>5, NodeFields DEF StampAt
<1>7. ASSUME NEW n \in DOMAIN N, n \notin NodesTo(h, j)
      PROVE  N2[n].timestamp = stamp[N2[n].pageId]
  <2>1. N2[n] = N[n]
    BY <1>2, <1>5, <1>7 DEF NodesAt
  <2>2. N[n].pageId \in Page /\ N[n].timestamp = pageTimestamp[N[n].pageId]
    BY <1>1, <1>2 DEF Nodes, WellSpelled
  <2>3. N[n].pageId \notin PagesTo(h, j)
    <3>1. ASSUME NEW i \in 1..j, N[n].pageId = pageIndex[h][i]
          PROVE  FALSE
      <4>1. n = Node(h, i)
        BY <1>2, <1>3, <1>4, <3>1 DEF ChainNodes
      <4> QED
        BY <1>7, <4>1 DEF NodesTo
    <3> QED
      BY <3>1 DEF PagesTo
  <2>4. stamp[N[n].pageId] = pageTimestamp[N[n].pageId]
    BY <1>5, <2>2, <2>3 DEF StampAt
  <2> QED
    BY <2>1, <2>2, <2>4
<1>8. DOMAIN N2 = DOMAIN N \cup NodesTo(h, j) /\ \A n \in NodesTo(h, j) : \E i \in 1..j : n = Node(h, i)
  BY <1>2, <1>5 DEF NodesAt, NodesTo
<1>9. ASSUME NEW n \in DOMAIN N2
      PROVE  N2[n].timestamp = stamp[N2[n].pageId]
  BY <1>6, <1>7, <1>8
<1> QED
  BY <1>2, <1>9

\* The pages of the chain, and those they displace, as the pool names them.
LEMMA RecordedPages ==
  ASSUME Linked, NEW h \in Holder, NEW j \in 0..Len(tokens[h]), NEW st, StateAt(h, j, st)
  PROVE  /\ {poolTable[h][r] : r \in PathTo(h, j)} = PagesTo(h, j)
         /\ {poolTrie[r] : r \in {s \in PathTo(h, j) : poolTrie[s] # poolTable[h][s]}} \ {NoPage}
              = Old(h, j)
<1>1. Stacks /\ Chains /\ Nodes /\ PoolFacts!IInv
  BY DEF Linked
<1>2. PICK len, N, path, table, trie :
        /\ len = Len(tokens[h]) /\ N = trieNodes /\ path = PathTo(h, j)
        /\ table = poolTable[h] /\ trie = poolTrie
  OBVIOUS
<1>3. len \in Nat /\ j \in 0..len /\ \A i \in 1..j : i \in 1..len
  BY <1>1, <1>2, ChainFacts DEF ChainOf
<1>4. \A i \in 1..j : table[Upto(tokens[h], i)] = pageIndex[h][i] /\ Upto(tokens[h], i) \in path
  BY <1>1, <1>2, <1>3, TableIs DEF TableOf, PathTo
<1>5. \A r \in path : \E i \in 1..j : r = Upto(tokens[h], i)
  BY <1>2 DEF PathTo
<1>6. ASSUME NEW i \in 1..j
      PROVE  /\ trie[Upto(tokens[h], i)] # NoPage <=> Node(h, i) \in DOMAIN N
             /\ Node(h, i) \in DOMAIN N => trie[Upto(tokens[h], i)] = N[Node(h, i)].pageId
  <2>1. Upto(tokens[h], i) \in Prompt
    BY <1>2, <1>3, ChainNodesHold DEF ChainNodes
  <2>2. Node(h, i) \in DOMAIN N => SpelledIn(N, Upto(tokens[h], i))
    BY <1>2, RecordedSpells
  <2>3. trie = TrieOf(N) /\ WellSpelled(N)
    BY <1>1, <1>2, PoolTrieIs DEF Nodes
  <2> QED
    BY <2>1, <2>2, <2>3, TrieOfMeans DEF Node
<1>7. {table[r] : r \in path} = PagesTo(h, j)
  BY <1>4, <1>5 DEF PagesTo
<1>8. {trie[r] : r \in {s \in path : trie[s] # table[s]}} \ {NoPage} = Old(h, j)
  <2>1. ASSUME NEW r \in path, trie[r] # table[r], trie[r] # NoPage
        PROVE  trie[r] \in Old(h, j)
    <3>1. PICK i \in 1..j : r = Upto(tokens[h], i)
      BY <1>5
    <3>2. Node(h, i) \in DOMAIN N /\ trie[r] = N[Node(h, i)].pageId /\ table[r] = pageIndex[h][i]
      BY <1>4, <1>6, <2>1, <3>1
    <3>3. Displaced(h, i)
      BY <1>2, <2>1, <3>2 DEF Displaced
    <3> QED
      BY <1>2, <3>2, <3>3 DEF Old
  <2>2. ASSUME NEW i \in 1..j, Displaced(h, i)
        PROVE  /\ N[Node(h, i)].pageId # NoPage
               /\ \E r \in path : trie[r] # table[r] /\ trie[r] = N[Node(h, i)].pageId
    <3>1. Node(h, i) \in DOMAIN N /\ N[Node(h, i)].pageId # pageIndex[h][i]
      BY <1>2, <2>2 DEF Displaced
    <3> QED
      BY <1>4, <1>6, <3>1
  <2>3. \A q \in Old(h, j) : \E i \in 1..j : Displaced(h, i) /\ q = N[Node(h, i)].pageId
    BY <1>2 DEF Old
  <2>4. \A q \in Old(h, j) : q # NoPage /\ \E r \in path : trie[r] # table[r] /\ trie[r] = q
    BY <2>2, <2>3
  <2> QED
    BY <2>1, <2>4
<1> QED
  BY <1>2, <1>7, <1>8

\* The prompt each page is published under once h's pages, new, are recorded
\* along a path instead of the pages old.
Published(h, path, new, old) ==
  [q \in Page |-> IF q \in new THEN CHOOSE r \in path : poolTable[h][r] = q
                  ELSE IF q \in old THEN Root
                  ELSE poolNodeOf[q]]

NodeOfAt(h, j) == Published(h, PathTo(h, j), PagesTo(h, j), Old(h, j))

\* The back pointers lead there.
LEMMA RecordedMap ==
  ASSUME Linked, NEW h \in Holder, NEW j \in 0..Len(tokens[h]), NEW st, StateAt(h, j, st)
  PROVE  /\ st.map \in [Page -> DOMAIN st.nodes \cup {Root}]
         /\ NodeOf(st.nodes, st.map) = NodeOfAt(h, j)
<1>1. Stacks /\ Chains /\ Nodes /\ PoolFacts!IInv
  BY DEF Linked
<1>2. PICK len, N, N2, m, path, table :
        /\ len = Len(tokens[h]) /\ N = trieNodes /\ N2 = st.nodes /\ m = st.map
        /\ path = PathTo(h, j) /\ table = poolTable[h]
  OBVIOUS
<1>3. len \in Nat /\ j \in 0..len /\ \A i \in 1..j : i \in 1..len
  BY <1>1, <1>2, ChainFacts DEF ChainOf
<1>4. ChainNodes(h)
  BY ChainNodesHold
<1>5. \A i \in 1..j : /\ Upto(tokens[h], i) \in Prompt /\ Upto(tokens[h], i) \in path
                      /\ pageIndex[h][i] \in Page
                      /\ \A k \in 1..j : pageIndex[h][i] = pageIndex[h][k] => i = k
  BY <1>2, <1>3, <1>4 DEF ChainNodes, PathTo
<1>6. \A i \in 1..j : table[Upto(tokens[h], i)] = pageIndex[h][i]
  BY <1>1, <1>2, <1>3, TableIs DEF TableOf
<1>7. \A r \in path : \E i \in 1..j : r = Upto(tokens[h], i)
  BY <1>2 DEF PathTo
<1>8. /\ \A r \in Prompt : SpelledIn(N2, r) <=> r \in path \/ SpelledIn(N, r)
      /\ \A i \in 1..j : Node(h, i) \in DOMAIN N => SpelledIn(N, Upto(tokens[h], i))
      /\ WellSpelled(N2) /\ WellSpelled(N)
  BY <1>1, <1>2, RecordedSpells DEF Nodes
<1>9. NodesAt(h, j, N2) /\ MapAt(h, j, m)
  BY <1>2, Zenon DEF StateAt
<1>10. /\ m = [q \in Page |-> m[q]]
       /\ \A i \in 1..j : m[pageIndex[h][i]] = Node(h, i)
       /\ \A q \in Page \ PagesTo(h, j) : m[q] = IF q \in Old(h, j) THEN Root ELSE pageToTrieNode[q]
  BY <1>9 DEF MapAt
<1>11. DOMAIN N2 = DOMAIN N \cup NodesTo(h, j) /\ \A i \in 1..j : Node(h, i) \in DOMAIN N2
  BY <1>2, <1>9 DEF NodesAt, NodesTo
<1>12. \A q \in PagesTo(h, j) : \E i \in 1..j : q = pageIndex[h][i]
  BY DEF PagesTo
<1>13. pageToTrieNode \in [Page -> DOMAIN N \cup {Root}]
  BY <1>1, <1>2 DEF Nodes
<1>14. m \in [Page -> DOMAIN N2 \cup {Root}]
  <2>1. \A q \in PagesTo(h, j) : m[q] \in DOMAIN N2
    BY <1>10, <1>11, <1>12
  <2>2. \A q \in Page \ PagesTo(h, j) : m[q] \in DOMAIN N2 \cup {Root}
    BY <1>10, <1>11, <1>13
  <2>3. \A q \in Page : m[q] \in DOMAIN N2 \cup {Root}
    BY <2>1, <2>2
  <2> QED
    BY <1>10, <2>3
<1>15. PICK F : F = NodeOfAt(h, j)
  OBVIOUS
<1>16. /\ F = [q \in Page |-> F[q]]
       /\ \A q \in Page : q \notin PagesTo(h, j) =>
            F[q] = IF q \in Old(h, j) THEN Root ELSE poolNodeOf[q]
       /\ \A q \in PagesTo(h, j) :
            q \in Page => F[q] = CHOOSE r \in PathTo(h, j) : poolTable[h][r] = q
  <2>1. F = [q \in Page |-> F[q]]
    BY <1>15 DEF NodeOfAt, Published
  <2>2. \A q \in Page : q \notin PagesTo(h, j) =>
          F[q] = IF q \in Old(h, j) THEN Root ELSE poolNodeOf[q]
    BY <1>15 DEF NodeOfAt, Published
  <2>3. ASSUME NEW q \in Page, q \in PagesTo(h, j)
        PROVE  F[q] = CHOOSE r \in PathTo(h, j) : poolTable[h][r] = q
    BY <1>15, <2>3, Zenon DEF NodeOfAt, Published
  <2> QED
    BY <2>1, <2>2, <2>3, Zenon
<1>17. ASSUME NEW i \in 1..j
       PROVE  F[pageIndex[h][i]] = Upto(tokens[h], i)
  <2>1. pageIndex[h][i] \in PagesTo(h, j) /\ pageIndex[h][i] \in Page
    BY <1>5 DEF PagesTo
  <2>2. PICK q : q = pageIndex[h][i]
    OBVIOUS
  <2>3. F[q] = CHOOSE r \in PathTo(h, j) : poolTable[h][r] = q
    BY <1>16, <2>1, <2>2, Zenon
  <2>4. Upto(tokens[h], i) \in PathTo(h, j) /\ poolTable[h][Upto(tokens[h], i)] = q
    BY <1>2, <1>5, <1>6, <2>2
  <2>5. F[q] \in PathTo(h, j) /\ poolTable[h][F[q]] = q
    BY <2>3, <2>4, Zenon
  <2>6. PICK k \in 1..j : F[q] = Upto(tokens[h], k)
    BY <1>2, <1>7, <2>5
  <2>7. k = i
    BY <1>2, <1>5, <1>6, <2>2, <2>5, <2>6
  <2> QED
    BY <2>2, <2>6, <2>7
<1>18. poolNodeOf = NodeOf(N, pageToTrieNode)
  BY <1>1, <1>2, PoolNodeOfIs DEF Nodes
<1>19. /\ poolNodeOf \in [Page -> Prompt \cup {Root}]
       /\ \A q \in Page, p \in Prompt :
            poolNodeOf[q] = p <=> pageToTrieNode[q] = HashPath(p) /\ SpelledIn(N, p)
  BY <1>8, <1>13, <1>18, NodeOfMeans
<1>20. \A p \in Prompt : p # Root /\ HashPath(p) # Root
  BY PathFacts, PoolAssumed DEF PoolFacts!PagePoolAssumption
<1>21. ASSUME NEW q \in Page
       PROVE  /\ F[q] \in Prompt \cup {Root}
              /\ \A p \in Prompt : F[q] = p <=> m[q] = HashPath(p) /\ SpelledIn(N2, p)
  <2>1. CASE q \in PagesTo(h, j)
    <3>1. PICK i \in 1..j : q = pageIndex[h][i]
      BY <1>12, <2>1
    <3>2. F[q] = Upto(tokens[h], i) /\ m[q] = HashPath(Upto(tokens[h], i))
      BY <1>10, <1>17, <3>1 DEF Node
    <3>3. Upto(tokens[h], i) \in Prompt /\ SpelledIn(N2, Upto(tokens[h], i))
      BY <1>5, <1>8
    <3>4. \A p \in Prompt : SpelledIn(N2, p) /\ HashPath(p) = HashPath(Upto(tokens[h], i))
                              => p = Upto(tokens[h], i)
      BY <3>3, SpelledUnique
    <3> QED
      BY <3>2, <3>3, <3>4
  <2>2. CASE q \notin PagesTo(h, j) /\ q \in Old(h, j)
    <3>1. F[q] = Root /\ m[q] = Root
      BY <1>10, <1>16, <2>2
    <3> QED
      BY <1>20, <3>1
  <2>3. CASE q \notin PagesTo(h, j) /\ q \notin Old(h, j)
    <3>1. F[q] = poolNodeOf[q] /\ m[q] = pageToTrieNode[q]
      BY <1>10, <1>16, <2>3
    <3>2. ASSUME NEW p \in Prompt, pageToTrieNode[q] = HashPath(p), SpelledIn(N2, p)
          PROVE  SpelledIn(N, p)
      <4>1. HashPath(p) \in DOMAIN N
        BY <1>13, <1>20, <3>2
      <4>2. CASE p \in path
        BY <1>7, <1>8, <4>1, <4>2 DEF Node
      <4>3. CASE p \notin path
        BY <1>8, <3>2, <4>3
      <4> QED
        BY <4>2, <4>3
    <3> QED
      BY <1>8, <1>19, <3>1, <3>2
  <2> QED
    BY <2>1, <2>2, <2>3
<1>22. F \in [Page -> Prompt \cup {Root}]
  BY <1>16, <1>21
<1>23. NodeOf(N2, m) = F
  BY <1>8, <1>14, <1>21, <1>22, NodeOfIs
<1> QED
  BY <1>2, <1>14, <1>15, <1>23

\* Record is a step of the pool that publishes the pages before the one where
\* the hashes collide, or nothing if that is the first.
LEMMA RecordStep ==
  ASSUME Linked, NEW h \in Holder, NEW n, Record(h, n)
  PROVE  /\ Stacks' /\ Chains' /\ Nodes'
         /\ (\E p \in Prompt : PoolFacts!Record(h, p)) \/ UNCHANGED PoolFacts!vars
<1>1. Stacks /\ Chains /\ Nodes /\ PoolFacts!IInv
  BY DEF Linked
<1>2. /\ n \in 1..Len(tokens[h])
      /\ currentTimestamp' = currentTimestamp + 1
      /\ UNCHANGED <<pageRefCount, pageIndex, tokens, content>>
  BY RecordLoop
<1>3. PICK j \in 0..n : \E st :
        /\ StateAt(h, j, st)
        /\ freePages' = st.free /\ triePages' = st.trie
        /\ freePagesSet' = st.freeSet /\ triePagesSet' = st.trieSet
        /\ pageToTrieNode' = st.map /\ pageTimestamp' = st.stamp
        /\ trieNodes' = st.nodes
  BY RecordLoop
<1>4. PICK st :
        /\ StateAt(h, j, st)
        /\ freePages' = st.free /\ triePages' = st.trie
        /\ freePagesSet' = st.freeSet /\ triePagesSet' = st.trieSet
        /\ pageToTrieNode' = st.map /\ pageTimestamp' = st.stamp
        /\ trieNodes' = st.nodes
  BY <1>3
<1>5. PICK len, blocks : len = Len(tokens[h]) /\ blocks = tokens[h]
  OBVIOUS
<1>6. len \in Nat /\ len > 0 /\ j \in 0..len /\ j \in Nat /\ \A i \in 1..j : i \in 1..len
  BY <1>1, <1>2, <1>5, ChainFacts DEF ChainOf
<1>7. blocks \in Prompt
  BY <1>1, <1>5, <1>6, EmptySeq DEF Chains, Root
<1>8. /\ WellSpelled(st.nodes)
      /\ st.map \in [Page -> DOMAIN st.nodes \cup {Root}]
      /\ \A m \in DOMAIN st.nodes : st.nodes[m].timestamp = st.stamp[st.nodes[m].pageId]
  BY <1>4, <1>5, <1>6, RecordedSpells, RecordedMap, RecordedStamps
<1>9. SetsAt(h, j, st) /\ StampAt(h, j, st.stamp)
  BY <1>4, Zenon DEF StateAt
<1>10. Stacks'
  BY <1>4, <1>9 DEF SetsAt, Stacks
<1>11. Chains'
  BY <1>1, <1>2 DEF Chains
<1>12. Nodes'
  <2>1. currentTimestamp' \in Int /\ pageTimestamp' \in [Page -> Int]
    BY <1>1, <1>2, <1>4, <1>9 DEF Nodes, StampAt
  <2> QED
    BY <1>4, <1>8, <2>1 DEF Nodes
<1>13. poolTrie' = [r \in Prompt |-> IF r \in PathTo(h, j) THEN poolTable[h][r] ELSE poolTrie[r]]
  <2>1. poolTrie' = TrieOf(st.nodes)
    BY <1>4, PoolTrieIs
  <2>2. TrieOf(st.nodes) =
          [r \in Prompt |-> IF r \in PathTo(h, j) THEN poolTable[h][r] ELSE poolTrie[r]]
    BY <1>4, <1>5, <1>6, RecordedTrie
  <2> QED
    BY <2>1, <2>2, Zenon
<1>14. poolNodeOf' = NodeOfAt(h, j)
  <2>1. poolNodeOf' = NodeOf(st.nodes, st.map)
    BY <1>4, <1>8, PoolNodeOfIsPrime
  <2>2. NodeOf(st.nodes, st.map) = NodeOfAt(h, j)
    BY <1>4, <1>5, <1>6, RecordedMap
  <2> QED
    BY <2>1, <2>2, Zenon
<1>15. poolTable' = poolTable /\ poolTail' = poolTail
  BY <1>2 DEF poolTable, poolTail, LastPageFull
<1>16. /\ freePagesSet' = freePagesSet \cup (triePagesSet \cap Old(h, j))
       /\ triePagesSet' = triePagesSet \ Old(h, j)
  BY <1>4, <1>9 DEF SetsAt
<1>17. /\ {poolTable[h][r] : r \in PathTo(h, j)} = PagesTo(h, j)
       /\ {poolTrie[r] : r \in {s \in PathTo(h, j) : poolTrie[s] # poolTable[h][s]}} \ {NoPage}
            = Old(h, j)
  BY <1>4, <1>5, <1>6, RecordedPages
<1>18. freePagesSet \cap PagesTo(h, j) = {}
  <2>1. \A i \in 1..j : pageIndex[h][i] \notin freePagesSet
    BY <1>5, <1>6, ChainNodesHold DEF ChainNodes
  <2> QED
    BY <2>1 DEF PagesTo
<1>19. CASE j = 0
  <2>1. 1..j = {}
    BY <1>19
  <2>2. PathTo(h, j) = {} /\ PagesTo(h, j) = {}
    BY <2>1 DEF PathTo, PagesTo
  <2>3. Old(h, j) = {}
    BY <2>1 DEF Old
  <2>4. poolTrie' = poolTrie
    BY <1>13, <2>2 DEF poolTrie
  <2>5. poolNodeOf' = poolNodeOf
    BY <1>14, <2>2, <2>3 DEF NodeOfAt, Published, poolNodeOf
  <2>6. freePagesSet' = freePagesSet /\ triePagesSet' = triePagesSet
    BY <1>16, <2>3
  <2>7. UNCHANGED PoolFacts!vars
    BY <1>2, <1>15, <2>4, <2>5, <2>6, Zenon DEF PoolFacts!vars
  <2> QED
    BY <1>10, <1>11, <1>12, <2>7
<1>20. CASE j # 0
  <2>1. PICK p : p = Upto(blocks, j)
    OBVIOUS
  <2>2. j \in 1..len /\ j \in 1..j
    BY <1>6, <1>20
  <2>3. p \in Prompt
    BY <1>5, <1>7, <2>1, <2>2, PromptFacts
  <2>4. PoolFacts!Chain(p) = PathTo(h, j)
    BY <1>5, <1>7, <2>1, <2>2, ChainUpto DEF PathTo
  <2>5. poolTable[h][p] # NoPage
    <3>1. poolTable[h][p] = pageIndex[h][j] /\ pageIndex[h][j] \in Page
      BY <1>1, <1>5, <2>1, <2>2, TableIs, ChainNodesHold DEF TableOf, ChainNodes
    <3> QED
      BY <3>1, PoolAssumed DEF PoolFacts!PagePoolAssumption
  <2>6. freePagesSet' = (freePagesSet \ PagesTo(h, j)) \cup (triePagesSet \cap Old(h, j))
    BY <1>16, <1>18
  <2>7. triePagesSet' = (triePagesSet \ Old(h, j)) \cup
                          {q \in freePagesSet \cap PagesTo(h, j) : pageRefCount[q] = 0}
    BY <1>16, <1>18
  <2>8. PICK path, new, old : path = PathTo(h, j) /\ new = PagesTo(h, j) /\ old = Old(h, j)
    OBVIOUS
  <2>9. PoolFacts!Record(h, p)
    <3>1. path = PoolFacts!Chain(p)
      BY <2>4, <2>8
    <3>2. new = {poolTable[h][r] : r \in path}
      BY <1>17, <2>8, Zenon
    <3>3. old = {poolTrie[r] : r \in {s \in path : poolTrie[s] # poolTable[h][s]}} \ {NoPage}
      BY <1>17, <2>8, Zenon
    <3>4. poolTrie' = [r \in Prompt |-> IF r \in path THEN poolTable[h][r] ELSE poolTrie[r]]
      BY <1>13, <2>8, Zenon
    <3>5. poolNodeOf' = Published(h, path, new, old)
      BY <1>14, <2>8, Zenon DEF NodeOfAt
    <3>6. /\ freePagesSet' = (freePagesSet \ new) \cup (triePagesSet \cap old)
          /\ triePagesSet' = (triePagesSet \ old) \cup
                                {q \in freePagesSet \cap new : pageRefCount[q] = 0}
      BY <2>6, <2>7, <2>8, Zenon
    <3> QED
      BY <1>2, <1>15, <2>5, <3>1, <3>2, <3>3, <3>4, <3>5, <3>6 DEF PoolFacts!Record, Published
  <2> QED
    BY <1>10, <1>11, <1>12, <2>3, <2>9
<1> QED
  BY <1>19, <1>20
-----------------------------------------------------------------------------
\* The first states of the manager are those of the pool.
LEMMA LinkedInit ==
  ASSUME Init
  PROVE  Linked /\ PoolFacts!Init
<1>1. /\ freePages = PageOrder /\ freePagesSet = Page /\ triePages = <<>> /\ triePagesSet = {}
      /\ pageRefCount = [q \in Page |-> 0] /\ pageTimestamp = [q \in Page |-> 0]
      /\ currentTimestamp = 0 /\ trieNodes = <<>> /\ pageToTrieNode = [q \in Page |-> Root]
      /\ pageIndex = [h \in Holder |-> <<>>] /\ tokens = [h \in Holder |-> <<>>]
      /\ content = [q \in Page |-> Root]
  BY DEF Init
<1>2. DOMAIN trieNodes = {}
  BY <1>1
<1>3. Len(<<>>) = 0 /\ \A S : <<>> \in Seq(S)
  OBVIOUS
<1>4. Stacks
  <2>1. Lists(freePages, freePagesSet)
    BY <1>1, BlocksIdentified DEF BlockAssumption, Lists, Page
  <2>2. Lists(triePages, triePagesSet)
    <3>1. <<>> \in Seq(Page) /\ IsInjective(<<>>) /\ ToSet(<<>>) = {}
      BY DEF IsInjective, ToSet
    <3> QED
      BY <1>1, <3>1 DEF Lists
  <2> QED
    BY <2>1, <2>2 DEF Stacks
<1>5. Chains
  BY <1>1, <1>3 DEF Chains, Root
<1>6. Nodes
  BY <1>1, <1>2 DEF Nodes, WellSpelled
<1>7. poolTrie = PoolFacts!Empty
  <2>1. \A p \in Prompt : ~SpelledIn(trieNodes, p)
    <3> SUFFICES ASSUME NEW p \in Prompt PROVE ~SpelledIn(trieNodes, p)
      OBVIOUS
    <3>1. 1 \in 1..Len(p)
      BY PromptFacts
    <3> QED
      BY <1>2, <3>1 DEF SpelledIn
  <2>2. poolTrie = TrieOf(trieNodes)
    BY PoolTrieIs
  <2> QED
    BY <2>1, <2>2 DEF TrieOf, PoolFacts!Empty
<1>8. poolNodeOf = [q \in Page |-> Root]
  BY <1>1 DEF poolNodeOf
<1>9. poolTable = [h \in Holder |-> PoolFacts!Empty] /\ poolTail = [h \in Holder |-> NoPage]
  <2>1. \A h \in Holder : Len(tokens[h]) = 0 /\ Len(pageIndex[h]) = 0
    BY <1>1, <1>3
  <2>2. ASSUME NEW h \in Holder
        PROVE  /\ poolTail[h] = NoPage
               /\ \A p \in Prompt : poolTable[h][p] = NoPage
    <3>1. \A p \in Prompt : ~(Len(p) <= Len(tokens[h]))
      BY <2>1, PromptFacts
    <3> QED
      BY <1>5, <2>1, <3>1, TableIs DEF TableOf
  <2>3. IsTables(poolTable) /\ poolTail = [h \in Holder |-> poolTail[h]]
    BY TableShape
  <2>4. poolTable = [h \in Holder |-> [p \in Prompt |-> NoPage]]
    BY <2>2, <2>3 DEF IsTables
  <2> QED
    BY <2>2, <2>3, <2>4 DEF PoolFacts!Empty
<1>10. PoolFacts!Init
  BY <1>1, <1>7, <1>8, <1>9, Zenon DEF PoolFacts!Init
<1>11. PoolFacts!IInv
  BY <1>10, PoolAssumed, PoolFacts!InitIInv
<1> QED
  BY <1>4, <1>5, <1>6, <1>10, <1>11 DEF Linked

\* Every step of the manager is one of the pool's, or the pool does not change.
LEMMA LinkedNext ==
  ASSUME Linked, [Next]_vars
  PROVE  Linked' /\ [PoolFacts!Next]_(PoolFacts!vars)
<1>1. Stacks' /\ Chains' /\ Nodes' /\ [PoolFacts!Next]_(PoolFacts!vars)
  <2>1. CASE UNCHANGED vars
    <3>1. /\ UNCHANGED <<freePages, triePages, freePagesSet, triePagesSet, pageRefCount>>
          /\ UNCHANGED <<pageTimestamp, currentTimestamp, trieNodes, pageToTrieNode>>
          /\ UNCHANGED <<pageIndex, tokens, content>>
      BY <2>1 DEF vars, manager
    <3>2. Stacks' /\ Chains' /\ Nodes'
      BY <3>1 DEF Linked, Stacks, Chains, Nodes
    <3>3. poolTable' = poolTable /\ poolTail' = poolTail
      BY <3>1 DEF poolTable, poolTail, LastPageFull
    <3>4. poolTrie' = poolTrie /\ poolNodeOf' = poolNodeOf
      BY <3>1, SameTrie DEF Linked
    <3> QED
      BY <3>1, <3>2, <3>3, <3>4 DEF PoolFacts!vars
  <2>2. CASE Next
    <3>1. PICK h \in Holder :
            \/ GetUnusedPageIndex(h)
            \/ ReleasePageIndices(h)
            \/ \E b \in Block : FillPage(h, b)
            \/ \E n \in 1..MaxDepth :
                 \/ Record(h, n)
                 \/ \E blocks \in Prompt : QueryAndPick(h, blocks, n)
      BY <2>2, Zenon DEF Next
    <3>2. CASE GetUnusedPageIndex(h)
      BY <3>2, GetStep, Zenon DEF PoolFacts!Next
    <3>3. CASE ReleasePageIndices(h)
      BY <3>3, ReleaseStep, Zenon DEF PoolFacts!Next
    <3>4. ASSUME NEW b \in Block, FillPage(h, b)
          PROVE  Stacks' /\ Chains' /\ Nodes' /\ [PoolFacts!Next]_(PoolFacts!vars)
      BY <3>4, FillStep, Zenon DEF PoolFacts!Next
    <3>5. ASSUME NEW n, Record(h, n)
          PROVE  Stacks' /\ Chains' /\ Nodes' /\ [PoolFacts!Next]_(PoolFacts!vars)
      BY <3>5, RecordStep, Zenon DEF PoolFacts!Next
    <3>6. ASSUME NEW n, NEW blocks \in Prompt, QueryAndPick(h, blocks, n)
          PROVE  Stacks' /\ Chains' /\ Nodes' /\ [PoolFacts!Next]_(PoolFacts!vars)
      BY <3>6, PickStep, Zenon DEF PoolFacts!Next
    <3> QED
      BY <3>1, <3>2, <3>3, <3>4, <3>5, <3>6, Zenon
  <2> QED
    BY <2>1, <2>2
<1>2. PoolFacts!IInv'
  <2>1. PoolFacts!IInv
    BY DEF Linked
  <2> QED
    BY <1>1, <2>1, PoolAssumed, PoolFacts!NextIInv
<1> QED
  BY <1>1, <1>2 DEF Linked

\* The inductive invariant holds throughout.
LEMMA LinkedAlways == Spec => []Linked
<1>1. Init => Linked
  BY LinkedInit
<1>2. Linked /\ [Next]_vars => Linked'
  BY LinkedNext
<1> QED
  BY <1>1, <1>2, PTL DEF Spec

(* Query (PagedCacheManager, include/fastllm.h) answers with the pages of    *)
(* the longest published prefix and with nothing else, whatever the hashes   *)
(* that collide and the timestamps left behind.                              *)
THEOREM ManagerQueryExact == Spec => []QueryExact
<1>1. Linked => QueryExact
  BY LinkedQuery
<1> QED
  BY <1>1, LinkedAlways, PTL

(* The vectors, the sets beside them, the hashed trie and the timestamps of  *)
(* PagedCacheManager implement the page pool.                                *)
THEOREM ManagerImplementsPool == Spec => ImplementsPool
<1>1. Init => Pool!Init
  <2>1. PoolFacts!Init => Pool!Init
    BY Zenon DEF PoolFacts!Init, Pool!Init, PoolFacts!Empty, Pool!Empty
  <2> QED
    BY <2>1, LinkedInit
<1>2. Linked /\ [Next]_vars => [Pool!Next]_(Pool!vars)
  <2>1. [PoolFacts!Next]_(PoolFacts!vars) => [Pool!Next]_(Pool!vars)
    <3>1. \A h \in Holder :
            /\ PoolFacts!Acquire(h) => Pool!Acquire(h)
            /\ PoolFacts!Release(h) => Pool!Release(h)
      <4> SUFFICES ASSUME NEW h \in Holder
                   PROVE  /\ PoolFacts!Acquire(h) => Pool!Acquire(h)
                          /\ PoolFacts!Release(h) => Pool!Release(h)
        OBVIOUS
      <4>1. PoolFacts!Acquire(h) => Pool!Acquire(h)
        BY Zenon DEF PoolFacts!Acquire, Pool!Acquire, PoolFacts!Eligible, Pool!Eligible,
           PoolFacts!Stale, Pool!Stale, PoolFacts!Leaves, Pool!Leaves, PoolFacts!Evicted,
           Pool!Evicted, PoolFacts!Subtree, Pool!Subtree
      <4>2. PoolFacts!Release(h) => Pool!Release(h)
        BY Zenon DEF PoolFacts!Release, Pool!Release, PoolFacts!Held, Pool!Held,
           PoolFacts!Empty, Pool!Empty
      <4> QED
        BY <4>1, <4>2
    <3>2. \A h \in Holder, p \in Prompt :
            /\ PoolFacts!Fill(h, p) => Pool!Fill(h, p)
            /\ PoolFacts!Record(h, p) => Pool!Record(h, p)
            /\ PoolFacts!Restore(h, p) => Pool!Restore(h, p)
      <4> SUFFICES ASSUME NEW h \in Holder, NEW p \in Prompt
                   PROVE  /\ PoolFacts!Fill(h, p) => Pool!Fill(h, p)
                          /\ PoolFacts!Record(h, p) => Pool!Record(h, p)
                          /\ PoolFacts!Restore(h, p) => Pool!Restore(h, p)
        OBVIOUS
      <4>1. PoolFacts!Fill(h, p) => Pool!Fill(h, p)
        BY Zenon DEF PoolFacts!Fill, Pool!Fill
      <4>2. PoolFacts!Record(h, p) => Pool!Record(h, p)
        BY Zenon DEF PoolFacts!Record, Pool!Record, PoolFacts!Chain, Pool!Chain
      <4>3. PoolFacts!Restore(h, p) => Pool!Restore(h, p)
        BY Zenon DEF PoolFacts!Restore, Pool!Restore, PoolFacts!Chain, Pool!Chain,
           PoolFacts!Held, Pool!Held
      <4> QED
        BY <4>1, <4>2, <4>3
    <3>3. PoolFacts!Next => Pool!Next
      BY <3>1, <3>2, Zenon DEF PoolFacts!Next, Pool!Next
    <3>4. UNCHANGED PoolFacts!vars => UNCHANGED Pool!vars
      BY Zenon DEF PoolFacts!vars, Pool!vars
    <3> QED
      BY <3>3, <3>4
  <2> QED
    BY <2>1, LinkedNext
<1> QED
  BY <1>1, <1>2, LinkedAlways, PTL DEF Spec, ImplementsPool, Pool!Spec
=============================================================================
