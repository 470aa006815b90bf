--------------------------- MODULE PagePoolProofs ---------------------------
(***************************************************************************)
(* Proofs about PagePool for any pool, any number of holders and any tree  *)
(* of prefixes.  IInv is the inductive invariant: the invariants PagePool  *)
(* states are mutually dependent, and two facts about the holders are      *)
(* needed besides them.                                                    *)
(***************************************************************************)
EXTENDS PagePool, FiniteSetTheorems, TLAPS

\* The page a holder is writing is not full, and it is not another's.
TailFresh ==
  \A h \in Holder : tail[h] # NoPage =>
    /\ content[tail[h]] = NoPrefix
    /\ \A g \in Holder : tail[g] = tail[h] => g = h

\* The full pages of a holder cover a prefix without holes.
TableConnected ==
  \A h \in Holder : \A p, r \in Prefix :
    table[h][p] # NoPage /\ <<r, p>> \in Shorter => table[h][r] # NoPage

IInv ==
  /\ TypeOK
  /\ CacheCoherent
  /\ TailFresh
  /\ RefCounted
  /\ Partition
  /\ TrieInverse
  /\ TrieConnected
  /\ TableConnected
-----------------------------------------------------------------------------
\* What it means to hold a page, without the null value.
LEMMA UsersMember ==
  ASSUME NEW q \in Page, NEW h \in Holder
  PROVE  h \in Users(q) <=> (tail[h] = q \/ \E p \in Prefix : table[h][p] = q)
  BY Assumption DEF PagePoolAssumption, Users, Held

LEMMA UsersMemberPrime ==
  ASSUME NEW q \in Page, NEW h \in Holder
  PROVE  h \in Users(q)' <=> (tail'[h] = q \/ \E p \in Prefix : table'[h][p] = q)
  BY Assumption DEF PagePoolAssumption, Users, Held

LEMMA UsersFinite ==
  ASSUME NEW q \in Page
  PROVE  IsFiniteSet(Users(q)) /\ Users(q) \subseteq Holder
  BY Assumption, FS_Subset DEF PagePoolAssumption, Users

LEMMA UsersSubsetPrime ==
  ASSUME NEW q \in Page
  PROVE  Users(q)' \subseteq Holder
  BY DEF Users

\* A page without references has no holders.
LEMMA RefZero ==
  ASSUME RefCounted, NEW q \in Page
  PROVE  ref[q] = 0 <=> Users(q) = {}
  BY UsersFinite, FS_EmptySet DEF RefCounted

LEMMA InitIInv == Init => IInv
<1> SUFFICES ASSUME Init PROVE IInv
  OBVIOUS
<1>1. \A q \in Page : Users(q) = {}
  BY UsersMember, UsersFinite, Assumption DEF Init, Empty, PagePoolAssumption
<1>2. RefCounted
  BY <1>1, FS_EmptySet DEF Init, RefCounted
<1>3. TypeOK /\ CacheCoherent /\ TailFresh /\ TrieInverse /\ TrieConnected /\ TableConnected
  BY Assumption DEF Init, Empty, PagePoolAssumption, TypeOK, CacheCoherent, TailFresh,
     TrieInverse, TrieConnected, TableConnected
<1>4. Partition
  BY <1>1 DEF Init, Partition
<1> QED
  BY <1>2, <1>3, <1>4 DEF IInv
-----------------------------------------------------------------------------
LEMMA AcquireIInv ==
  ASSUME IInv, NEW h \in Holder, Acquire(h)
  PROVE  IInv'
<1> USE Assumption DEF PagePoolAssumption
<1>1. PICK q \in Eligible :
        LET gone == Evicted(q)
            lost == {trie[p] : p \in gone} \ {NoPage}
        IN  /\ free' = (free \cup (idle \cap lost)) \ {q}
            /\ idle' = idle \ (lost \cup {q})
            /\ trie' = [p \in Prefix |-> IF p \in gone THEN NoPage ELSE trie[p]]
            /\ nodeOf' = [x \in Page |-> IF x \in lost THEN NoPrefix ELSE nodeOf[x]]
            /\ ref' = [ref EXCEPT ![q] = 1]
            /\ tail' = [tail EXCEPT ![h] = q]
            /\ content' = [content EXCEPT ![q] = NoPrefix]
  BY DEF Acquire
<1> DEFINE gone == Evicted(q)
           lost == {trie[p] : p \in gone} \ {NoPage}
<1>2. tail[h] = NoPage /\ table' = table
  BY DEF Acquire
<1>3. q \in Page /\ (q \in free \/ q \in idle) /\ Users(q) = {}
  BY DEF IInv, TypeOK, Partition, Eligible, Stale, Leaves
<1>4. \A g \in Holder : tail[g] # q /\ \A p \in Prefix : table[g][p] # q
  BY <1>3, UsersMember
<1>5. \A p \in Prefix : trie[p] = q => p \in gone
  BY <1>3 DEF IInv, TypeOK, TrieInverse, Evicted, Subtree
<1>6. \A p, r \in Prefix : p \in gone /\ <<p, r>> \in Shorter => r \in gone
  BY <1>3 DEF IInv, TypeOK, Evicted, Subtree
<1>7. gone \subseteq Prefix
  BY DEF Evicted, Subtree
<1>8. \A x \in Page : x \in lost <=> nodeOf[x] \in gone
  BY <1>7 DEF IInv, TypeOK, TrieInverse
<1> HIDE DEF gone
<1>9. \A x \in Page : Users(x)' = IF x = q THEN {h} ELSE Users(x)
  <2> SUFFICES ASSUME NEW x \in Page
               PROVE  Users(x)' = IF x = q THEN {h} ELSE Users(x)
    OBVIOUS
  <2>1. \A g \in Holder : g \in Users(x)' <=> (IF x = q THEN g = h ELSE g \in Users(x))
    BY <1>1, <1>2, <1>3, <1>4, UsersMember, UsersMemberPrime DEF IInv, TypeOK
  <2> QED
    BY <2>1, UsersFinite, UsersSubsetPrime
<1>10. TypeOK'
  BY <1>1, <1>2, <1>3 DEF IInv, TypeOK, gone, lost
<1>11. CacheCoherent'
  BY <1>1, <1>2, <1>3, <1>4, <1>5 DEF IInv, TypeOK, CacheCoherent, gone
<1>12. TailFresh'
  BY <1>1, <1>2, <1>3, <1>4 DEF IInv, TypeOK, TailFresh
<1>13. RefCounted'
  <2> SUFFICES ASSUME NEW x \in Page
               PROVE  ref'[x] = Cardinality(Users(x)')
    BY DEF RefCounted
  <2>1. CASE x = q
    <3>1. Users(x)' = {h} /\ ref'[x] = 1
      BY <2>1, <1>1, <1>3, <1>9 DEF IInv, TypeOK
    <3>2. Cardinality({h}) = 1
      BY FS_Singleton
    <3> QED
      BY <3>1, <3>2
  <2>2. CASE x # q
    BY <2>2, <1>1, <1>3, <1>9 DEF IInv, TypeOK, RefCounted
  <2> QED
    BY <2>1, <2>2
<1>14. Partition'
  BY <1>1, <1>3, <1>9 DEF IInv, TypeOK, Partition, gone, lost
<1>15. TrieInverse'
  <2>1. \A x \in Page, p \in Prefix : nodeOf'[x] = p <=> trie'[p] = x
    BY <1>1, <1>7, <1>8 DEF IInv, TypeOK, TrieInverse, gone, lost
  <2>2. \A x \in free' : nodeOf'[x] = NoPrefix
    BY <1>1, <1>3 DEF IInv, TypeOK, TrieInverse, gone, lost
  <2>3. \A x \in idle' : nodeOf'[x] # NoPrefix
    BY <1>1, <1>3 DEF IInv, TypeOK, TrieInverse, gone, lost
  <2> QED
    BY <2>1, <2>2, <2>3 DEF TrieInverse
<1>16. TrieConnected'
  BY <1>1, <1>6 DEF IInv, TypeOK, TrieConnected, gone
<1>17. TableConnected'
  BY <1>2 DEF IInv, TableConnected
<1> QED
  BY <1>10, <1>11, <1>12, <1>13, <1>14, <1>15, <1>16, <1>17 DEF IInv

LEMMA FillIInv ==
  ASSUME IInv, NEW h \in Holder, NEW p \in Prefix, Fill(h, p)
  PROVE  IInv'
<1> USE Assumption DEF PagePoolAssumption
<1> DEFINE q == tail[h]
<1>1. q \in Page /\ content[q] = NoPrefix
  BY DEF IInv, TypeOK, TailFresh, Fill
<1>2. \A g \in Holder : g # h => tail[g] # q
  BY DEF IInv, TailFresh, Fill
<1>3. \A r \in Prefix : trie[r] # q /\ \A g \in Holder : table[g][r] # q
  BY <1>1 DEF IInv, TypeOK, CacheCoherent
<1>4. \A x \in Page : Users(x)' = Users(x)
  <2> SUFFICES ASSUME NEW x \in Page
               PROVE  Users(x)' = Users(x)
    OBVIOUS
  <2>1. \A g \in Holder : g \in Users(x)' <=> g \in Users(x)
    BY UsersMember, UsersMemberPrime DEF Fill, IInv, TypeOK
  <2> QED
    BY <2>1, UsersFinite, UsersSubsetPrime
<1>5. TypeOK'
  BY <1>1 DEF Fill, IInv, TypeOK
<1>6. CacheCoherent'
  BY <1>1, <1>3 DEF Fill, IInv, TypeOK, CacheCoherent
<1>7. TailFresh'
  BY <1>1, <1>2 DEF Fill, IInv, TypeOK, TailFresh
<1>8. RefCounted' /\ Partition'
  BY <1>4 DEF Fill, IInv, RefCounted, Partition
<1>9. TrieInverse' /\ TrieConnected'
  BY DEF Fill, IInv, TrieInverse, TrieConnected
<1>10. TableConnected'
  BY <1>1 DEF Fill, IInv, TypeOK, TableConnected
<1> QED
  BY <1>5, <1>6, <1>7, <1>8, <1>9, <1>10 DEF IInv

LEMMA RecordIInv ==
  ASSUME IInv, NEW h \in Holder, NEW p \in Prefix, Record(h, p)
  PROVE  IInv'
<1> USE Assumption DEF PagePoolAssumption
<1> DEFINE path == Chain(p)
           new  == {table[h][r] : r \in path}
           old  == {trie[r] : r \in {s \in path : trie[s] # table[h][s]}} \ {NoPage}
<1>1. path \subseteq Prefix
  BY DEF Chain
<1>2. \A r \in path : table[h][r] \in Page /\ content[table[h][r]] = r
  BY DEF Chain, Record, IInv, TypeOK, TableConnected, CacheCoherent
<1>3. \A q \in Page : q \in new <=> (content[q] \in path /\ table[h][content[q]] = q)
  BY <1>2
<1>4. \A q \in Page : q \in old <=> (nodeOf[q] \in path /\ table[h][nodeOf[q]] # q)
  BY <1>1 DEF IInv, TypeOK, TrieInverse
<1>5. \A q \in new : (CHOOSE r \in path : table[h][r] = q) = content[q]
  BY <1>2
<1>6. /\ trie' = [r \in Prefix |-> IF r \in path THEN table[h][r] ELSE trie[r]]
      /\ nodeOf' = [q \in Page |->
           IF q \in new THEN CHOOSE r \in path : table[h][r] = q
           ELSE IF q \in old THEN NoPrefix
           ELSE nodeOf[q]]
      /\ free' = (free \ new) \cup (idle \cap old)
      /\ idle' = (idle \ old) \cup {q \in free \cap new : ref[q] = 0}
      /\ ref' = ref /\ table' = table /\ tail' = tail /\ content' = content
  BY DEF Record
<1>7. \A q \in Page : nodeOf'[q] = IF q \in new THEN content[q]
                                   ELSE IF q \in old THEN NoPrefix ELSE nodeOf[q]
  BY <1>5, <1>6
<1>8. \A q \in Page : Users(q)' = Users(q)
  <2> SUFFICES ASSUME NEW q \in Page
               PROVE  Users(q)' = Users(q)
    OBVIOUS
  <2>1. \A g \in Holder : g \in Users(q)' <=> g \in Users(q)
    BY <1>6, UsersMember, UsersMemberPrime
  <2> QED
    BY <2>1, UsersFinite, UsersSubsetPrime
<1>9. \A q \in new : q \in Page /\ Users(q) # {} /\ q \notin free /\ q \notin idle
  BY <1>1, <1>2, UsersMember DEF IInv, TypeOK, Partition
<1>10. \A q \in Page, r \in Prefix : nodeOf[q] = r <=> trie[r] = q
  BY DEF IInv, TrieInverse
<1>11. \A q \in Page : nodeOf[q] # NoPrefix => content[q] = nodeOf[q]
  BY <1>10 DEF IInv, TypeOK, CacheCoherent
<1>12. TypeOK'
  <2>1. trie' \in [Prefix -> Page \cup {NoPage}]
    BY <1>2, <1>6 DEF IInv, TypeOK
  <2>2. \A q \in Page : nodeOf'[q] \in Prefix \cup {NoPrefix}
    BY <1>7 DEF IInv, TypeOK
  <2>3. nodeOf' \in [Page -> Prefix \cup {NoPrefix}]
    BY <2>2, <1>6
  <2> QED
    BY <2>1, <2>3, <1>6 DEF IInv, TypeOK
<1> HIDE DEF path, new, old
<1>13. CacheCoherent'
  BY <1>2, <1>6 DEF IInv, CacheCoherent
<1>14. TailFresh' /\ TableConnected'
  BY <1>6 DEF IInv, TailFresh, TableConnected
<1>15. RefCounted'
  BY <1>6, <1>8 DEF IInv, RefCounted
<1>16. Partition'
  BY <1>6, <1>8, <1>9 DEF IInv, Partition
<1>17. TrieInverse'
  <2>1. ASSUME NEW q \in Page, NEW r \in Prefix
        PROVE  nodeOf'[q] = r <=> trie'[r] = q
    <3>1. CASE q \in new
      BY <3>1, <1>2, <1>3, <1>6, <1>7, <1>10, <1>11 DEF IInv, TypeOK
    <3>2. CASE q \notin new
      BY <3>2, <1>2, <1>3, <1>4, <1>6, <1>7, <1>10, <1>11 DEF IInv, TypeOK
    <3> QED
      BY <3>1, <3>2
  <2>2. \A q \in free' : nodeOf'[q] = NoPrefix
    BY <1>6, <1>7, <1>9 DEF IInv, TypeOK, TrieInverse
  <2>3. \A q \in idle' : nodeOf'[q] # NoPrefix
    BY <1>6, <1>7, <1>9 DEF IInv, TypeOK, TrieInverse
  <2> QED
    BY <2>1, <2>2, <2>3 DEF TrieInverse
<1>18. TrieConnected'
  <2>1. \A r, s \in Prefix : r \in path /\ <<s, r>> \in Shorter => s \in path
    BY DEF path, Chain
  <2> QED
    BY <2>1, <1>2, <1>6 DEF IInv, TypeOK, TrieConnected
<1> QED
  BY <1>12, <1>13, <1>14, <1>15, <1>16, <1>17, <1>18 DEF IInv

LEMMA RestoreIInv ==
  ASSUME IInv, NEW h \in Holder, NEW p \in Prefix, Restore(h, p)
  PROVE  IInv'
<1> USE Assumption DEF PagePoolAssumption
<1> DEFINE path == Chain(p)
           picked == {trie[r] : r \in path}
<1>1. path \subseteq Prefix /\ \A r \in path : trie[r] \in Page
  BY DEF Chain, Restore, IInv, TypeOK
<1>2. \A q \in Page : q \in picked <=> nodeOf[q] \in path
  BY <1>1 DEF IInv, TypeOK, TrieInverse
<1>3. \A q \in Page : h \notin Users(q)
  BY DEF Restore, Users
<1>4. tail[h] = NoPage
  BY DEF Restore, Held
<1>5. /\ table' = [table EXCEPT ![h] =
                     [r \in Prefix |-> IF r \in path THEN trie[r] ELSE NoPage]]
      /\ ref' = [q \in Page |-> IF q \in picked THEN ref[q] + 1 ELSE ref[q]]
      /\ free' = free \ picked
      /\ idle' = idle \ picked
      /\ trie' = trie /\ nodeOf' = nodeOf /\ tail' = tail /\ content' = content
  BY DEF Restore
<1>6. \A q \in Page : Users(q)' = IF q \in picked THEN Users(q) \cup {h} ELSE Users(q)
  <2> SUFFICES ASSUME NEW q \in Page
               PROVE  Users(q)' = IF q \in picked THEN Users(q) \cup {h} ELSE Users(q)
    OBVIOUS
  <2>1. h \in Users(q)' <=> q \in picked
    BY <1>1, <1>4, <1>5, UsersMemberPrime DEF IInv, TypeOK
  <2>2. \A g \in Holder : g # h => (g \in Users(q)' <=> g \in Users(q))
    BY <1>5, UsersMember, UsersMemberPrime DEF IInv, TypeOK
  <2>3. Users(q) \subseteq Holder /\ Users(q)' \subseteq Holder /\ h \notin Users(q)
    BY <1>3, UsersFinite, UsersSubsetPrime
  <2> QED
    BY <2>1, <2>2, <2>3
<1>7. TypeOK'
  BY <1>1, <1>5 DEF IInv, TypeOK
<1>8. CacheCoherent'
  BY <1>1, <1>5 DEF IInv, TypeOK, CacheCoherent
<1>9. TailFresh'
  BY <1>5 DEF IInv, TypeOK, TailFresh
<1>10. RefCounted'
  <2> SUFFICES ASSUME NEW q \in Page
               PROVE  ref'[q] = Cardinality(Users(q)')
    BY DEF RefCounted
  <2>1. CASE q \in picked
    <3>1. Cardinality(Users(q) \cup {h}) = Cardinality(Users(q)) + 1
      BY <1>3, UsersFinite, FS_AddElement
    <3> QED
      BY <3>1, <2>1, <1>5, <1>6 DEF IInv, RefCounted
  <2>2. CASE q \notin picked
    BY <2>2, <1>5, <1>6 DEF IInv, RefCounted
  <2> QED
    BY <2>1, <2>2
<1>11. Partition'
  <2>1. \A q \in Page : Users(q)' = {} <=> (Users(q) = {} /\ q \notin picked)
    BY <1>6
  <2> HIDE DEF picked
  <2> QED
    BY <2>1, <1>5 DEF IInv, Partition
<1>12. TrieInverse' /\ TrieConnected'
  BY <1>5 DEF IInv, TrieInverse, TrieConnected
<1>13. TableConnected'
  <2>1. \A r, s \in Prefix : r \in path /\ <<s, r>> \in Shorter => s \in path
    BY DEF Chain
  <2> QED
    BY <2>1, <1>1, <1>5 DEF IInv, TypeOK, TableConnected
<1> QED
  BY <1>7, <1>8, <1>9, <1>10, <1>11, <1>12, <1>13 DEF IInv

LEMMA ReleaseIInv ==
  ASSUME IInv, NEW h \in Holder, Release(h)
  PROVE  IInv'
<1> USE Assumption DEF PagePoolAssumption
<1> DEFINE unused == {q \in Held(h) : ref[q] <= 1}
<1>1. \A q \in Held(h) : q \in Page /\ h \in Users(q)
  BY DEF Held, Users, IInv, TypeOK
<1>2. \A q \in Page : q \in Held(h) <=> h \in Users(q)
  BY DEF Users
<1>3. /\ ref' = [q \in Page |-> IF q \in unused THEN 0
                                ELSE IF q \in Held(h) THEN ref[q] - 1 ELSE ref[q]]
      /\ idle' = idle \cup {q \in unused : nodeOf[q] # NoPrefix}
      /\ free' = free \cup {q \in unused : nodeOf[q] = NoPrefix}
      /\ table' = [table EXCEPT ![h] = Empty]
      /\ tail' = [tail EXCEPT ![h] = NoPage]
      /\ trie' = trie /\ nodeOf' = nodeOf /\ content' = content
  BY DEF Release
<1>4. \A q \in Page : Users(q)' = Users(q) \ {h}
  <2> SUFFICES ASSUME NEW q \in Page
               PROVE  Users(q)' = Users(q) \ {h}
    OBVIOUS
  <2>1. h \notin Users(q)'
    BY <1>3, UsersMemberPrime DEF Empty, IInv, TypeOK
  <2>2. \A g \in Holder : g # h => (g \in Users(q)' <=> g \in Users(q))
    BY <1>3, UsersMember, UsersMemberPrime DEF IInv, TypeOK
  <2> QED
    BY <2>1, <2>2, UsersFinite, UsersSubsetPrime
<1>5. \A q \in Held(h) : Cardinality(Users(q) \ {h}) = ref[q] - 1
  BY <1>1, UsersFinite, FS_RemoveElement DEF IInv, RefCounted
<1>6. \A q \in Held(h) : q \in unused <=> Users(q) \ {h} = {}
  <2> SUFFICES ASSUME NEW q \in Held(h)
               PROVE  q \in unused <=> Users(q) \ {h} = {}
    OBVIOUS
  <2>1. IsFiniteSet(Users(q) \ {h}) /\ Cardinality(Users(q) \ {h}) \in Nat
    BY <1>1, UsersFinite, FS_RemoveElement, FS_CardinalityType
  <2>2. ref[q] \in Nat
    BY <1>1 DEF IInv, TypeOK
  <2>3. Users(q) \ {h} = {} <=> ref[q] - 1 = 0
    BY <2>1, <1>5, FS_EmptySet
  <2>4. ref[q] - 1 >= 0
    BY <2>1, <1>5
  <2> QED
    BY <2>2, <2>3, <2>4
<1>7. TypeOK'
  <2>1. \A q \in Page : ref'[q] \in Nat
    BY <1>3 DEF IInv, TypeOK
  <2>2. ref' \in [Page -> Nat]
    BY <2>1, <1>3
  <2> QED
    BY <2>2, <1>1, <1>3 DEF IInv, TypeOK, Empty
<1>8. CacheCoherent' /\ TailFresh'
  BY <1>3 DEF IInv, TypeOK, CacheCoherent, TailFresh, Empty
<1> HIDE DEF unused
<1>9. RefCounted'
  <2> SUFFICES ASSUME NEW q \in Page
               PROVE  ref'[q] = Cardinality(Users(q)')
    BY DEF RefCounted
  <2>1. CASE q \in Held(h)
    <3>1. CASE q \in unused
      BY <3>1, <2>1, <1>3, <1>4, <1>6, FS_EmptySet
    <3>2. CASE q \notin unused
      BY <3>2, <2>1, <1>3, <1>4, <1>5
    <3> QED
      BY <3>1, <3>2
  <2>2. CASE q \notin Held(h)
    <3>1. Users(q)' = Users(q)
      BY <2>2, <1>2, <1>4
    <3>2. q \notin unused
      BY <2>2 DEF unused
    <3> QED
      BY <2>2, <3>1, <3>2, <1>3 DEF IInv, RefCounted
  <2> QED
    BY <2>1, <2>2
<1>10. \A q \in Page : Users(q)' = {} <=> (Users(q) = {} \/ q \in unused)
  BY <1>2, <1>4, <1>6 DEF unused
<1>11. unused \subseteq Page /\ \A q \in unused : q \notin free /\ q \notin idle
  BY <1>1 DEF unused, IInv, Partition
<1>12. Partition'
  BY <1>3, <1>10, <1>11 DEF IInv, Partition
<1>13. TrieInverse' /\ TrieConnected'
  BY <1>3, <1>11 DEF IInv, TrieInverse, TrieConnected
<1>14. TableConnected'
  BY <1>3 DEF IInv, TypeOK, TableConnected, Empty
<1> QED
  BY <1>7, <1>8, <1>9, <1>12, <1>13, <1>14 DEF IInv
-----------------------------------------------------------------------------
LEMMA NextIInv == IInv /\ [Next]_vars => IInv'
<1> SUFFICES ASSUME IInv, [Next]_vars PROVE IInv'
  OBVIOUS
<1>1. CASE Next
  BY <1>1, AcquireIInv, FillIInv, RecordIInv, RestoreIInv, ReleaseIInv DEF Next
<1>2. CASE UNCHANGED vars
  BY <1>2 DEF vars, IInv, TypeOK, CacheCoherent, TailFresh, RefCounted, Partition,
     TrieInverse, TrieConnected, TableConnected, Users, Held
<1> QED
  BY <1>1, <1>2

(* The inductive invariant holds in every reachable state. *)
THEOREM Invariance == Spec => []IInv
  BY InitIInv, NextIInv, PTL DEF Spec

(* Type correctness of the pool (PagedCacheManager, include/fastllm.h). *)
THEOREM PoolTypeOK == Spec => []TypeOK
<1>1. IInv => TypeOK
  BY DEF IInv
<1> QED
  BY <1>1, Invariance, PTL

(* Whatever the trie or a page table hands to a forward pass is the KV of    *)
(* the prefix it stands for: GetUnusedPageIndex, Record, Query/Pick and      *)
(* ReleasePageIndices never let a referenced page be rewritten.              *)
THEOREM PoolCoherent == Spec => []CacheCoherent
<1>1. IInv => CacheCoherent
  BY DEF IInv
<1> QED
  BY <1>1, Invariance, PTL

(* pageRefCount counts the holders of a page exactly, so that no page is      *)
(* released under a request that still uses it.                              *)
THEOREM PoolCounted == Spec => []RefCounted
<1>1. IInv => RefCounted
  BY DEF IInv
<1> QED
  BY <1>1, Invariance, PTL

(* The free and the idle pages together are exactly the pages nobody holds:  *)
(* none leaks and none is handed out while it is held.                       *)
THEOREM PoolConserved == Spec => []Partition
<1>1. IInv => Partition
  BY DEF IInv
<1> QED
  BY <1>1, Invariance, PTL

(* pageToTrieNode and the trie stay inverse of each other, and triePages     *)
(* never holds a stale entry.                                                *)
THEOREM PoolTrie == Spec => []TrieInverse
<1>1. IInv => TrieInverse
  BY DEF IInv
<1> QED
  BY <1>1, Invariance, PTL

(* Every published prefix can be reached from the root, whatever is evicted. *)
THEOREM PoolConnected == Spec => []TrieConnected
<1>1. IInv => TrieConnected
  BY DEF IInv
<1> QED
  BY <1>1, Invariance, PTL

(* The page a request is appending to is written by that request alone.      *)
THEOREM PoolTailExclusive == Spec => []TailExclusive
<1>1. IInv => TailExclusive
  <2> SUFFICES ASSUME IInv, NEW h \in Holder, tail[h] # NoPage
               PROVE  /\ \A g \in Holder \ {h} : tail[h] \notin Held(g)
                      /\ \A p \in Prefix : trie[p] # tail[h] /\ table[h][p] # tail[h]
    BY DEF TailExclusive
  <2>1. tail[h] \in Page /\ content[tail[h]] = NoPrefix
    BY DEF IInv, TypeOK, TailFresh
  <2>2. \A p \in Prefix : trie[p] # tail[h] /\ \A g \in Holder : table[g][p] # tail[h]
    BY <2>1, Assumption DEF PagePoolAssumption, IInv, TypeOK, CacheCoherent
  <2>3. \A g \in Holder \ {h} : tail[g] # tail[h]
    BY DEF IInv, TailFresh
  <2> QED
    BY <2>2, <2>3 DEF Held
<1> QED
  BY <1>1, Invariance, PTL

(* A step only changes what a page holds when the page was available, or     *)
(* when its single holder is filling it.                                     *)
THEOREM PoolRewrites == Spec => OnlyAvailableRewritten
<1>1. IInv /\ [Next]_vars =>
        [\A q \in Page : content'[q] # content[q] =>
           \/ q \in free \cup idle
           \/ \E h \in Holder : tail[h] = q /\ Users(q) = {h}]_vars
  <2> SUFFICES ASSUME IInv, Next, NEW q \in Page, content'[q] # content[q]
               PROVE  \/ q \in free \cup idle
                      \/ \E h \in Holder : tail[h] = q /\ Users(q) = {h}
    OBVIOUS
  <2>1. PICK h \in Holder :
          \/ Acquire(h)
          \/ Release(h)
          \/ \E p \in Prefix : Fill(h, p) \/ Record(h, p) \/ Restore(h, p)
    BY DEF Next
  <2>2. CASE Acquire(h)
    <3>1. PICK x \in Eligible : content' = [content EXCEPT ![x] = NoPrefix]
      BY <2>2 DEF Acquire
    <3>2. x = q
      BY <3>1 DEF IInv, TypeOK
    <3> QED
      BY <3>1, <3>2 DEF Eligible, Stale, Leaves
  <2>3. CASE \E p \in Prefix : Fill(h, p)
    <3>1. tail[h] = q /\ tail[h] # NoPage
      BY <2>3 DEF Fill, IInv, TypeOK
    <3>2. content[q] = NoPrefix /\ \A g \in Holder : tail[g] = q => g = h
      BY <3>1 DEF IInv, TailFresh
    <3>3. \A g \in Holder, p \in Prefix : table[g][p] # q
      BY <3>2, Assumption DEF PagePoolAssumption, IInv, TypeOK, CacheCoherent
    <3>4. \A g \in Holder : g \in Users(q) <=> g = h
      BY <3>1, <3>2, <3>3, UsersMember
    <3>5. Users(q) = {h}
      BY <3>4, UsersFinite
    <3> QED
      BY <3>1, <3>5
  <2>4. CASE Release(h) \/ \E p \in Prefix : Record(h, p) \/ Restore(h, p)
    BY <2>4 DEF Release, Record, Restore
  <2> QED
    BY <2>1, <2>2, <2>3, <2>4
<1> QED
  BY <1>1, Invariance, PTL DEF Spec, OnlyAvailableRewritten
=============================================================================
