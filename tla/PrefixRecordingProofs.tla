------------------------ MODULE PrefixRecordingProofs ------------------------
(***************************************************************************)
(* Proofs about PrefixRecording for any requests, prompts, page and chunk  *)
(* lengths and limits.  Placed says what the phase of a request tells of   *)
(* its rows, its page chain and the published chain.  Sound, for requests  *)
(* with page keys, says that a page a request did not fill itself in its   *)
(* present run is full: so more rows never find it short, and a record,    *)
(* which takes full pages only, keeps the published chain full.            *)
(***************************************************************************)
EXTENDS PrefixRecording, SequenceTheorems, TLAPS

Context ==
  [phase : {"new", "ready", "chunking", "decode", "ended"}, prompt : Nat \ {0},
   all : Nat, rows : Nat, chain : Seq(Page), run : Nat]

Typed ==
  /\ ctx \in [Request -> Context]
  /\ trie \in Seq(Page)
  /\ evicted \in 0..Evictions
  /\ \A r \in Request : ctx[r].run <= evicted

\* A chain has the pages its rows need; a restored request has full pages of
\* the published chain and input left; one that decodes has its prompt published.
PlacedAs(c, published) ==
  /\ Len(c.chain) = PagesFor(c.rows)
  /\ c.prompt <= c.all
  /\ c.phase = "new" => c.rows = 0
  /\ c.phase = "ready" => c.rows = Len(c.chain) * PageLen /\ Len(c.chain) <= published
  /\ c.phase \in {"ready", "chunking"} => c.rows < c.all
  /\ c.phase = "decode" => c.prompt \div PageLen <= published

Placed == \A r \in Request : PlacedAs(ctx[r], Len(trie))

\* Page p is computed to its last row, when f gives the computed rows.
Full(f, p) == p \in DOMAIN f /\ f[p] >= PageLen

AllFull(t, f) == \A d \in DOMAIN t : Full(f, t[d])

\* The rows of page d among the first n.
RowsIn(n, d) == Least(PageLen, n - (d - 1) * PageLen)

\* A page of the chain is one of this run of r, filled as far as its rows go,
\* or it is full.
ChainRows(r, c, f) ==
  \A d \in DOMAIN c.chain :
    \/ /\ c.chain[d] = <<r, c.run, d>>
       /\ c.chain[d] \in DOMAIN f
       /\ f[c.chain[d]] = RowsIn(c.rows, d)
    \/ /\ ~(c.chain[d][1] = r /\ c.chain[d][2] = c.run)
       /\ Full(f, c.chain[d])

\* Pages are computed by their request, those of its present run in its chain.
Computed(f, cs) ==
  \A p \in DOMAIN f :
    /\ p \in Page /\ f[p] \in Int
    /\ p[2] <= cs[p[1]].run
    /\ p[2] = cs[p[1]].run => p[3] \in DOMAIN cs[p[1]].chain

Sound ==
  /\ Computed(filled, ctx)
  /\ AllFull(trie, filled)
  /\ \A r \in Request : ChainRows(r, ctx[r], filled)
-----------------------------------------------------------------------------
(* Division by the page length: both roundings, as what they are compared to. *)

LEMMA TimesGrows ==
  ASSUME NEW a \in Int, NEW b \in Int, NEW n \in Nat
  PROVE  /\ a * n \in Int
         /\ a <= b => a * n <= b * n
         /\ a < b => a * n + n <= b * n
OBVIOUS

LEMMA LengthNat == PageLen \in Nat /\ PageLen > 1 /\ PageLen # 0
BY Assumption DEF RecordingAssumption

LEMMA Quotient ==
  ASSUME NEW n \in Nat
  PROVE  /\ n \div PageLen \in Nat
         /\ (n \div PageLen) * PageLen <= n
         /\ n < (n \div PageLen) * PageLen + PageLen
BY LengthNat

\* k full pages fit in n rows.
LEMMA RoundDown ==
  ASSUME NEW n \in Nat, NEW k \in Int
  PROVE  k <= n \div PageLen <=> k * PageLen <= n
<1> DEFINE q == n \div PageLen
<1>1. /\ q \in Nat /\ PageLen \in Nat
      /\ q * PageLen <= n /\ n < q * PageLen + PageLen
  BY Quotient, LengthNat
<1>2. q * PageLen \in Int /\ k * PageLen \in Int
  BY <1>1, TimesGrows
<1>3. k <= q => k * PageLen <= q * PageLen
  BY <1>1, TimesGrows
<1>4. q < k => q * PageLen + PageLen <= k * PageLen
  BY <1>1, TimesGrows
<1> HIDE DEF q
<1>5. k <= q <=> k * PageLen <= n
  BY <1>1, <1>2, <1>3, <1>4
<1> QED
  BY <1>5 DEF q

\* n rows fit in k pages.
LEMMA RoundUp ==
  ASSUME NEW n \in Nat, NEW k \in Int
  PROVE  /\ PagesFor(n) \in Nat
         /\ PagesFor(n) <= k <=> n <= k * PageLen
<1> DEFINE m == n + PageLen - 1
<1>1. m \in Nat /\ PageLen \in Nat
  BY LengthNat
<1> HIDE DEF m
<1>2. m \div PageLen \in Nat
  BY <1>1, Quotient
<1>3. k + 1 <= m \div PageLen <=> (k + 1) * PageLen <= m
  BY <1>1, RoundDown
<1>4. k * PageLen \in Int /\ (k + 1) * PageLen = k * PageLen + PageLen
  BY <1>1
<1>5. PagesFor(n) = m \div PageLen /\ m = n + PageLen - 1
  BY DEF PagesFor, m
<1> QED
  BY <1>1, <1>2, <1>3, <1>4, <1>5

LEMMA PageRows ==
  ASSUME NEW n \in Nat, NEW d \in Int
  PROVE  /\ RowsIn(n, d) \in Int /\ RowsIn(n, d) <= PageLen
         /\ d * PageLen <= n <=> RowsIn(n, d) >= PageLen
         /\ \A m \in Nat : n <= m /\ RowsIn(n, d) >= PageLen => RowsIn(m, d) >= PageLen
<1>1. PageLen \in Nat /\ d * PageLen \in Int /\ (d - 1) * PageLen = d * PageLen - PageLen
  BY LengthNat
<1>2. (d - 1) * PageLen \in Int
  BY <1>1
<1> QED
  BY <1>1, <1>2 DEF RowsIn, Least
-----------------------------------------------------------------------------
(* What a record publishes. *)

LEMMA RecordableBound ==
  ASSUME NEW c \in Context, Len(c.chain) = PagesFor(c.rows)
  PROVE  /\ Recordable(c) \in Nat /\ Recordable(c) <= Len(c.chain)
         /\ Keyed => Recordable(c) * PageLen <= c.rows
<1>1. c.all \in Nat /\ c.rows \in Nat /\ c.prompt \in Nat /\ Len(c.chain) \in Nat
  BY DEF Context
<1>2. CASE Keyed
  <2> DEFINE a == Least(c.all, c.rows)
  <2>1. a \in Nat /\ a <= c.rows
    BY <1>1 DEF Least
  <2> HIDE DEF a
  <2>2. a \div PageLen \in Nat /\ c.prompt \div PageLen \in Nat
    BY <1>1, <2>1, Quotient
  <2>3. Recordable(c) = Least(a \div PageLen, c.prompt \div PageLen)
    BY <1>2 DEF Recordable, a
  <2>4. PICK m : m = Recordable(c)
    OBVIOUS
  <2>5. m \in Nat /\ m <= a \div PageLen
    BY <2>2, <2>3, <2>4 DEF Least
  <2>6. m * PageLen <= a /\ m * PageLen \in Int
    BY <2>1, <2>5, RoundDown, TimesGrows, LengthNat
  <2>7. m * PageLen <= c.rows
    BY <1>1, <2>1, <2>6
  <2>8. PICK p : p = PagesFor(c.rows)
    OBVIOUS
  <2>9. p \in Nat /\ c.rows <= p * PageLen /\ p * PageLen \in Int
    BY <1>1, <2>8, RoundUp, TimesGrows, LengthNat
  <2>10. p < m => p * PageLen + PageLen <= m * PageLen
    BY <2>5, <2>9, TimesGrows, LengthNat
  <2>11. m <= p
    BY <1>1, <2>5, <2>6, <2>7, <2>9, <2>10, LengthNat
  <2> QED
    BY <2>4, <2>5, <2>7, <2>8, <2>11
<1>3. CASE ~Keyed
  <2>1. PICK q \in Nat : q = c.all \div PageLen
    BY <1>1, Quotient
  <2>2. Recordable(c) = Least(q, Len(c.chain))
    BY <1>3, <2>1 DEF Recordable
  <2> QED
    BY <1>1, <1>3, <2>1, <2>2 DEF Least
<1> QED
  BY <1>2, <1>3

LEMMA RecordedChain ==
  ASSUME NEW t \in Seq(Page), NEW c \in Context, Len(c.chain) = PagesFor(c.rows)
  PROVE  /\ Recorded(t, c) \in Seq(Page)
         /\ Len(Recorded(t, c)) >= Len(t) /\ Len(Recorded(t, c)) >= Recordable(c)
         /\ \A d \in DOMAIN Recorded(t, c) :
              IF d <= Recordable(c)
              THEN d \in DOMAIN c.chain /\ Recorded(t, c)[d] = c.chain[d]
              ELSE d \in DOMAIN t /\ Recorded(t, c)[d] = t[d]
<1> DEFINE m == Recordable(c)
           n == IF m > Len(t) THEN m ELSE Len(t)
<1>1. m \in Nat /\ m <= Len(c.chain) /\ c.chain \in Seq(Page)
  BY RecordableBound DEF Context
<1>2. Recorded(t, c) = [d \in 1..n |-> IF d <= m THEN c.chain[d] ELSE t[d]]
  BY DEF Recorded
<1> HIDE DEF m
<1>3. n \in Nat /\ n >= m /\ n >= Len(t)
  BY <1>1
<1>4. \A d \in 1..n : IF d <= m THEN d \in DOMAIN c.chain ELSE d \in DOMAIN t
  BY <1>1
<1>5. \A d \in 1..n : (IF d <= m THEN c.chain[d] ELSE t[d]) \in Page
  BY <1>1, <1>4
<1> HIDE DEF n
<1>6. Recorded(t, c) \in Seq(Page)
  BY <1>2, <1>3, <1>5
<1>7. Len(Recorded(t, c)) = n /\ DOMAIN Recorded(t, c) = 1..n
  BY <1>2, <1>3
<1> QED
  BY <1>2, <1>3, <1>4, <1>6, <1>7 DEF m

\* With page keys, a record publishes full pages only.
LEMMA RecordedFull ==
  ASSUME NEW t \in Seq(Page), NEW c \in Context, Len(c.chain) = PagesFor(c.rows),
         Keyed, NEW r, NEW f, AllFull(t, f), ChainRows(r, c, f)
  PROVE  AllFull(Recorded(t, c), f)
<1> SUFFICES ASSUME NEW d \in DOMAIN Recorded(t, c)
             PROVE  Full(f, Recorded(t, c)[d])
  BY DEF AllFull
<1>1. CASE d <= Recordable(c)
  <2>1. d \in DOMAIN c.chain /\ Recorded(t, c)[d] = c.chain[d]
    BY <1>1, RecordedChain
  <2>2. PICK m \in Nat : m = Recordable(c) /\ m * PageLen <= c.rows
    BY RecordableBound
  <2>3. d \in Int /\ c.rows \in Nat
    BY <2>1 DEF Context
  <2>4. d * PageLen <= m * PageLen /\ d * PageLen \in Int /\ m * PageLen \in Int
    BY <1>1, <2>2, <2>3, TimesGrows, LengthNat
  <2>5. d * PageLen <= c.rows
    BY <2>2, <2>3, <2>4
  <2>6. RowsIn(c.rows, d) >= PageLen
    BY <2>3, <2>5, PageRows
  <2> QED
    BY <2>1, <2>6 DEF ChainRows, Full
<1>2. CASE ~(d <= Recordable(c))
  BY <1>2, RecordedChain DEF AllFull
<1> QED
  BY <1>1, <1>2
-----------------------------------------------------------------------------
(* A forward pass. *)

\* The same rows and pages, of the same input.
SameRun(c, d) ==
  c.prompt = d.prompt /\ c.rows = d.rows /\ c.chain = d.chain /\ c.run = d.run

LEMMA ExtendFields ==
  ASSUME NEW r, NEW c \in Context, NEW k \in Nat
  PROVE  Extend(r, c, k) =
           [phase |-> c.phase, prompt |-> c.prompt, all |-> c.all, rows |-> c.rows + k,
            chain |-> [d \in 1..PagesFor(c.rows + k) |->
                         IF d <= Len(c.chain) THEN c.chain[d] ELSE <<r, c.run, d>>],
            run |-> c.run]
<1> DEFINE s == [d \in 1..PagesFor(c.rows + k) |->
                   IF d <= Len(c.chain) THEN c.chain[d] ELSE <<r, c.run, d>>]
<1>1. Extend(r, c, k) = [c EXCEPT !.rows = c.rows + k, !.chain = s]
  BY DEF Extend
<1>2. PICK rows : rows = c.rows + k
  OBVIOUS
<1> HIDE DEF s
<1>3. PICK phase, prompt, all, chain, run, old :
        c = [phase |-> phase, prompt |-> prompt, all |-> all, rows |-> old,
             chain |-> chain, run |-> run]
  BY DEF Context
<1>4. PICK d : d = [c EXCEPT !.rows = rows]
  OBVIOUS
<1>5. d = [phase |-> phase, prompt |-> prompt, all |-> all, rows |-> rows,
           chain |-> chain, run |-> run]
  BY <1>3, <1>4
<1>6. [d EXCEPT !.chain = s] = [phase |-> phase, prompt |-> prompt, all |-> all,
                                rows |-> rows, chain |-> s, run |-> run]
  BY <1>5
<1>7. [c EXCEPT !.rows = rows, !.chain = s] = [d EXCEPT !.chain = s]
  BY <1>4, Zenon
<1>8. /\ c.phase = phase /\ c.prompt = prompt /\ c.all = all /\ c.run = run
  BY <1>3
<1> QED
  BY <1>1, <1>2, <1>6, <1>7, <1>8, Zenon DEF s

\* The chain keeps its pages and grows to what its rows need.
LEMMA ExtendChain ==
  ASSUME NEW r \in Request, NEW c \in Context, NEW k \in Nat,
         Len(c.chain) = PagesFor(c.rows), c.run <= Evictions
  PROVE  LET e == Extend(r, c, k)
         IN  /\ e \in Context
             /\ Len(e.chain) = PagesFor(e.rows) /\ Len(c.chain) <= Len(e.chain)
             /\ \A d \in DOMAIN c.chain : e.chain[d] = c.chain[d]
             /\ \A d \in DOMAIN e.chain \ DOMAIN c.chain : e.chain[d] = <<r, c.run, d>>
<1> DEFINE e == Extend(r, c, k)
<1>1. c.rows \in Nat /\ c.chain \in Seq(Page) /\ c.run \in Nat
  BY DEF Context
<1>2. PICK n \in Nat : n = PagesFor(c.rows + k) /\ c.rows + k <= n * PageLen
  BY <1>1, RoundUp
<1>3. PICK m : m = PagesFor(c.rows)
  OBVIOUS
<1>3a. m \in Nat /\ (m <= n <=> c.rows <= n * PageLen)
  <2>1. n \in Int
    OBVIOUS
  <2> QED
    BY <1>1, <1>3, <2>1, RoundUp, Zenon
<1>4. n * PageLen \in Int
  BY <1>2, TimesGrows, LengthNat
<1>5. m <= n
  BY <1>1, <1>2, <1>3a, <1>4
<1> DEFINE s == [d \in 1..n |-> IF d <= m THEN c.chain[d] ELSE <<r, c.run, d>>]
<1>6. e = [phase |-> c.phase, prompt |-> c.prompt, all |-> c.all, rows |-> c.rows + k,
           chain |-> s, run |-> c.run]
  BY <1>2, <1>3, ExtendFields
<1> HIDE DEF e
<1>7. ASSUME NEW d \in 1..n
      PROVE  (IF d <= m THEN c.chain[d] ELSE <<r, c.run, d>>) \in Page
  <2>1. CASE d <= m
    BY <1>1, <1>3, <1>3a, <2>1
  <2>2. CASE ~(d <= m)
    BY <1>1, <2>2, Assumption DEF Page, RecordingAssumption
  <2> QED
    BY <2>1, <2>2
<1>9. s \in Seq(Page) /\ Len(s) = n
  BY <1>7
<1>12. \A d \in 1..n : s[d] = IF d <= m THEN c.chain[d] ELSE <<r, c.run, d>>
  OBVIOUS
<1>11. Len(c.chain) = m /\ DOMAIN c.chain = 1..m /\ DOMAIN s = 1..n
  BY <1>1, <1>3, <1>3a
<1> HIDE DEF s
<1>10. e \in Context /\ e.rows = c.rows + k /\ e.chain = s
  <2>1. c.rows + k \in Nat
    BY <1>1
  <2> QED
    BY <1>6, <1>9, <2>1 DEF Context
<1>13. /\ \A d \in DOMAIN c.chain : s[d] = c.chain[d]
       /\ \A d \in DOMAIN s \ DOMAIN c.chain : s[d] = <<r, c.run, d>>
  BY <1>5, <1>11, <1>12
<1> QED
  BY <1>2, <1>5, <1>9, <1>10, <1>11, <1>13 DEF e

\* What a pass of r computes keeps full pages full and the chains of all
\* requests right, its own with the rows it now has.
LEMMA ComputeSound ==
  ASSUME ctx \in [Request -> Context], Sound,
         NEW r \in Request, NEW c \in Context,
         c.run = ctx[r].run, ctx[r].rows <= c.rows, DOMAIN ctx[r].chain \subseteq DOMAIN c.chain,
         \A d \in DOMAIN ctx[r].chain : c.chain[d] = ctx[r].chain[d],
         \A d \in DOMAIN c.chain \ DOMAIN ctx[r].chain : c.chain[d] = <<r, c.run, d>>,
         NEW f, f = Compute(r, c)
  PROVE  /\ \A p : Full(filled, p) => Full(f, p)
         /\ ChainRows(r, c, f)
         /\ \A s \in Request \ {r} : ChainRows(s, ctx[s], f)
         /\ \A p \in DOMAIN f :
              /\ p \in Page /\ f[p] \in Int
              /\ p \in DOMAIN filled
                   \/ (p[1] = r /\ p[2] = c.run /\ p[3] \in DOMAIN c.chain)
<1> DEFINE Mine(d) == c.chain[d][1] = r /\ c.chain[d][2] = c.run
           own == {c.chain[d] : d \in {e \in DOMAIN c.chain : Mine(e)}}
<1>0. /\ c.rows \in Nat /\ c.chain \in Seq(Page) /\ c.run \in Nat
      /\ ctx[r].rows \in Nat /\ ctx[r].chain \in Seq(Page)
  BY DEF Context
<1>1. f = [p \in DOMAIN filled \cup own |->
             IF p \in own THEN RowsIn(c.rows, p[3]) ELSE filled[p]]
  BY DEF Compute, RowsIn
<1>2. ASSUME NEW d \in DOMAIN c.chain, Mine(d)
      PROVE  c.chain[d] = <<r, c.run, d>> /\ c.chain[d] \in own /\ c.chain[d][3] = d
  <2>1. c.chain[d] = <<r, c.run, d>>
    <3>1. CASE d \in DOMAIN ctx[r].chain
      BY <1>2, <3>1 DEF Sound, ChainRows
    <3>2. CASE d \notin DOMAIN ctx[r].chain
      BY <3>2
    <3> QED
      BY <3>1, <3>2
  <2> QED
    BY <1>2, <2>1
<1>3. \A p \in own : \E d \in DOMAIN c.chain : Mine(d) /\ p = c.chain[d]
  OBVIOUS
<1>4. ASSUME NEW p \in own
      PROVE  /\ p[1] = r /\ p[2] = c.run /\ p[3] \in DOMAIN c.chain
             /\ p = c.chain[p[3]] /\ p = <<r, c.run, p[3]>> /\ p \in Page
  <2>1. PICK d \in DOMAIN c.chain : Mine(d) /\ p = c.chain[d]
    BY <1>3
  <2>2. p[3] = d
    BY <1>2, <2>1
  <2>3. c.chain[d] \in Page
    BY <1>0
  <2> QED
    BY <1>2, <2>1, <2>2, <2>3
<1> HIDE DEF own
<1>5. \A p \in own : p \in DOMAIN f /\ f[p] = RowsIn(c.rows, p[3])
  BY <1>1
<1>6. \A p \in DOMAIN filled \ own : p \in DOMAIN f /\ f[p] = filled[p]
  BY <1>1
<1>7. ASSUME NEW p, Full(filled, p) PROVE Full(f, p)
  <2>1. CASE p \in own
    <3>1. PICK d : d = p[3]
      OBVIOUS
    <3>2. d \in DOMAIN c.chain /\ p = c.chain[d] /\ p = <<r, c.run, d>> /\ d \in Nat
      BY <1>0, <1>4, <2>1, <3>1
    <3>3. d \in DOMAIN ctx[r].chain
      BY <1>4, <1>7, <2>1, <3>1 DEF Full, Sound, Computed
    <3>4. PICK n \in Nat : n = ctx[r].rows
      BY <1>0
    <3>5. ctx[r].chain[d] = p
      BY <3>2, <3>3
    <3>6. filled[p] = RowsIn(n, d)
      BY <3>2, <3>3, <3>4, <3>5 DEF Sound, ChainRows
    <3>7. n <= c.rows /\ c.rows \in Nat /\ d \in Int
      BY <1>0, <3>2, <3>4
    <3>8. RowsIn(n, d) >= PageLen
      BY <1>7, <3>6 DEF Full
    <3>9. RowsIn(c.rows, d) >= PageLen
      BY <3>7, <3>8, PageRows
    <3> QED
      BY <1>5, <2>1, <3>1, <3>9 DEF Full
  <2>2. CASE p \notin own
    BY <1>6, <1>7, <2>2 DEF Full
  <2> QED
    BY <2>1, <2>2
<1>8. ChainRows(r, c, f)
  <2> SUFFICES ASSUME NEW d \in DOMAIN c.chain
               PROVE  \/ /\ c.chain[d] = <<r, c.run, d>>
                         /\ c.chain[d] \in DOMAIN f
                         /\ f[c.chain[d]] = RowsIn(c.rows, d)
                      \/ ~Mine(d) /\ Full(f, c.chain[d])
    BY DEF ChainRows
  <2>1. CASE Mine(d)
    BY <1>2, <1>5, <2>1
  <2>2. CASE ~Mine(d)
    <3>1. d \in DOMAIN ctx[r].chain
      BY <2>2
    <3>2. Full(filled, c.chain[d])
      BY <2>2, <3>1 DEF Sound, ChainRows
    <3> QED
      BY <1>7, <2>2, <3>2
  <2> QED
    BY <2>1, <2>2
<1>9. ASSUME NEW s \in Request \ {r} PROVE ChainRows(s, ctx[s], f)
  <2> DEFINE e == ctx[s]
  <2> SUFFICES ASSUME NEW d \in DOMAIN e.chain
               PROVE  \/ /\ e.chain[d] = <<s, e.run, d>>
                         /\ e.chain[d] \in DOMAIN f
                         /\ f[e.chain[d]] = RowsIn(e.rows, d)
                      \/ ~(e.chain[d][1] = s /\ e.chain[d][2] = e.run) /\ Full(f, e.chain[d])
    BY DEF ChainRows
  <2>1. ChainRows(s, e, filled)
    BY DEF Sound
  <2> HIDE DEF e
  <2>2. CASE /\ e.chain[d] = <<s, e.run, d>>
             /\ e.chain[d] \in DOMAIN filled
             /\ filled[e.chain[d]] = RowsIn(e.rows, d)
    <3>1. e.chain[d] \notin own
      BY <1>4, <2>2
    <3> QED
      BY <1>6, <2>2, <3>1
  <2>3. CASE ~(e.chain[d][1] = s /\ e.chain[d][2] = e.run) /\ Full(filled, e.chain[d])
    BY <1>7, <2>3
  <2> QED
    BY <2>1, <2>2, <2>3 DEF ChainRows
<1>10. ASSUME NEW p \in DOMAIN f
       PROVE  /\ p \in Page /\ f[p] \in Int
              /\ p \in DOMAIN filled
                   \/ (p[1] = r /\ p[2] = c.run /\ p[3] \in DOMAIN c.chain)
  <2>1. CASE p \in own
    <3>1. PICK d : d = p[3]
      OBVIOUS
    <3>2. d \in Int
      BY <1>0, <1>4, <2>1, <3>1
    <3>3. RowsIn(c.rows, d) \in Int
      BY <1>0, <3>2, PageRows
    <3> QED
      BY <1>4, <1>5, <2>1, <3>1, <3>3
  <2>2. CASE p \notin own
    <3>1. p \in DOMAIN filled
      BY <1>1, <2>2
    <3> QED
      BY <1>6, <2>2, <3>1 DEF Sound, Computed
  <2> QED
    BY <2>1, <2>2
<1> QED
  BY <1>7, <1>8, <1>9, <1>10

\* The context c is that of r after a pass over k more tokens.
Grown(r, c, k) ==
  /\ c \in Context
  /\ c.prompt = ctx[r].prompt /\ c.all = ctx[r].all /\ c.run = ctx[r].run
  /\ c.rows = ctx[r].rows + k
  /\ Len(c.chain) = PagesFor(c.rows)
  /\ DOMAIN ctx[r].chain \subseteq DOMAIN c.chain
  /\ \A d \in DOMAIN ctx[r].chain : c.chain[d] = ctx[r].chain[d]
  /\ \A d \in DOMAIN c.chain \ DOMAIN ctx[r].chain : c.chain[d] = <<r, c.run, d>>

LEMMA ExtendGrows ==
  ASSUME Typed, Placed, NEW r \in Request, NEW k \in Nat, NEW c \in Context,
         SameRun(c, ctx[r]), c.all = ctx[r].all
  PROVE  Grown(r, Extend(r, c, k), k) /\ Extend(r, c, k).phase = c.phase
<1>1. /\ Len(c.chain) = PagesFor(c.rows) /\ c.run <= Evictions
      /\ c.rows = ctx[r].rows /\ c.chain = ctx[r].chain /\ c.run = ctx[r].run
      /\ c.prompt = ctx[r].prompt
  BY Assumption DEF Typed, Placed, PlacedAs, SameRun, Context, RecordingAssumption
<1>2. PICK e : e = Extend(r, c, k)
  OBVIOUS
<1>3. /\ e \in Context
      /\ Len(e.chain) = PagesFor(e.rows) /\ Len(c.chain) <= Len(e.chain)
      /\ \A d \in DOMAIN c.chain : e.chain[d] = c.chain[d]
      /\ \A d \in DOMAIN e.chain \ DOMAIN c.chain : e.chain[d] = <<r, c.run, d>>
  BY <1>1, <1>2, ExtendChain
<1>4. /\ e.phase = c.phase /\ e.prompt = c.prompt /\ e.all = c.all
      /\ e.rows = c.rows + k /\ e.run = c.run
  BY <1>2, ExtendFields
<1>5. c.chain \in Seq(Page) /\ e.chain \in Seq(Page)
  BY <1>3 DEF Context
<1>6. DOMAIN c.chain \subseteq DOMAIN e.chain
  BY <1>3, <1>5
<1> QED
  BY <1>1, <1>2, <1>3, <1>4, <1>6 DEF Grown
-----------------------------------------------------------------------------
(* One step, of one request. *)

LEMMA Turn ==
  ASSUME Typed, Placed, NEW r \in Request, NEW n \in Context,
         ctx'[r] = n, \A s \in Request \ {r} : ctx'[s] = ctx[s],
         ctx' = [s \in Request |-> ctx'[s]], PlacedAs(n, Len(trie')),
         trie' \in Seq(Page), Len(trie) <= Len(trie'),
         evicted <= evicted', evicted' \in 0..Evictions, n.run <= evicted'
  PROVE  Typed' /\ Placed'
<1>1. ctx' \in [Request -> Context] /\ ctx'[r] = n
      /\ \A s \in Request \ {r} : ctx'[s] = ctx[s]
  BY DEF Typed
<1>2. \A s \in Request : ctx'[s].run <= evicted'
  <2> SUFFICES ASSUME NEW s \in Request \ {r} PROVE ctx[s].run <= evicted'
    BY <1>1
  <2>1. ctx[s].run \in Nat /\ ctx[s].run <= evicted /\ evicted \in Int /\ evicted' \in Int
    BY Assumption DEF Typed, Context, RecordingAssumption
  <2> QED
    BY <2>1
<1>3. ASSUME NEW s \in Request PROVE PlacedAs(ctx'[s], Len(trie'))
  <2>1. CASE s = r
    BY <1>1, <2>1
  <2>2. CASE s # r
    <3>1. ctx'[s] = ctx[s] /\ ctx[s] \in Context
      BY <1>1, <2>2 DEF Typed
    <3>2. PICK c \in Context : c = ctx[s]
      BY <3>1
    <3>3. PICK a \in Nat : a = Len(trie)
      BY DEF Typed
    <3>4. PICK b \in Nat : b = Len(trie') /\ a <= b
      BY <3>3
    <3>5. c.prompt \div PageLen \in Nat /\ Len(c.chain) \in Nat
      <4>1. c.prompt \in Nat /\ c.chain \in Seq(Page)
        BY DEF Context
      <4>2. c.prompt \div PageLen \in Nat
        BY <4>1, Quotient, Zenon
      <4> QED
        BY <4>1, <4>2
    <3>6. PlacedAs(c, a)
      BY <3>2, <3>3 DEF Placed
    <3>7. PlacedAs(c, b)
      BY <3>4, <3>5, <3>6 DEF PlacedAs
    <3> QED
      BY <3>1, <3>2, <3>4, <3>7
  <2> QED
    BY <2>1, <2>2
<1> QED
  BY <1>1, <1>2, <1>3 DEF Typed, Placed

\* What a request computes and publishes in a pass leaves every chain right.
LEMMA PassSound ==
  ASSUME Typed, Sound, NEW r \in Request, NEW k \in Nat, NEW c, Grown(r, c, k),
         NEW n \in Context, SameRun(n, c), ctx' = [ctx EXCEPT ![r] = n],
         filled' = Compute(r, c), AllFull(trie', filled')
  PROVE  Sound'
<1>1. ctx'[r] = n /\ \A s \in Request \ {r} : ctx'[s] = ctx[s]
  BY DEF Typed
<1>2. PICK f : f = filled'
  OBVIOUS
<1>3. /\ c \in Context /\ c.run = ctx[r].run /\ ctx[r].rows <= c.rows
      /\ DOMAIN ctx[r].chain \subseteq DOMAIN c.chain
      /\ \A d \in DOMAIN ctx[r].chain : c.chain[d] = ctx[r].chain[d]
      /\ \A d \in DOMAIN c.chain \ DOMAIN ctx[r].chain : c.chain[d] = <<r, c.run, d>>
  <2>1. ctx[r].rows \in Nat /\ c.rows = ctx[r].rows + k
    BY DEF Grown, Typed, Context
  <2>2. ctx[r].rows <= c.rows
    BY <2>1
  <2> QED
    BY <2>2, Zenon DEF Grown
<1>4. /\ ChainRows(r, c, f)
      /\ \A s \in Request \ {r} : ChainRows(s, ctx[s], f)
      /\ \A p \in DOMAIN f :
           /\ p \in Page /\ f[p] \in Int
           /\ p \in DOMAIN filled
                \/ (p[1] = r /\ p[2] = c.run /\ p[3] \in DOMAIN c.chain)
  <2>1. ctx \in [Request -> Context] /\ f = Compute(r, c)
    BY <1>2 DEF Typed
  <2> QED
    BY <1>3, <2>1, ComputeSound
<1>5. ChainRows(r, n, f)
  BY <1>4 DEF ChainRows, SameRun
<1>6. \A s \in Request : ChainRows(s, ctx'[s], f)
  BY <1>1, <1>4, <1>5
<1>7. ASSUME NEW p \in DOMAIN f
      PROVE  /\ p \in Page /\ f[p] \in Int
             /\ p[2] <= ctx'[p[1]].run
             /\ p[2] = ctx'[p[1]].run => p[3] \in DOMAIN ctx'[p[1]].chain
  <2>1. p \in Page /\ f[p] \in Int /\ p[1] \in Request
    BY <1>4 DEF Page
  <2>2. n.run \in Nat /\ n.run = ctx[r].run /\ n.chain = c.chain /\ n.run = c.run
    BY <1>3 DEF SameRun, Context
  <2>3. CASE p \in DOMAIN filled
    <3>1. p[2] <= ctx[p[1]].run /\ (p[2] = ctx[p[1]].run => p[3] \in DOMAIN ctx[p[1]].chain)
      BY <2>3 DEF Sound, Computed
    <3> QED
      BY <1>1, <1>3, <2>1, <2>2, <3>1
  <2>4. CASE p[1] = r /\ p[2] = c.run /\ p[3] \in DOMAIN c.chain
    BY <1>1, <2>1, <2>2, <2>4
  <2> QED
    BY <1>4, <2>3, <2>4
<1> QED
  BY <1>2, <1>6, <1>7 DEF Sound, Computed
-----------------------------------------------------------------------------
(* The steps. *)

LEMMA RestoreFits ==
  ASSUME NEW c \in Context, c.prompt <= c.all, trie \in Seq(Page)
  PROVE  /\ Restorable(c) \in Nat /\ Restorable(c) <= Len(trie)
         /\ Restorable(c) * PageLen < c.all
         /\ PagesFor(Restorable(c) * PageLen) = Restorable(c)
<1>1. c.all \in Nat /\ c.prompt \in Nat \ {0} /\ Len(trie) \in Nat
  BY DEF Context
<1>2. PICK q \in Nat : q = c.all \div PageLen
  BY <1>1, Quotient
<1>3. PICK k : k = Least(q, Len(trie))
  OBVIOUS
<1>4. k \in Nat /\ k <= q /\ k <= Len(trie)
  BY <1>1, <1>3 DEF Least
<1>5. k * PageLen <= c.all /\ k * PageLen \in Int
  BY <1>1, <1>2, <1>4, RoundDown, TimesGrows, LengthNat
<1>6. PICK j : j = Restorable(c)
  OBVIOUS
<1>7. j = IF k > 0 /\ k * PageLen >= c.all THEN k - 1 ELSE k
  BY <1>2, <1>3, <1>6 DEF Restorable
<1>8. j \in Nat /\ j <= Len(trie)
  BY <1>1, <1>4, <1>7
<1>9. (k - 1) * PageLen = k * PageLen - PageLen /\ 0 * PageLen = 0
  BY <1>4, LengthNat
<1>10. j * PageLen < c.all
  BY <1>1, <1>4, <1>5, <1>7, <1>9, LengthNat
<1>11. PagesFor(j * PageLen) = j
  <2>1. PICK n \in Nat : n = j * PageLen
    BY <1>8, LengthNat
  <2>2. PICK m : m = PagesFor(n)
    OBVIOUS
  <2>3. m \in Nat /\ m <= j
    BY <1>8, <2>1, <2>2, RoundUp
  <2>4. n <= m * PageLen /\ m * PageLen \in Int
    BY <2>1, <2>2, <2>3, RoundUp, LengthNat
  <2>5. m < j => m * PageLen + PageLen <= n
    BY <1>8, <2>1, <2>3, TimesGrows, LengthNat
  <2>6. m = j
    BY <1>8, <2>3, <2>4, <2>5, LengthNat
  <2> QED
    BY <2>1, <2>2, <2>6
<1> QED
  BY <1>6, <1>8, <1>10, <1>11

LEMMA RestorePlaced ==
  ASSUME Typed, Placed, NEW r \in Request, Restore(r)
  PROVE  Typed' /\ Placed'
<1>1. PICK c \in Context : c = ctx[r]
  BY DEF Typed
<1>2. c.prompt <= c.all
  BY <1>1 DEF Placed, PlacedAs
<1>3. PICK k : k = Restorable(c)
  OBVIOUS
<1>4. /\ k \in Nat /\ k <= Len(trie) /\ k * PageLen < c.all /\ PagesFor(k * PageLen) = k
  BY <1>2, <1>3, RestoreFits DEF Typed
<1> DEFINE n == [phase |-> "ready", prompt |-> c.prompt, all |-> c.all,
                 rows |-> k * PageLen, chain |-> SubSeq(trie, 1, k), run |-> c.run]
<1>5. /\ ctx'[r] = n /\ \A s \in Request \ {r} : ctx'[s] = ctx[s]
      /\ ctx' = [s \in Request |-> ctx'[s]]
      /\ UNCHANGED <<trie, evicted>>
  BY <1>1, <1>3 DEF Restore, Context, Typed
<1>6. SubSeq(trie, 1, k) \in Seq(Page) /\ Len(SubSeq(trie, 1, k)) = k
  BY <1>4 DEF Typed
<1>7. k * PageLen \in Nat
  BY <1>4, LengthNat
<1>8. n \in Context
  BY <1>6, <1>7 DEF Context
<1>9. PlacedAs(n, Len(trie'))
  BY <1>2, <1>4, <1>5, <1>6 DEF PlacedAs
<1>10. n.run <= evicted
  BY <1>1 DEF Typed
<1>11. trie' \in Seq(Page) /\ Len(trie) <= Len(trie') /\ evicted <= evicted'
       /\ evicted' \in 0..Evictions /\ n.run <= evicted'
  BY <1>5, <1>10 DEF Typed
<1> HIDE DEF n
<1> QED
  BY <1>5, <1>8, <1>9, <1>11, Turn

\* Only the context of r changes.
Alone(r, n) ==
  /\ ctx'[r] = n /\ \A s \in Request \ {r} : ctx'[s] = ctx[s]
  /\ ctx' = [s \in Request |-> ctx'[s]]

LEMMA OnlyOne ==
  ASSUME Typed, NEW r \in Request, NEW n, ctx' = [ctx EXCEPT ![r] = n]
  PROVE  Alone(r, n)
BY DEF Typed, Alone

\* A chunk: the context after it, and what it needs to be recorded.
LEMMA ChunkGrows ==
  ASSUME Typed, Placed, NEW r \in Request, Chunk(r)
  PROVE  \E c : /\ Grown(r, c, ChunkLen) /\ c.phase = "chunking" /\ c.rows < c.all
                /\ ctx' = [ctx EXCEPT ![r] = c]
                /\ filled' = Compute(r, c) /\ trie' = Recorded(trie, c)
<1>1. PICK b : b = ctx[r]
  OBVIOUS
<1>2. b \in Context
  BY <1>1 DEF Typed
<1>3. PICK a : a = [b EXCEPT !.phase = "chunking"]
  OBVIOUS
<1>4. a \in Context /\ SameRun(a, b) /\ a.all = b.all /\ a.phase = "chunking"
  BY <1>2, <1>3 DEF Context, SameRun
<1>5. PICK c : c = Extend(r, a, ChunkLen)
  OBVIOUS
<1>6. ChunkLen \in Nat
  BY Assumption DEF RecordingAssumption
<1>7. Grown(r, c, ChunkLen) /\ c.phase = "chunking"
  BY <1>1, <1>4, <1>5, <1>6, ExtendGrows
<1>8. b.all - b.rows > ChunkLen /\ b.all \in Nat /\ b.rows \in Nat
  BY <1>1, <1>2 DEF Chunk, Left, Context
<1>9. c.rows < c.all
  BY <1>1, <1>6, <1>7, <1>8 DEF Grown
<1>10. /\ ctx' = [ctx EXCEPT ![r] = c]
       /\ filled' = Compute(r, c) /\ trie' = Recorded(trie, c)
  BY <1>1, <1>3, <1>5 DEF Chunk
<1> QED
  BY <1>7, <1>9, <1>10

LEMMA ChunkPlaced ==
  ASSUME Typed, Placed, NEW r \in Request, Chunk(r)
  PROVE  Typed' /\ Placed'
<1>1. PICK c : /\ Grown(r, c, ChunkLen) /\ c.phase = "chunking" /\ c.rows < c.all
               /\ ctx' = [ctx EXCEPT ![r] = c] /\ trie' = Recorded(trie, c)
  BY ChunkGrows
<1>2. c \in Context /\ Len(c.chain) = PagesFor(c.rows) /\ c.run = ctx[r].run
      /\ c.prompt = ctx[r].prompt /\ c.all = ctx[r].all
  BY <1>1 DEF Grown
<1>3. trie' \in Seq(Page) /\ Len(trie) <= Len(trie')
  BY <1>1, <1>2, RecordedChain DEF Typed
<1>4. c.prompt <= c.all /\ c.run <= evicted /\ evicted \in 0..Evictions /\ evicted' = evicted
  BY <1>2 DEF Typed, Placed, PlacedAs, Chunk
<1>5. evicted <= evicted'
  BY <1>4
<1>6. PlacedAs(c, Len(trie'))
  BY <1>1, <1>2, <1>4 DEF PlacedAs
<1>7. Alone(r, c)
  BY <1>1, OnlyOne
<1> QED
  BY <1>2, <1>3, <1>4, <1>5, <1>6, <1>7, Turn DEF Alone

\* The end of a pass: the context n it leaves, and m, what a record sees of it.
Finished(r, c, t, m, n) ==
  /\ n \in Context /\ SameRun(n, c) /\ c.all <= n.all /\ n.phase \in {"decode", "ended"}
  /\ m \in Context /\ SameRun(m, c)
  /\ ctx' = [ctx EXCEPT ![r] = n]
  /\ filled' = Compute(r, c)
  /\ trie' = t \/ trie' = Recorded(t, m)
  /\ evicted' = evicted

LEMMA FinishLeaves ==
  ASSUME NEW r \in Request, NEW c \in Context, NEW stopped \in BOOLEAN, NEW t,
         Finish(r, c, stopped, t)
  PROVE  \E m, n : Finished(r, c, t, m, n)
<1>1. PICK m : m = IF stopped THEN c ELSE [c EXCEPT !.all = @ + 1]
  OBVIOUS
<1>2. PICK over : over = (stopped \/ m.all - m.prompt = OutputLimit)
  OBVIOUS
<1>3. PICK n : n = [m EXCEPT !.phase = IF over THEN "ended" ELSE "decode"]
  OBVIOUS
<1>4. m \in Context /\ SameRun(m, c) /\ c.all <= m.all
  <2>1. CASE stopped
    BY <1>1, <2>1 DEF Context, SameRun
  <2>2. CASE ~stopped
    BY <1>1, <2>2 DEF Context, SameRun
  <2> QED
    BY <2>1, <2>2
<1>5. /\ n \in Context /\ SameRun(n, m) /\ n.all = m.all /\ n.phase \in {"decode", "ended"}
  BY <1>3, <1>4 DEF Context, SameRun
<1>6. /\ ctx' = [ctx EXCEPT ![r] = n] /\ filled' = Compute(r, c) /\ evicted' = evicted
      /\ trie' = t \/ trie' = Recorded(t, m)
  BY <1>1, <1>2, <1>3, Zenon DEF Finish
<1>7. SameRun(n, c) /\ c.all <= n.all
  BY <1>4, <1>5 DEF SameRun
<1> QED
  BY <1>4, <1>5, <1>6, <1>7 DEF Finished

LEMMA FinishPlaced ==
  ASSUME Typed, Placed, NEW r \in Request, NEW k, NEW c, Grown(r, c, k), NEW t \in Seq(Page),
         Len(trie) <= Len(t), c.prompt \div PageLen <= Len(t),
         NEW m, NEW n, Finished(r, c, t, m, n)
  PROVE  Typed' /\ Placed'
<1>1. c \in Context /\ Len(c.chain) = PagesFor(c.rows) /\ c.run = ctx[r].run
      /\ c.prompt = ctx[r].prompt /\ c.all = ctx[r].all
  BY DEF Grown
<1>2. c.prompt <= c.all /\ c.run <= evicted /\ evicted \in 0..Evictions
  BY <1>1 DEF Typed, Placed, PlacedAs
<1>3. m \in Context /\ Len(m.chain) = PagesFor(m.rows)
  BY <1>1 DEF Finished, SameRun
<1>4. trie' \in Seq(Page) /\ Len(t) <= Len(trie')
  <2>1. CASE trie' = t
    BY <2>1
  <2>2. CASE trie' = Recorded(t, m)
    BY <1>3, <2>2, RecordedChain
  <2> QED
    BY <2>1, <2>2 DEF Finished
<1>5. PICK q \in Nat : q = c.prompt \div PageLen
  <2>1. c.prompt \in Nat
    BY <1>1 DEF Context
  <2> QED
    BY <2>1, Quotient, Zenon
<1>6. Len(trie) <= Len(trie') /\ q <= Len(trie')
  <2>1. Len(t) \in Nat /\ Len(trie) \in Nat /\ Len(trie') \in Nat
    BY <1>4 DEF Typed
  <2> QED
    BY <1>4, <1>5, <2>1
<1>7. /\ n \in Context /\ Len(n.chain) = PagesFor(n.rows) /\ n.prompt = c.prompt
      /\ n.run = c.run /\ c.all <= n.all /\ n.phase \in {"decode", "ended"}
      /\ evicted' = evicted
  BY <1>1 DEF Finished, SameRun
<1>8. n.prompt <= n.all
  BY <1>1, <1>2, <1>7 DEF Context
<1>9. PlacedAs(n, Len(trie'))
  BY <1>5, <1>6, <1>7, <1>8 DEF PlacedAs
<1>10. Alone(r, n)
  BY OnlyOne DEF Finished
<1>11. evicted <= evicted' /\ evicted' \in 0..Evictions /\ n.run <= evicted'
  BY <1>2, <1>7
<1> QED
  BY <1>4, <1>6, <1>7, <1>9, <1>10, <1>11, Turn DEF Alone

\* The end of a prefill that is recorded publishes the prompt.
LEMMA PromptRecorded ==
  ASSUME NEW c \in Context, Len(c.chain) = PagesFor(c.rows), c.prompt <= c.all, c.rows = c.all
  PROVE  c.prompt \div PageLen <= Recordable(c)
<1>1. c.all \in Nat /\ c.prompt \in Nat /\ c.rows \in Nat /\ Len(c.chain) \in Nat
  BY DEF Context
<1>2. PICK q \in Nat : q = c.prompt \div PageLen /\ q * PageLen <= c.prompt
  BY <1>1, Quotient, Zenon
<1>3. PICK a \in Nat : a = c.all \div PageLen
  BY <1>1, Quotient, Zenon
<1>4. q * PageLen <= c.prompt /\ q * PageLen \in Int
  BY <1>2, LengthNat
<1>5. q * PageLen <= c.all
  BY <1>1, <1>4
<1>6. q <= a
  BY <1>1, <1>2, <1>3, <1>5, RoundDown
<1>7. CASE Keyed
  <2>1. Least(c.all, c.rows) = c.all
    BY DEF Least
  <2>2. Recordable(c) = Least(a, q)
    BY <1>2, <1>3, <1>7, <2>1 DEF Recordable
  <2> QED
    BY <1>2, <1>6, <2>2 DEF Least
<1>8. CASE ~Keyed
  <2>1. PICK p : p = PagesFor(c.rows)
    OBVIOUS
  <2>2. p \in Nat /\ c.rows <= p * PageLen /\ p * PageLen \in Int
    BY <1>1, <2>1, RoundUp, TimesGrows, LengthNat
  <2>3. p < q => p * PageLen + PageLen <= q * PageLen
    BY <1>2, <2>2, TimesGrows, LengthNat
  <2>4. q <= p
    BY <1>1, <1>2, <1>5, <2>2, <2>3, LengthNat
  <2>5. Recordable(c) = Least(a, p)
    BY <1>3, <1>8, <2>1 DEF Recordable
  <2> QED
    BY <1>2, <1>3, <1>6, <2>2, <2>4, <2>5 DEF Least
<1> QED
  BY <1>7, <1>8

\* A restored input of which a single token is left has its prompt published.
LEMMA PromptRestored ==
  ASSUME NEW c \in Context, NEW published \in Nat, PlacedAs(c, published),
         c.phase = "ready", Left(c) <= 1
  PROVE  c.prompt \div PageLen <= published
<1>1. c.all \in Nat /\ c.prompt \in Nat /\ c.rows \in Nat
  BY DEF Context
<1>2. PICK k \in Nat : k = Len(c.chain)
  BY DEF Context
<1>3. c.rows = k * PageLen /\ k <= published /\ c.rows < c.all /\ c.prompt <= c.all
  BY <1>2 DEF PlacedAs
<1>4. c.all <= k * PageLen + 1
  BY <1>1, <1>3 DEF Left
<1>5. PICK q \in Nat : q = c.prompt \div PageLen /\ q * PageLen <= c.prompt
  BY <1>1, Quotient, Zenon
<1>6. q * PageLen <= c.prompt /\ q * PageLen \in Int /\ k * PageLen \in Int
  BY <1>2, <1>5, LengthNat
<1>7. k < q => k * PageLen + PageLen <= q * PageLen
  BY <1>2, <1>5, TimesGrows, LengthNat
<1>8. q <= k
  BY <1>1, <1>2, <1>3, <1>4, <1>5, <1>6, <1>7, LengthNat
<1> QED
  BY <1>2, <1>3, <1>5, <1>8

\* The last pass of a prefill: what is published before the first token.
LEMMA PrefillGrows ==
  ASSUME Typed, Placed, NEW r \in Request, Prefill(r)
  PROVE  \E k \in Nat : \E c, t, m, n :
           /\ Grown(r, c, k) /\ Finished(r, c, t, m, n)
           /\ t \in Seq(Page) /\ Len(trie) <= Len(t) /\ c.prompt \div PageLen <= Len(t)
           /\ t = trie \/ t = Recorded(trie, c)
<1>1. PICK b : b = ctx[r]
  OBVIOUS
<1>2. b \in Context /\ PlacedAs(b, Len(trie))
  BY <1>1 DEF Typed, Placed
<1>3. /\ b.phase = "chunking" \/ b.phase = "ready"
      /\ b.all \in Nat /\ b.rows \in Nat /\ b.rows < b.all
  BY <1>1, <1>2 DEF Prefill, PlacedAs, Context
<1>4. PICK k \in Nat : k = Left(b) /\ k = b.all - b.rows
  BY <1>3 DEF Left
<1>5. PICK c : c = Extend(r, b, k)
  OBVIOUS
<1>6. Grown(r, c, k)
  BY <1>1, <1>2, <1>5, ExtendGrows DEF SameRun
<1>7. /\ c \in Context /\ Len(c.chain) = PagesFor(c.rows) /\ c.prompt = b.prompt
      /\ c.all = b.all /\ c.rows = b.rows + k
  BY <1>1, <1>6 DEF Grown
<1>8. c.rows = c.all /\ c.prompt <= c.all
  BY <1>2, <1>3, <1>4, <1>7 DEF PlacedAs
<1>9. PICK t : t = IF b.phase = "chunking" \/ k > 1 THEN Recorded(trie, c) ELSE trie
  OBVIOUS
<1>10. PICK stopped \in BOOLEAN : Finish(r, c, stopped, t)
  BY <1>1, <1>4, <1>5, <1>9 DEF Prefill
<1>11. PICK m, n : Finished(r, c, t, m, n)
  BY <1>7, <1>10, FinishLeaves
<1>12. t \in Seq(Page) /\ Len(trie) <= Len(t) /\ c.prompt \div PageLen <= Len(t)
  <2>1. PICK q \in Nat : q = c.prompt \div PageLen
    <3>1. c.prompt \in Nat
      BY <1>7 DEF Context
    <3> QED
      BY <3>1, Quotient, Zenon
  <2>2. CASE b.phase = "chunking" \/ k > 1
    <3>1. t = Recorded(trie, c) /\ trie \in Seq(Page)
      BY <1>9, <2>2 DEF Typed
    <3>2. t \in Seq(Page) /\ Len(trie) <= Len(t) /\ Recordable(c) <= Len(t)
      BY <1>7, <3>1, RecordedChain
    <3>3. PICK j \in Nat : j = Recordable(c)
      BY <1>7, RecordableBound
    <3>4. q <= j
      BY <1>7, <1>8, <2>1, <3>3, PromptRecorded
    <3> QED
      BY <2>1, <3>2, <3>3, <3>4
  <2>3. CASE ~(b.phase = "chunking" \/ k > 1)
    <3>1. t = trie /\ trie \in Seq(Page) /\ b.phase = "ready" /\ Left(b) <= 1
      BY <1>3, <1>4, <1>9, <2>3 DEF Typed
    <3>2. PICK j \in Nat : j = Len(trie)
      BY <3>1
    <3>3. b.prompt \div PageLen <= j
      BY <1>2, <3>1, <3>2, PromptRestored
    <3> QED
      BY <1>7, <3>1, <3>2, <3>3
  <2> QED
    BY <2>2, <2>3
<1> QED
  BY <1>6, <1>9, <1>11, <1>12

LEMMA DecodeGrows ==
  ASSUME Typed, Placed, NEW r \in Request, Decode(r)
  PROVE  \E c, m, n :
           /\ Grown(r, c, 1) /\ Finished(r, c, trie, m, n)
           /\ c.prompt \div PageLen <= Len(trie)
<1>1. PICK b : b = ctx[r]
  OBVIOUS
<1>2. b \in Context /\ b.prompt \div PageLen <= Len(trie)
  BY <1>1 DEF Typed, Placed, PlacedAs, Decode
<1>3. PICK c : c = Extend(r, b, 1)
  OBVIOUS
<1>4. Grown(r, c, 1)
  BY <1>1, <1>2, <1>3, ExtendGrows DEF SameRun
<1>5. PICK stopped \in BOOLEAN : Finish(r, c, stopped, trie)
  BY <1>1, <1>3 DEF Decode
<1>6. c \in Context /\ c.prompt = b.prompt
  BY <1>1, <1>4 DEF Grown
<1>7. PICK m, n : Finished(r, c, trie, m, n)
  BY <1>5, <1>6, FinishLeaves
<1> QED
  BY <1>2, <1>4, <1>6, <1>7

LEMMA PassPlaced ==
  ASSUME Typed, Placed, NEW r \in Request, Prefill(r) \/ Decode(r)
  PROVE  Typed' /\ Placed'
<1>1. CASE Prefill(r)
  BY <1>1, PrefillGrows, FinishPlaced
<1>2. CASE Decode(r)
  <2>1. trie \in Seq(Page) /\ Len(trie) <= Len(trie)
    BY DEF Typed
  <2> QED
    BY <1>2, <2>1, DecodeGrows, FinishPlaced
<1> QED
  BY <1>1, <1>2

LEMMA EvictLeaves ==
  ASSUME Typed, NEW r \in Request, Evict(r)
  PROVE  /\ Alone(r, [phase |-> "new", prompt |-> ctx[r].prompt, all |-> ctx[r].all,
                      rows |-> 0, chain |-> <<>>, run |-> ctx[r].run + 1])
         /\ UNCHANGED <<filled, trie>> /\ evicted < Evictions /\ evicted' = evicted + 1
BY DEF Typed, Context, Evict, Alone

LEMMA EvictPlaced ==
  ASSUME Typed, Placed, NEW r \in Request, Evict(r)
  PROVE  Typed' /\ Placed'
<1>1. PICK c \in Context : c = ctx[r] /\ c.prompt <= c.all
  BY DEF Typed, Placed, PlacedAs
<1>2. PICK n : n = [phase |-> "new", prompt |-> c.prompt, all |-> c.all,
                    rows |-> 0, chain |-> <<>>, run |-> c.run + 1]
  OBVIOUS
<1>3. Alone(r, n) /\ UNCHANGED trie /\ evicted < Evictions /\ evicted' = evicted + 1
  BY <1>1, <1>2, EvictLeaves
<1>4. n \in Context
  BY <1>2 DEF Context
<1>5. PagesFor(0) = 0
  BY RoundUp, LengthNat
<1>6. PlacedAs(n, Len(trie'))
  BY <1>1, <1>2, <1>5 DEF PlacedAs
<1>7. c.run \in Nat /\ c.run <= evicted /\ evicted \in 0..Evictions
  BY <1>1 DEF Typed, Context
<1>8. evicted <= evicted' /\ evicted' \in 0..Evictions /\ n.run <= evicted'
  BY <1>2, <1>3, <1>7, Assumption DEF RecordingAssumption
<1>9. trie' \in Seq(Page) /\ Len(trie) <= Len(trie')
  BY <1>3 DEF Typed
<1> QED
  BY <1>3, <1>4, <1>6, <1>8, <1>9, Turn DEF Alone

LEMMA AbortPlaced ==
  ASSUME Typed, Placed, NEW r \in Request, Abort(r)
  PROVE  Typed' /\ Placed'
<1>1. PICK c \in Context : c = ctx[r] /\ PlacedAs(c, Len(trie))
  BY DEF Typed, Placed
<1>2. PICK n : n = [c EXCEPT !.phase = "ended"]
  OBVIOUS
<1>3. ctx' = [ctx EXCEPT ![r] = n] /\ trie' = Recorded(trie, c) /\ evicted' = evicted
  BY <1>1, <1>2 DEF Abort
<1>4. n \in Context /\ SameRun(n, c) /\ n.all = c.all /\ n.phase = "ended"
  BY <1>2 DEF Context, SameRun
<1>5. trie' \in Seq(Page) /\ Len(trie) <= Len(trie')
  BY <1>1, <1>3, RecordedChain DEF Typed, PlacedAs
<1>6. PlacedAs(n, Len(trie'))
  BY <1>1, <1>4 DEF PlacedAs, SameRun
<1>7. n.run <= evicted /\ evicted \in 0..Evictions
  BY <1>1, <1>4 DEF Typed, SameRun
<1>8. evicted <= evicted' /\ evicted' \in 0..Evictions /\ n.run <= evicted'
  BY <1>3, <1>7
<1>9. Alone(r, n)
  BY <1>3, OnlyOne
<1> QED
  BY <1>4, <1>5, <1>6, <1>8, <1>9, Turn DEF Alone

LEMMA StepPlaced ==
  ASSUME Typed, Placed, [Next]_vars
  PROVE  Typed' /\ Placed'
<1>1. CASE Next
  BY <1>1, RestorePlaced, ChunkPlaced, PassPlaced, EvictPlaced, AbortPlaced DEF Next
<1>2. CASE UNCHANGED vars
  BY <1>2 DEF vars, Typed, Placed
<1> QED
  BY <1>1, <1>2
-----------------------------------------------------------------------------
(* With page keys, what is published and attended to is computed. *)

LEMMA RestoreSound ==
  ASSUME Typed, Placed, Sound, NEW r \in Request, Restore(r)
  PROVE  Sound'
<1>1. PICK c \in Context : c = ctx[r] /\ c.prompt <= c.all /\ c.rows = 0
                           /\ Len(c.chain) = PagesFor(c.rows)
  BY DEF Typed, Placed, PlacedAs, Restore
<1>2. c.chain \in Seq(Page) /\ DOMAIN c.chain = {}
  <2>1. PagesFor(0) = 0
    BY RoundUp, LengthNat
  <2> QED
    BY <1>1, <2>1 DEF Context
<1>3. PICK k : k = Restorable(c)
  OBVIOUS
<1>4. k \in Nat /\ k <= Len(trie) /\ trie \in Seq(Page)
  BY <1>1, <1>3, RestoreFits DEF Typed
<1>5. PICK n : n = [phase |-> "ready", prompt |-> c.prompt, all |-> c.all,
                    rows |-> k * PageLen, chain |-> SubSeq(trie, 1, k), run |-> c.run]
  OBVIOUS
<1>6. /\ ctx'[r] = n /\ \A s \in Request \ {r} : ctx'[s] = ctx[s]
      /\ UNCHANGED <<trie, filled>>
  BY <1>1, <1>3, <1>5 DEF Restore, Context, Typed
<1>7. \A d \in DOMAIN n.chain : d \in DOMAIN trie /\ n.chain[d] = trie[d]
  BY <1>4, <1>5
<1>8. ASSUME NEW p \in DOMAIN filled PROVE p \in Page /\ ~(p[1] = r /\ p[2] = n.run)
  <2>1. n.run = ctx[r].run
    BY <1>1, <1>5
  <2> QED
    BY <1>1, <1>2, <2>1 DEF Sound, Computed
<1>9. ChainRows(r, n, filled)
  BY <1>7, <1>8 DEF ChainRows, Sound, AllFull, Full
<1>10. \A s \in Request : ChainRows(s, ctx'[s], filled)
  BY <1>6, <1>9 DEF Sound
<1>11. Computed(filled, ctx')
  <2> SUFFICES ASSUME NEW p \in DOMAIN filled
               PROVE  /\ p \in Page /\ filled[p] \in Int
                      /\ p[2] <= ctx'[p[1]].run
                      /\ p[2] = ctx'[p[1]].run => p[3] \in DOMAIN ctx'[p[1]].chain
    BY DEF Computed
  <2>1. /\ p \in Page /\ filled[p] \in Int /\ p[1] \in Request
        /\ p[2] <= ctx[p[1]].run
        /\ p[2] = ctx[p[1]].run => p[3] \in DOMAIN ctx[p[1]].chain
    BY DEF Sound, Computed, Page
  <2>2. CASE p[1] # r
    BY <1>6, <2>1, <2>2
  <2>3. CASE p[1] = r
    BY <1>1, <1>5, <1>6, <1>8, <2>1, <2>3
  <2> QED
    BY <2>2, <2>3
<1> QED
  BY <1>6, <1>10, <1>11 DEF Sound

LEMMA EvictSound ==
  ASSUME Typed, Sound, NEW r \in Request, Evict(r)
  PROVE  Sound'
<1>1. PICK n : n = [phase |-> "new", prompt |-> ctx[r].prompt, all |-> ctx[r].all,
                    rows |-> 0, chain |-> <<>>, run |-> ctx[r].run + 1]
  OBVIOUS
<1>2. ctx'[r] = n /\ (\A s \in Request \ {r} : ctx'[s] = ctx[s]) /\ UNCHANGED <<filled, trie>>
  BY <1>1, EvictLeaves DEF Alone
<1>3. ChainRows(r, n, filled)
  BY <1>1 DEF ChainRows
<1>4. \A s \in Request : ChainRows(s, ctx'[s], filled)
  BY <1>2, <1>3 DEF Sound
<1>5. Computed(filled, ctx')
  <2> SUFFICES ASSUME NEW p \in DOMAIN filled
               PROVE  /\ p \in Page /\ filled[p] \in Int
                      /\ p[2] <= ctx'[p[1]].run
                      /\ p[2] = ctx'[p[1]].run => p[3] \in DOMAIN ctx'[p[1]].chain
    BY DEF Computed
  <2>1. /\ p \in Page /\ filled[p] \in Int /\ p[1] \in Request /\ p[2] \in Int
        /\ p[2] <= ctx[p[1]].run
        /\ p[2] = ctx[p[1]].run => p[3] \in DOMAIN ctx[p[1]].chain
    BY Assumption DEF Sound, Computed, Page, RecordingAssumption
  <2>2. CASE p[1] # r
    BY <1>2, <2>1, <2>2
  <2>3. CASE p[1] = r
    <3>1. ctx[r].run \in Nat /\ n.run = ctx[r].run + 1
      BY <1>1 DEF Typed, Context
    <3> QED
      BY <1>2, <2>1, <2>3, <3>1
  <2> QED
    BY <2>2, <2>3
<1> QED
  BY <1>2, <1>4, <1>5 DEF Sound

LEMMA AbortSound ==
  ASSUME Keyed, Typed, Placed, Sound, NEW r \in Request, Abort(r)
  PROVE  Sound'
<1>1. PICK c \in Context : c = ctx[r] /\ Len(c.chain) = PagesFor(c.rows)
  BY DEF Typed, Placed, PlacedAs
<1>2. PICK n : n = [c EXCEPT !.phase = "ended"]
  OBVIOUS
<1>3. ctx' = [ctx EXCEPT ![r] = n] /\ trie' = Recorded(trie, c) /\ filled' = filled
  BY <1>1, <1>2 DEF Abort
<1>4. SameRun(n, c)
  BY <1>2 DEF Context, SameRun
<1>5. ctx'[r] = n /\ \A s \in Request \ {r} : ctx'[s] = ctx[s]
  BY <1>3 DEF Typed
<1>6. AllFull(trie', filled)
  BY <1>1, <1>3, RecordedFull DEF Sound, Typed
<1>7. ChainRows(r, n, filled)
  BY <1>1, <1>4 DEF Sound, ChainRows, SameRun
<1>8. \A s \in Request : ChainRows(s, ctx'[s], filled)
  BY <1>5, <1>7 DEF Sound
<1>9. \A s \in Request : ctx'[s].run = ctx[s].run /\ ctx'[s].chain = ctx[s].chain
  BY <1>1, <1>4, <1>5 DEF SameRun
<1>10. Computed(filled, ctx')
  BY <1>9 DEF Sound, Computed, Page
<1> QED
  BY <1>3, <1>6, <1>8, <1>10 DEF Sound

\* Pages that were full before a pass are full after it.
LEMMA PassKeepsFull ==
  ASSUME Typed, Sound, NEW r \in Request, NEW k \in Nat, NEW c, Grown(r, c, k)
  PROVE  AllFull(trie, Compute(r, c)) /\ ChainRows(r, c, Compute(r, c))
<1>1. PICK f : f = Compute(r, c)
  OBVIOUS
<1>2. ctx[r].rows \in Nat /\ c.rows = ctx[r].rows + k
  BY DEF Grown, Typed, Context
<1>3. ctx[r].rows <= c.rows
  BY <1>2
<1>4. (\A p : Full(filled, p) => Full(f, p)) /\ ChainRows(r, c, f)
  BY <1>1, <1>3, ComputeSound DEF Grown, Typed
<1> QED
  BY <1>1, <1>4 DEF Sound, AllFull

LEMMA ChunkSound ==
  ASSUME Keyed, Typed, Placed, Sound, NEW r \in Request, Chunk(r)
  PROVE  Sound'
<1>1. PICK c : /\ Grown(r, c, ChunkLen) /\ ctx' = [ctx EXCEPT ![r] = c]
               /\ filled' = Compute(r, c) /\ trie' = Recorded(trie, c)
  BY ChunkGrows
<1>2. ChunkLen \in Nat
  BY Assumption DEF RecordingAssumption
<1>3. AllFull(trie, Compute(r, c)) /\ ChainRows(r, c, Compute(r, c))
  BY <1>1, <1>2, PassKeepsFull
<1>4. c \in Context /\ Len(c.chain) = PagesFor(c.rows) /\ trie \in Seq(Page)
  BY <1>1 DEF Grown, Typed
<1>5. AllFull(trie', filled')
  BY <1>1, <1>3, <1>4, RecordedFull
<1>6. SameRun(c, c)
  BY DEF SameRun
<1> QED
  BY <1>1, <1>2, <1>4, <1>5, <1>6, PassSound

LEMMA FinishSound ==
  ASSUME Keyed, Typed, Placed, Sound, NEW r \in Request, NEW k \in Nat, NEW c, Grown(r, c, k),
         NEW t, t = trie \/ t = Recorded(trie, c), NEW m, NEW n, Finished(r, c, t, m, n)
  PROVE  Sound'
<1>1. PICK f : f = Compute(r, c)
  OBVIOUS
<1>2. AllFull(trie, f) /\ ChainRows(r, c, f)
  BY <1>1, PassKeepsFull
<1>3. c \in Context /\ Len(c.chain) = PagesFor(c.rows) /\ trie \in Seq(Page)
  BY DEF Grown, Typed
<1>4. t \in Seq(Page) /\ AllFull(t, f)
  BY <1>2, <1>3, RecordedChain, RecordedFull
<1>5. m \in Context /\ Len(m.chain) = PagesFor(m.rows) /\ ChainRows(r, m, f)
  BY <1>2, <1>3 DEF Finished, SameRun, ChainRows
<1>6. AllFull(Recorded(t, m), f)
  BY <1>4, <1>5, RecordedFull
<1>7. filled' = f /\ AllFull(trie', f)
  BY <1>1, <1>4, <1>6 DEF Finished
<1>8. n \in Context /\ SameRun(n, c) /\ ctx' = [ctx EXCEPT ![r] = n] /\ filled' = Compute(r, c)
  BY DEF Finished
<1> QED
  BY <1>7, <1>8, PassSound

LEMMA StepSound ==
  ASSUME Keyed, Typed, Placed, Sound, [Next]_vars
  PROVE  Sound'
<1>1. ASSUME NEW r \in Request, Prefill(r) PROVE Sound'
  BY <1>1, PrefillGrows, FinishSound
<1>2. ASSUME NEW r \in Request, Decode(r) PROVE Sound'
  BY <1>2, DecodeGrows, FinishSound
<1>3. CASE Next
  BY <1>1, <1>2, <1>3, RestoreSound, ChunkSound, EvictSound, AbortSound DEF Next
<1>4. CASE UNCHANGED vars
  BY <1>4 DEF vars, Sound
<1> QED
  BY <1>3, <1>4
-----------------------------------------------------------------------------
LEMMA InitPlaced == Init => Typed /\ Placed /\ Sound
<1> SUFFICES ASSUME Init PROVE Typed /\ Placed /\ Sound
  OBVIOUS
<1>1. PICK n \in [Request -> PromptLens] : ctx = [r \in Request |-> NewContext(n[r])]
  BY DEF Init
<1>2. filled = <<>> /\ trie = <<>> /\ evicted = 0
  BY DEF Init
<1>3. PagesFor(0) = 0
  BY RoundUp, LengthNat
<1>4. ASSUME NEW r \in Request
      PROVE  /\ ctx[r] \in Context /\ PlacedAs(ctx[r], 0) /\ ctx[r].run = 0
             /\ ctx[r].chain = <<>>
  <2>1. n[r] \in Nat \ {0}
    BY Assumption DEF RecordingAssumption
  <2>2. ctx[r] = [phase |-> "new", prompt |-> n[r], all |-> n[r], rows |-> 0,
                  chain |-> <<>>, run |-> 0]
    BY <1>1 DEF NewContext
  <2> QED
    BY <1>3, <2>1, <2>2 DEF Context, PlacedAs
<1>5. ctx \in [Request -> Context]
  BY <1>1, <1>4
<1>6. evicted \in 0..Evictions
  BY <1>2, Assumption DEF RecordingAssumption
<1>7. Typed
  BY <1>2, <1>4, <1>5, <1>6 DEF Typed
<1>8. Placed
  BY <1>2, <1>4 DEF Placed
<1>9. Sound
  BY <1>2, <1>4 DEF Sound, Computed, AllFull, ChainRows
<1> QED
  BY <1>7, <1>8, <1>9

(* For any requests, prompts and lengths, a request that was restored from    *)
(* the cache and selected has a token left to run its forward pass on.        *)
THEOREM RecordingInputLeft == Spec => []InputLeft
<1>1. Typed /\ Placed => InputLeft
  <2> SUFFICES ASSUME Typed, Placed, NEW r \in Request, ctx[r].phase = "ready"
               PROVE  Left(ctx[r]) > 0
    BY DEF InputLeft
  <2>1. ctx[r].rows \in Nat /\ ctx[r].all \in Nat /\ ctx[r].rows < ctx[r].all
    BY DEF Typed, Context, Placed, PlacedAs
  <2> QED
    BY <2>1 DEF Left
<1> QED
  BY <1>1, InitPlaced, StepPlaced, PTL DEF Spec

(* For any requests, prompts and lengths, the full pages of a prompt are in   *)
(* the prefix cache once its prefill is done, chunked or not, restored or not,*)
(* evicted or not.                                                            *)
THEOREM RecordingPublishes == Spec => []PromptPublished
<1>1. Typed /\ Placed => PromptPublished
  <2> SUFFICES ASSUME Typed, Placed, NEW r \in Request, ctx[r].phase = "decode"
               PROVE  Len(trie) >= ctx[r].prompt \div PageLen
    BY DEF PromptPublished
  <2>1. ctx[r].prompt \in Nat /\ trie \in Seq(Page)
    BY DEF Typed, Context
  <2>2. ctx[r].prompt \div PageLen \in Nat
    BY <2>1, Quotient, Zenon
  <2>3. ctx[r].prompt \div PageLen <= Len(trie)
    BY DEF Placed, PlacedAs
  <2>4. PICK q \in Nat : q = ctx[r].prompt \div PageLen
    BY <2>2
  <2>5. q <= Len(trie) /\ Len(trie) \in Nat
    BY <2>1, <2>3, <2>4
  <2>6. Len(trie) >= q
    BY <2>5
  <2> QED
    BY <2>4, <2>6
<1> QED
  BY <1>1, InitPlaced, StepPlaced, PTL DEF Spec

(* With page keys, for any requests, prompts and lengths, every row that      *)
(* attention reads was computed, by this request or by the one that published *)
(* the page: a chunked, restored or evicted request never attends to a row    *)
(* nobody wrote.                                                              *)
THEOREM RecordingAttends ==
  ASSUME Keyed
  PROVE  Spec => []AttendsComputed
<1>1. Typed /\ Placed /\ Sound => AttendsComputed
  <2> SUFFICES ASSUME Typed, Placed, Sound, NEW r \in Request, NEW d \in DOMAIN ctx[r].chain
               PROVE  /\ ctx[r].chain[d] \in DOMAIN filled
                      /\ filled[ctx[r].chain[d]] >= RowsIn(ctx[r].rows, d)
    BY DEF AttendsComputed, RowsIn
  <2>1. PICK c \in Context : c = ctx[r]
    BY DEF Typed
  <2>2. c.rows \in Nat /\ d \in Int
    <3>1. c.rows \in Nat /\ c.chain \in Seq(Page) /\ d \in DOMAIN c.chain
      BY <2>1 DEF Context
    <3> QED
      BY <3>1
  <2>3. RowsIn(c.rows, d) \in Int /\ RowsIn(c.rows, d) <= PageLen
    BY <2>2, PageRows, Zenon
  <2>4. c.chain[d] \in DOMAIN filled => filled[c.chain[d]] \in Int
    BY DEF Sound, Computed
  <2>5. ChainRows(r, c, filled)
    BY <2>1 DEF Sound
  <2> QED
    BY <2>1, <2>3, <2>4, <2>5, LengthNat DEF ChainRows, Full
<1>2. Typed /\ Placed /\ Sound /\ [Next]_vars => Typed' /\ Placed' /\ Sound'
  BY StepPlaced, StepSound
<1> QED
  BY <1>1, <1>2, InitPlaced, PTL DEF Spec
==============================================================================
