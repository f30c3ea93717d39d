------------------------- MODULE ConnectorSplitProofs -------------------------
(***************************************************************************)
(* ConnectorSplit for every set of requests, every size of the pool and of *)
(* the context, every text, and one or two steps in flight:                *)
(*                                                                         *)
(*   IsConsistent      requests are in their queues, references in tables  *)
(*                     or behind the fence                                 *)
(*   LoadsStartThere   a transfer fills the table from the end of the hit  *)
(*   ExclusiveHolds    no step in flight uses a block of a transfer        *)
(*   TextHolds         every position counted as computed holds its text   *)
(*   ParkedLoadsLeaveRoom                                                  *)
(*                     a parked load leaves room for the prefills in flight, *)
(*                     where long prefills are not cut by a threshold        *)
(*                                                                         *)
(* In this order: numbers, folds and sums; the blocks (BlocksInv) and what *)
(* a call or a sequence of calls on the pool does to them; the requests,   *)
(* the queues and the steps (Control), action by action; the invariant     *)
(* SplitInv and what it gives; the steps in flight against the transfers   *)
(* (Flights, Exclusive); the text in the blocks (TextInv); and what is     *)
(* reserved (Room).                                                        *)
(***************************************************************************)
EXTENDS ConnectorSplit, BlockPoolProofs, SequenceTheorems, WellFoundedInduction

------------------------------------------------------------------------------
(***************************************************************************)
(* Numbers and sets of numbers.                                            *)
(***************************************************************************)

\* A set of naturals with an element has a least one.
LEMMA LeastNatural ==
  ASSUME NEW T, T \subseteq Nat, T # {}
  PROVE  \E x \in T : \A y \in T : x <= y
<1> DEFINE Less == OpToRel(<, Nat)
<1>1. IsWellFoundedOn(Less, Nat)
  BY NatLessThanWellFounded
<1> HIDE DEF Less
<1>2. PICK x \in T : \A y \in T : ~ (<<y, x>> \in Less)
  BY <1>1, WFMin
<1>3. ASSUME NEW y \in T
      PROVE  x <= y
  <2>1. ~ (y < x)
    BY <1>2 DEF Less, OpToRel
  <2> QED BY <2>1
<1> QED BY <1>3

\* Induction over the naturals up to n, for membership in a family of sets.
LEMMA Stays ==
  ASSUME NEW n \in Nat, NEW a, NEW S, a[0] \in S[0],
         \A k \in 1 .. n : a[k - 1] \in S[k - 1] => a[k] \in S[k]
  PROVE  \A k \in 0 .. n : a[k] \in S[k]
<1> DEFINE bad == {k \in 0 .. n : a[k] \notin S[k]}
<1> SUFFICES ASSUME bad # {}
             PROVE  FALSE
  OBVIOUS
<1>1. PICK k \in bad : \A j \in bad : k <= j
  <2>1. bad \subseteq Nat
    OBVIOUS
  <2> HIDE DEF bad
  <2> QED BY <2>1, LeastNatural
<1>2. k # 0 /\ k \in 1 .. n /\ k - 1 \in 0 .. n
  OBVIOUS
<1>3. k - 1 \notin bad
  BY <1>1, <1>2
<1> QED BY <1>2, <1>3

\* A set of naturals with a bound and an element has a greatest element.
LEMMA GreatestNatural ==
  ASSUME NEW n \in Nat, NEW S \in SUBSET (0 .. n), S # {}
  PROVE  \E i \in S : \A k \in S : k <= i
<1> DEFINE T == {n - i : i \in S}
<1>1. T \subseteq Nat /\ T # {}
  <2>1. \A i \in S : n - i \in Nat
    OBVIOUS
  <2> QED BY <2>1
<1> HIDE DEF T
<1>2. PICK t \in T : \A u \in T : t <= u
  BY <1>1, LeastNatural
<1>3. PICK i \in S : t = n - i
  BY <1>2 DEF T
<1>4. ASSUME NEW k \in S
      PROVE  k <= i
  <2>1. n - k \in T
    BY DEF T
  <2>2. n - i <= n - k
    BY <1>2, <1>3, <2>1
  <2> QED BY <2>2
<1> QED BY <1>4

\* The greatest of some of the numbers up to n.
LEMMA MaxOf ==
  ASSUME NEW n \in Nat, NEW s \in SUBSET (1 .. n), s # {}
  PROVE  Max(s) \in s /\ \A y \in s : Max(s) >= y
<1>1. PICK i \in s : \A k \in s : k <= i
  <2>1. s \in SUBSET (0 .. n)
    OBVIOUS
  <2> QED BY <2>1, GreatestNatural
<1>2. i \in s /\ \A y \in s : i >= y
  BY <1>1
<1> QED BY <1>2 DEF Max

\* The numbers up to k.
LEMMA MaxUpTo ==
  ASSUME NEW n \in Nat, NEW k \in 1 .. n
  PROVE  /\ 1 .. k \in SUBSET (1 .. n) /\ 1 .. k # {} /\ Max(1 .. k) = k
         /\ (1 .. k) \ {k} = 1 .. k - 1
<1>1. 1 .. k \in SUBSET (1 .. k) /\ 1 .. k # {} /\ k \in Nat /\ k \in 1 .. k
  OBVIOUS
<1>2. Max(1 .. k) \in 1 .. k /\ \A y \in 1 .. k : Max(1 .. k) >= y
  BY <1>1, MaxOf
<1>3. Max(1 .. k) = k
  BY <1>1, <1>2
<1> QED BY <1>3

\* Without its greatest, a set of numbers up to k is one of numbers up to k - 1.
LEMMA WithoutMax ==
  ASSUME NEW k \in Nat \ {0}, NEW s \in SUBSET (1 .. k), s # {}
  PROVE  Max(s) \in 1 .. k /\ s \ {Max(s)} \in SUBSET (1 .. k - 1)
<1>1. Max(s) \in s /\ \A y \in s : Max(s) >= y
  BY MaxOf
<1>2. ASSUME NEW y \in s \ {Max(s)}
      PROVE  y \in 1 .. k - 1
  <2>1. y \in 1 .. k /\ Max(s) \in 1 .. k /\ y # Max(s) /\ y <= Max(s)
    BY <1>1
  <2> QED BY <2>1
<1> QED BY <1>1, <1>2

------------------------------------------------------------------------------
(***************************************************************************)
(* Calls on the pool, one after the other.                                 *)
(***************************************************************************)

\* The recursive function the fold is defined by, up to n.
CallsRec(g, p, calls, n) ==
  g = [s \in SUBSET (1 .. n) |->
         IF s = {} THEN p ELSE Call(g[s \ {Max(s)}], calls[Max(s)])]

LEMMA CallsRecExists ==
  ASSUME NEW p, NEW calls, NEW n \in Nat
  PROVE  \E g : CallsRec(g, p, calls, n)
<1> DEFINE bad == {k \in Nat : ~ \E g : CallsRec(g, p, calls, k)}
<1> SUFFICES ASSUME bad # {}
             PROVE  FALSE
  OBVIOUS
<1>1. PICK k \in bad : \A j \in bad : k <= j
  <2>1. bad \subseteq Nat
    OBVIOUS
  <2> HIDE DEF bad
  <2> QED BY <2>1, LeastNatural
<1>2. k # 0
  <2>1. SUBSET (1 .. 0) = {{}}
    OBVIOUS
  <2>2. CallsRec([s \in SUBSET (1 .. 0) |-> p], p, calls, 0)
    BY <2>1 DEF CallsRec
  <2> QED BY <2>2
<1>3. PICK f : CallsRec(f, p, calls, k - 1)
  <2>1. k - 1 \in Nat /\ ~ (k <= k - 1)
    BY <1>2
  <2> QED BY <1>1, <2>1
<1> DEFINE g == [s \in SUBSET (1 .. k) |->
                   IF s = {} THEN p ELSE Call(f[s \ {Max(s)}], calls[Max(s)])]
<1>4. \A s \in SUBSET (1 .. k - 1) : s \in SUBSET (1 .. k) /\ g[s] = f[s]
  <2>1. \A s \in SUBSET (1 .. k - 1) : s \in SUBSET (1 .. k)
    OBVIOUS
  <2> QED BY <1>3, <2>1 DEF CallsRec
<1>5. \A s \in SUBSET (1 .. k) : s # {} =>
        Call(f[s \ {Max(s)}], calls[Max(s)]) = Call(g[s \ {Max(s)}], calls[Max(s)])
  <2> TAKE s \in SUBSET (1 .. k)
  <2> HAVE s # {}
  <2>1. s \ {Max(s)} \in SUBSET (1 .. k - 1)
    BY <1>2, WithoutMax
  <2>2. g[s \ {Max(s)}] = f[s \ {Max(s)}]
    BY <1>4, <2>1
  <2> QED BY <2>2
<1>6. CallsRec(g, p, calls, k)
  BY <1>5, Zenon DEF CallsRec
<1> QED BY <1>1, <1>6

\* a goes through the pools from p on, one call at a time.
CallStates(a, p, calls) ==
  /\ a[0] = p
  /\ \A k \in 1 .. Len(calls) : a[k] = Call(a[k - 1], calls[k])
  /\ Calls(p, calls) = a[Len(calls)]

LEMMA CallsChain ==
  ASSUME NEW p, NEW X, NEW calls \in Seq(X)
  PROVE  \E a : CallStates(a, p, calls)
<1> DEFINE n == Len(calls)
           f == CHOOSE g : CallsRec(g, p, calls, n)
<1>1. n \in Nat /\ DOMAIN calls = 1 .. n
  OBVIOUS
<1>2. Calls(p, calls) = f[1 .. n]
  BY <1>1 DEF Calls, FoldLeft, MapThenFoldSet, CallsRec
<1>3. CallsRec(f, p, calls, n)
  <2> HIDE DEF n
  <2> QED BY <1>1, CallsRecExists
<1> HIDE DEF f, n
<1> DEFINE a == [k \in 0 .. n |-> f[1 .. k]]
<1>4. a[0] = p
  <2>1. 1 .. 0 = {} /\ {} \in SUBSET (1 .. n)
    OBVIOUS
  <2> QED BY <1>1, <1>3, <2>1 DEF CallsRec
<1>5. ASSUME NEW k \in 1 .. n
      PROVE  a[k] = Call(a[k - 1], calls[k])
  <2> DEFINE s == 1 .. k
  <2>1. s \in SUBSET (1 .. n) /\ s # {} /\ Max(s) = k /\ s \ {k} = 1 .. k - 1
    BY <1>1, MaxUpTo
  <2>2. a[k] = f[s] /\ a[k - 1] = f[1 .. k - 1]
    BY <1>1
  <2> HIDE DEF s, a
  <2>3. f[s] = Call(f[s \ {Max(s)}], calls[Max(s)])
    BY <1>3, <2>1 DEF CallsRec
  <2> QED BY <2>1, <2>2, <2>3
<1>6. Calls(p, calls) = a[n]
  BY <1>1, <1>2
<1> HIDE DEF a
<1> QED BY <1>4, <1>5, <1>6 DEF CallStates, n

\* The calls up to k that free block b, and a call that publishes b under key.
FreesUpTo(calls, b, k) ==
  {i \in 1 .. k : calls[i].frees /\ b \in Elements(calls[i].row)}
Frees(calls, b) == FreesUpTo(calls, b, Len(calls))
PublishesAs(c, b, key) ==
  /\ ~ c.frees
  /\ \E i \in c.first + 1 .. c.last : c.row[i] = b /\ c.hashes[i] = key
Publishes(c, b) == ~ c.frees /\ \E i \in c.first + 1 .. c.last : c.row[i] = b

\* What the pool's methods may be called with.
GoodCall(c) ==
  /\ c.frees \in BOOLEAN
  /\ c.row \in Seq(Blocks) /\ NullBlock \notin Elements(c.row)
  /\ IF c.frees THEN Distinct(c.row) ELSE Cacheable(c.row, c.hashes, c.first, c.last)
GoodCalls(calls) == \A i \in DOMAIN calls : GoodCall(calls[i])

\* After the first k calls, x is what became of p.
CallsDid(x, p, calls, k) ==
  /\ PoolInv(x)
  /\ \A b \in RealBlocks : x.ref[b] = p.ref[b] - Cardinality(FreesUpTo(calls, b, k))
  /\ \A b \in Blocks :
       (\A i \in 1 .. k : ~ Publishes(calls[i], b)) => x.hash[b] = p.hash[b]
  /\ \A b \in Blocks :
       (\E i \in 1 .. k : Publishes(calls[i], b)) =>
         \E i \in 1 .. k : PublishesAs(calls[i], b, x.hash[b])

\* The k-th call frees b or it does not.
LEMMA FreesCount ==
  ASSUME NEW calls, NEW b, NEW k \in Nat \ {0}
  PROVE  /\ IsFiniteSet(FreesUpTo(calls, b, k))
         /\ Cardinality(FreesUpTo(calls, b, k)) \in Nat
         /\ Cardinality(FreesUpTo(calls, b, k)) =
              Cardinality(FreesUpTo(calls, b, k - 1))
                + (IF calls[k].frees /\ b \in Elements(calls[k].row) THEN 1 ELSE 0)
         /\ Cardinality(FreesUpTo(calls, b, k - 1)) \in Nat
<1> DEFINE now_ == FreesUpTo(calls, b, k)
           then == FreesUpTo(calls, b, k - 1)
<1>1. IsFiniteSet(1 .. k) /\ now_ \in SUBSET (1 .. k) /\ then \in SUBSET (1 .. k)
  BY FS_Interval DEF FreesUpTo
<1>2. IsFiniteSet(now_) /\ IsFiniteSet(then)
  BY <1>1, FS_Subset
<1>3. Cardinality(now_) \in Nat /\ Cardinality(then) \in Nat
  BY <1>2, FS_CardinalityType
<1>4. k \notin then
  BY DEF FreesUpTo
<1>5. CASE calls[k].frees /\ b \in Elements(calls[k].row)
  <2>1. now_ = then \cup {k}
    BY <1>5 DEF FreesUpTo
  <2> QED BY <1>2, <1>3, <1>4, <1>5, <2>1, FS_AddElement
<1>6. CASE ~ (calls[k].frees /\ b \in Elements(calls[k].row))
  <2>1. now_ = then
    BY <1>6 DEF FreesUpTo
  <2> QED BY <1>2, <1>3, <1>6, <2>1
<1> QED BY <1>5, <1>6

\* Among the first k calls are those before.
LEMMA FreesGrow ==
  ASSUME NEW calls, NEW b, NEW n \in Nat, NEW k \in 0 .. n
  PROVE  Cardinality(FreesUpTo(calls, b, k)) <= Cardinality(FreesUpTo(calls, b, n))
<1>1. IsFiniteSet(1 .. n)
  BY FS_Interval
<1>2. FreesUpTo(calls, b, n) \in SUBSET (1 .. n)
  BY DEF FreesUpTo
<1>3. IsFiniteSet(FreesUpTo(calls, b, n))
  BY <1>1, <1>2, FS_Subset
<1>4. FreesUpTo(calls, b, k) \subseteq FreesUpTo(calls, b, n)
  BY DEF FreesUpTo
<1> QED BY <1>3, <1>4, FS_Subset

\* One call more.
LEMMA CallStep ==
  ASSUME NEW p, PoolInv(p), NEW calls, NEW k \in Nat \ {0}, GoodCall(calls[k]),
         \A b \in RealBlocks : Cardinality(FreesUpTo(calls, b, k)) <= p.ref[b],
         NEW x, CallsDid(x, p, calls, k - 1)
  PROVE  CallsDid(Call(x, calls[k]), p, calls, k)
<1> DEFINE c == calls[k]
           y == Call(x, c)
           did(b) == Cardinality(FreesUpTo(calls, b, k - 1))
           does(b) == IF c.frees /\ b \in Elements(c.row) THEN 1 ELSE 0
<1>1. /\ PoolInv(x)
      /\ \A b \in RealBlocks : x.ref[b] = p.ref[b] - did(b)
  BY DEF CallsDid
<1>2. \A b \in RealBlocks : /\ Cardinality(FreesUpTo(calls, b, k)) = did(b) + does(b)
                            /\ did(b) \in Nat
  BY FreesCount
<1>3. \A b \in RealBlocks : p.ref[b] \in Nat /\ b \in Blocks /\ b # NullBlock
  BY BlockNumbers DEF PoolInv, PoolType
<1>4. GoodCall(c)
  OBVIOUS
<1>5. /\ PoolInv(y)
      /\ \A b \in RealBlocks : y.ref[b] = x.ref[b] - does(b)
      /\ \A b \in Blocks : ~ Publishes(c, b) => y.hash[b] = x.hash[b]
      /\ \A b \in Blocks : Publishes(c, b) => PublishesAs(c, b, y.hash[b])
  <2>1. CASE c.frees
    <3>1. y = FreeBlocks(x, c.row)
      BY <2>1 DEF Call
    <3>2. c.row \in Seq(Blocks) /\ Distinct(c.row) /\ NullBlock \notin Elements(c.row)
      BY <1>4, <2>1 DEF GoodCall
    <3>3. Elements(c.row) \subseteq RealBlocks
      BY <3>2 DEF Elements, RealBlocks
    <3>4. \A b \in Elements(c.row) \ {NullBlock} : x.ref[b] >= 1
      <4> TAKE b \in Elements(c.row) \ {NullBlock}
      <4>1. b \in RealBlocks /\ does(b) = 1
        BY <2>1, <3>3
      <4>2. did(b) + 1 <= p.ref[b]
        BY <1>2, <4>1
      <4> QED BY <1>1, <1>2, <1>3, <4>1, <4>2
    <3> HIDE DEF y, c, did
    <3>5. /\ PoolInv(y) /\ y.hash = x.hash
          /\ \A b \in Blocks : y.ref[b] =
               IF b \in Elements(c.row) \ {NullBlock} THEN x.ref[b] - 1 ELSE x.ref[b]
      BY <1>1, <3>1, <3>2, <3>4, FreeBlocksInv
    <3>6. \A b \in RealBlocks : x.ref[b] \in Nat
      BY <1>1, BlockNumbers DEF PoolInv, PoolType
    <3> QED BY <1>3, <2>1, <3>5, <3>6 DEF Publishes
  <2>2. CASE ~ c.frees
    <3>1. y = CacheFullBlocks(x, c.row, c.hashes, c.first, c.last)
      BY <2>2 DEF Call
    <3>2. /\ Cacheable(c.row, c.hashes, c.first, c.last)
          /\ c.row \in Seq(Blocks) /\ NullBlock \notin Elements(c.row)
      BY <1>4, <2>2 DEF GoodCall
    <3> HIDE DEF y, c
    <3>3. \A i \in c.first + 1 .. c.last : c.row[i] # NullBlock
      <4>1. c.first \in Nat /\ c.last \in Nat /\ c.last <= Len(c.row)
        BY <3>2 DEF Cacheable
      <4>2. \A i \in c.first + 1 .. c.last : i \in DOMAIN c.row
        BY <3>2, <4>1
      <4> QED BY <3>2, <4>2 DEF Elements
    <3>4. /\ PoolInv(y) /\ y.ref = x.ref
          /\ \A i \in c.first + 1 .. c.last : c.row[i] # NullBlock =>
               y.hash[c.row[i]] = c.hashes[i]
          /\ \A b \in Blocks :
               (\A i \in c.first + 1 .. c.last : c.row[i] # NullBlock => c.row[i] # b)
                 => y.hash[b] = x.hash[b]
      BY <1>1, <3>1, <3>2, CacheFullBlocksInv
    <3>5. \A b \in RealBlocks : x.ref[b] \in Nat
      BY <1>1, BlockNumbers DEF PoolInv, PoolType
    <3> QED BY <2>2, <3>3, <3>4, <3>5 DEF Publishes, PublishesAs
  <2> QED BY <2>1, <2>2
<1> HIDE DEF y, c, did
<1>6. \A b \in RealBlocks : y.ref[b] = p.ref[b] - Cardinality(FreesUpTo(calls, b, k))
  BY <1>1, <1>2, <1>3, <1>5
<1>7. \A b \in Blocks :
        (\A i \in 1 .. k : ~ Publishes(calls[i], b)) => y.hash[b] = p.hash[b]
  <2> TAKE b \in Blocks
  <2> HAVE \A i \in 1 .. k : ~ Publishes(calls[i], b)
  <2>1. /\ ~ Publishes(c, b)
        /\ \A i \in 1 .. k - 1 : ~ Publishes(calls[i], b)
    BY DEF c
  <2> QED BY <1>5, <2>1 DEF CallsDid
<1>8. ASSUME NEW b \in Blocks, \E i \in 1 .. k : Publishes(calls[i], b)
      PROVE  \E i \in 1 .. k : PublishesAs(calls[i], b, y.hash[b])
  <2>1. CASE Publishes(c, b)
    <3>1. PublishesAs(calls[k], b, y.hash[b]) /\ k \in 1 .. k
      BY <1>5, <2>1 DEF c
    <3> QED BY <3>1
  <2>2. CASE ~ Publishes(c, b)
    <3>1. \E i \in 1 .. k - 1 : Publishes(calls[i], b)
      BY <1>8, <2>2 DEF c
    <3>2. PICK i \in 1 .. k - 1 : PublishesAs(calls[i], b, x.hash[b])
      BY <3>1 DEF CallsDid
    <3>3. y.hash[b] = x.hash[b] /\ i \in 1 .. k
      BY <1>5, <2>2
    <3> QED BY <3>2, <3>3
  <2> QED BY <2>1, <2>2
<1> QED BY <1>5, <1>6, <1>7, <1>8 DEF CallsDid, y, c

\* Calls that are good and free no more than is referenced.
LEMMA CallsKeep ==
  ASSUME NEW p, PoolInv(p), NEW X, NEW calls \in Seq(X), GoodCalls(calls),
         \A b \in RealBlocks : Cardinality(Frees(calls, b)) <= p.ref[b]
  PROVE  CallsDid(Calls(p, calls), p, calls, Len(calls))
<1> DEFINE n == Len(calls)
<1>1. n \in Nat /\ DOMAIN calls = 1 .. n
  OBVIOUS
<1>2. PICK a : CallStates(a, p, calls)
  BY CallsChain
<1>3. \A b \in RealBlocks : p.ref[b] \in Nat
  BY BlockNumbers DEF PoolInv, PoolType
<1> DEFINE bad == {k \in 0 .. n : ~ CallsDid(a[k], p, calls, k)}
<1>4. bad = {}
  <2> SUFFICES ASSUME bad # {}
               PROVE  FALSE
    OBVIOUS
  <2>1. PICK k \in bad : \A j \in bad : k <= j
    <3>1. bad \subseteq Nat
      OBVIOUS
    <3> HIDE DEF bad
    <3> QED BY <3>1, LeastNatural
  <2>2. CallsDid(a[0], p, calls, 0)
    <3>1. a[0] = p
      BY <1>2 DEF CallStates
    <3>2. \A b : FreesUpTo(calls, b, 0) = {}
      BY DEF FreesUpTo
    <3>3. Cardinality({}) = 0
      BY FS_EmptySet
    <3>4. \A b \in RealBlocks : p.ref[b] = p.ref[b] - Cardinality(FreesUpTo(calls, b, 0))
      <4> HIDE DEF bad, n
      <4>1. \A b \in RealBlocks : Cardinality(FreesUpTo(calls, b, 0)) = 0
        BY <3>2, <3>3, Zenon
      <4>2. \A b \in RealBlocks : p.ref[b] = p.ref[b] - 0
        BY <1>3
      <4> QED BY <4>1, <4>2
    <3>5. 1 .. 0 = {}
      OBVIOUS
    <3> HIDE DEF bad
    <3> QED BY <3>1, <3>4, <3>5 DEF CallsDid
  <2>3. k \in 1 .. n /\ k - 1 \in 0 .. n /\ k \in Nat \ {0}
    BY <2>2
  <2>4. CallsDid(a[k - 1], p, calls, k - 1)
    BY <2>1, <2>3
  <2>5. \A b \in RealBlocks : Cardinality(FreesUpTo(calls, b, k)) <= p.ref[b]
    <3> TAKE b \in RealBlocks
    <3>1. /\ Cardinality(FreesUpTo(calls, b, k)) <= Cardinality(FreesUpTo(calls, b, n))
          /\ Cardinality(FreesUpTo(calls, b, n)) <= p.ref[b]
      BY <1>1, <2>3, FreesGrow DEF Frees
    <3>2. n \in Nat \ {0}
      BY <1>1, <2>3
    <3>3. /\ Cardinality(FreesUpTo(calls, b, k)) \in Nat
          /\ Cardinality(FreesUpTo(calls, b, n)) \in Nat
      <4> HIDE DEF n
      <4> QED BY <2>3, <3>2, FreesCount
    <3> QED BY <1>3, <3>1, <3>3
  <2>6. GoodCall(calls[k])
    BY <1>1, <2>3 DEF GoodCalls
  <2>7. CallsDid(Call(a[k - 1], calls[k]), p, calls, k)
    BY <2>3, <2>4, <2>5, <2>6, CallStep
  <2>8. a[k] = Call(a[k - 1], calls[k])
    BY <1>2, <2>3 DEF CallStates
  <2> QED BY <2>7, <2>8
<1>5. CallsDid(a[n], p, calls, n)
  BY <1>1, <1>4
<1> QED BY <1>2, <1>5 DEF CallStates

------------------------------------------------------------------------------
(***************************************************************************)
(* A sum of ones is a number of elements.                                  *)
(***************************************************************************)

\* The recursive function SumFunction is defined by.
IsTotal(g, f, D) ==
  g = [s \in SUBSET D |-> IF s = {} THEN 0
                          ELSE LET x == CHOOSE x \in s : TRUE IN f[x] + g[s \ {x}]]
Total(f, D) == CHOOSE g : IsTotal(g, f, D)

LEMMA SumOfOnes ==
  ASSUME NEW D, IsFiniteSet(D), NEW T,
         NEW f, f = [x \in D |-> IF x \in T THEN 1 ELSE 0]
  PROVE  SumFunction(f) = Cardinality({x \in D : x \in T})
<1> DEFINE size(s) == Cardinality({x \in s : x \in T})
           g == [s \in SUBSET D |-> size(s)]
           h == Total(f, D)
<1>1. \A s \in SUBSET D : IsFiniteSet(s) /\ IsFiniteSet({x \in s : x \in T})
  <2> TAKE s \in SUBSET D
  <2>1. IsFiniteSet(s)
    BY FS_Subset
  <2>2. {x \in s : x \in T} \subseteq s
    OBVIOUS
  <2> QED BY <2>1, <2>2, FS_Subset
<1>2. \A s \in SUBSET D : \A x \in s : size(s) = f[x] + size(s \ {x})
  <2> TAKE s \in SUBSET D
  <2> TAKE x \in s
  <2> DEFINE u == {y \in s : y \in T}
             v == {y \in s \ {x} : y \in T}
  <2>1. IsFiniteSet(u) /\ Cardinality(u) \in Nat
    BY <1>1, FS_CardinalityType
  <2>2. CASE x \in T
    <3>1. v = u \ {x} /\ x \in u /\ f[x] = 1
      BY <2>2
    <3>2. Cardinality(v) = Cardinality(u) - 1
      <4> HIDE DEF u, v
      <4> QED BY <2>1, <3>1, FS_RemoveElement
    <3> QED BY <2>1, <3>1, <3>2
  <2>3. CASE x \notin T
    <3>1. v = u /\ f[x] = 0
      BY <2>3
    <3> QED BY <2>1, <3>1
  <2> QED BY <2>2, <2>3
<1>3. size({}) = 0
  BY FS_EmptySet
<1> HIDE DEF size
<1>4. IsTotal(g, f, D)
  <2>1. \A s \in SUBSET D : s # {} =>
          size(s) = LET x == CHOOSE x \in s : TRUE IN f[x] + g[s \ {x}]
    <3> TAKE s \in SUBSET D
    <3> HAVE s # {}
    <3> DEFINE x == CHOOSE x \in s : TRUE
    <3>1. x \in s /\ s \ {x} \in SUBSET D
      OBVIOUS
    <3> HIDE DEF x
    <3>2. size(s) = f[x] + g[s \ {x}]
      BY <1>2, <3>1
    <3> QED BY <3>2 DEF x
  <2> QED BY <1>3, <2>1 DEF IsTotal
<1>5. IsTotal(h, f, D)
  BY <1>4 DEF Total
<1>6. SumFunction(f) = h[D]
  BY DEF SumFunction, SumFunctionOnSet, FoldFunctionOnSet, MapThenFoldSet, Total, IsTotal
<1> HIDE DEF h
<1>7. /\ h[{}] = 0
      /\ \A s \in SUBSET D : s # {} =>
           LET x == CHOOSE x \in s : TRUE IN h[s] = f[x] + h[s \ {x}]
  BY <1>5 DEF IsTotal
<1>8. \A s \in SUBSET D : h[s] = size(s)
  <2> DEFINE bad == {s \in SUBSET D : h[s] # size(s)}
             sizes == {Cardinality(s) : s \in bad}
  <2> SUFFICES ASSUME bad # {}
               PROVE  FALSE
    OBVIOUS
  <2>1. sizes \subseteq Nat /\ sizes # {}
    BY <1>1, FS_CardinalityType
  <2> HIDE DEF sizes
  <2>2. PICK n \in sizes : \A m \in sizes : n <= m
    BY <2>1, LeastNatural
  <2>3. PICK s \in bad : Cardinality(s) = n
    BY <2>2 DEF sizes
  <2>4. s \in SUBSET D /\ s # {}
    BY <1>3, <1>7
  <2> DEFINE x == CHOOSE x \in s : TRUE
  <2>5. x \in s /\ h[s] = f[x] + h[s \ {x}]
    BY <1>7, <2>4
  <2> HIDE DEF x
  <2>6. Cardinality(s \ {x}) = n - 1 /\ n \in Nat
    BY <1>1, <2>1, <2>2, <2>3, <2>4, <2>5, FS_RemoveElement
  <2>7. s \ {x} \notin bad
    <3>1. SUFFICES ASSUME s \ {x} \in bad
                   PROVE  FALSE
      OBVIOUS
    <3>2. n - 1 \in sizes
      BY <2>6, <3>1 DEF sizes
    <3> QED BY <2>2, <2>6, <3>2
  <2>8. h[s \ {x}] = size(s \ {x})
    BY <2>4, <2>7
  <2> QED BY <1>2, <2>3, <2>4, <2>5, <2>8
<1> QED BY <1>6, <1>8 DEF size

------------------------------------------------------------------------------
(***************************************************************************)
(* The block tables, the deferred entries and the pool: the part of the    *)
(* inductive invariant that is about the blocks.                           *)
(***************************************************************************)

EntryType == [fence : Int, blocks : Seq(Blocks)]

BlocksTyped ==
  /\ PoolInv(pool)
  /\ rows \in [Req -> Seq(Blocks)] /\ numCached \in [Req -> Nat]
  /\ deferred \in Seq(EntryType)

\* A table holds a block once and never the null block; its published part is
\* a part, and a context is longer.
IsRow(row) == Distinct(row) /\ NullBlock \notin Elements(row)
Rows == /\ \A r \in Req : IsRow(rows[r])
        /\ \A i \in DOMAIN deferred : IsRow(deferred[i].blocks)
Lengths == \A r \in Req : numCached[r] <= Len(rows[r]) /\ Len(rows[r]) < MaxLen

\* A block has a reference for every table and every deferred entry with it.
Holders(b) == {r \in Req : b \in Elements(rows[r])}
Deferrers(b) == {i \in DOMAIN deferred : b \in Elements(deferred[i].blocks)}
Refs == \A b \in RealBlocks :
          pool.ref[b] = Cardinality(Holders(b)) + Cardinality(Deferrers(b))

\* The published part of a table is cached as its text; the rest is cached as
\* nothing and is in no other table.
Hashes ==
  \A r \in Req :
    /\ \A i \in 1 .. numCached[r] : pool.hash[rows[r][i]] = BlockHash[r][i]
    /\ \A i \in numCached[r] + 1 .. Len(rows[r]) :
         pool.hash[rows[r][i]] = NoKey /\ pool.ref[rows[r][i]] = 1

BlocksInv == BlocksTyped /\ Rows /\ Lengths /\ Refs /\ Hashes

\* The constants.
LEMMA Constants ==
  /\ IsFiniteSet(Req) /\ MaxLen \in Nat /\ Depth \in 1 .. 2 /\ MaxExternal \in Nat
  /\ TokenBudget \in Nat /\ LongPrefill \in Nat /\ MaxRunning \in Nat /\ Watermark \in Nat
  /\ NoKey \notin Keys
  /\ \A r \in Req : PromptLen[r] \in Nat /\ PromptLen[r] >= 2 /\ PromptLen[r] < MaxLen
BY SplitAssumption, PoolAssumption

\* A text has a hash for every position of the context, and they differ.
LEMMA TextHashes ==
  ASSUME NEW r \in Req
  PROVE  /\ BlockHash[r] \in Seq(Keys) /\ Len(BlockHash[r]) = MaxLen
         /\ \A i \in 1 .. MaxLen : BlockHash[r][i] \in Keys /\ BlockHash[r][i] # NoKey
         /\ \A i, j \in 1 .. MaxLen : BlockHash[r][i] = BlockHash[r][j] => i = j
<1>1. MaxLen \in Nat /\ BlockHash[r] \in [1 .. MaxLen -> Keys]
  BY SplitAssumption
<1>2. BlockHash[r] \in Seq(Keys) /\ Len(BlockHash[r]) = MaxLen
  BY <1>1
<1>3. \A i \in 1 .. MaxLen : BlockHash[r][i] \in Keys /\ BlockHash[r][i] # NoKey
  BY <1>1, PoolAssumption
<1> QED BY <1>2, <1>3, SplitAssumption

\* Holders and deferrers are finitely many.
LEMMA HoldersCount ==
  ASSUME BlocksTyped, NEW b
  PROVE  /\ IsFiniteSet(Holders(b)) /\ Cardinality(Holders(b)) \in Nat
         /\ IsFiniteSet(Deferrers(b)) /\ Cardinality(Deferrers(b)) \in Nat
<1>1. Holders(b) \in SUBSET Req /\ Deferrers(b) \in SUBSET (1 .. Len(deferred))
  BY DEF Holders, Deferrers, BlocksTyped
<1>2. IsFiniteSet(Req) /\ IsFiniteSet(1 .. Len(deferred))
  <2>1. Len(deferred) \in Nat
    BY DEF BlocksTyped
  <2> QED BY <2>1, Constants, FS_Interval
<1> QED BY <1>1, <1>2, FS_Subset, FS_CardinalityType

\* A block without references is in no table and no entry.
LEMMA IdleIsUnheld ==
  ASSUME BlocksTyped, Refs, NEW b \in RealBlocks, pool.ref[b] = 0
  PROVE  /\ \A r \in Req : b \notin Elements(rows[r])
         /\ \A i \in DOMAIN deferred : b \notin Elements(deferred[i].blocks)
<1>1. Cardinality(Holders(b)) = 0 /\ Cardinality(Deferrers(b)) = 0
  BY HoldersCount DEF Refs
<1>2. Holders(b) = {} /\ Deferrers(b) = {}
  BY <1>1, HoldersCount, FS_EmptySet
<1> QED BY <1>2 DEF Holders, Deferrers

\* A block with one reference that is in a table is nowhere else.
LEMMA SingleHolder ==
  ASSUME BlocksTyped, Refs, NEW b \in RealBlocks, pool.ref[b] = 1,
         NEW r \in Req, b \in Elements(rows[r])
  PROVE  /\ \A q \in Req \ {r} : b \notin Elements(rows[q])
         /\ \A i \in DOMAIN deferred : b \notin Elements(deferred[i].blocks)
<1>1. IsFiniteSet(Holders(b)) /\ r \in Holders(b)
  BY HoldersCount DEF Holders
<1>2. Cardinality(Holders(b) \ {r}) = Cardinality(Holders(b)) - 1
  BY <1>1, FS_RemoveElement
<1>3. IsFiniteSet(Holders(b) \ {r}) /\ Cardinality(Holders(b) \ {r}) \in Nat
  BY <1>1, FS_RemoveElement, FS_CardinalityType
<1>4. Cardinality(Holders(b) \ {r}) = 0 /\ Cardinality(Deferrers(b)) = 0
  BY <1>2, <1>3, HoldersCount DEF Refs
<1>5. Holders(b) \ {r} = {} /\ Deferrers(b) = {}
  BY <1>3, <1>4, HoldersCount, FS_EmptySet
<1> QED BY <1>5 DEF Holders, Deferrers

\* A block in a table has a reference.
LEMMA HeldIsReferenced ==
  ASSUME BlocksTyped, Rows, Refs, NEW r \in Req, NEW b \in Elements(rows[r])
  PROVE  b \in RealBlocks /\ b \in Blocks /\ pool.ref[b] \in Nat /\ pool.ref[b] >= 1
<1>1. rows[r] \in Seq(Blocks) /\ NullBlock \notin Elements(rows[r])
  BY DEF BlocksTyped, Rows, IsRow
<1>2. b \in Blocks /\ b # NullBlock
  BY <1>1 DEF Elements
<1>3. b \in RealBlocks /\ pool.ref[b] \in Nat
  BY <1>2 DEF RealBlocks, BlocksTyped, PoolInv, PoolType
<1> QED BY <1>2, <1>3, IdleIsUnheld

------------------------------------------------------------------------------
(***************************************************************************)
(* allocate_slots.                                                         *)
(***************************************************************************)

\* A hit of the cache for r, which has one only while its table is empty.
IsHit(r, hit) ==
  /\ hit \in Seq(Blocks) /\ Len(hit) < MaxLen
  /\ hit = << >> \/ rows[r] = << >>
  /\ \A i \in 1 .. Len(hit) : pool.hash[hit[i]] = BlockHash[r][i]

\* A hit holds distinct blocks and not the null block.
LEMMA HitIsRow ==
  ASSUME BlocksTyped, NEW r \in Req, NEW hit, IsHit(r, hit)
  PROVE  /\ IsRow(hit) /\ Elements(hit) \in SUBSET Blocks
         /\ Elements(hit) \in SUBSET RealBlocks
         /\ \A b \in Elements(hit) : pool.hash[b] \in Keys /\ pool.hash[b] # NoKey
<1>1. /\ hit \in Seq(Blocks) /\ DOMAIN hit = 1 .. Len(hit) /\ Len(hit) \in Nat
      /\ Len(hit) < MaxLen /\ MaxLen \in Nat
      /\ \A i \in 1 .. Len(hit) : pool.hash[hit[i]] = BlockHash[r][i]
  BY Constants DEF IsHit
<1>2. \A i \in 1 .. Len(hit) : /\ i \in 1 .. MaxLen /\ BlockHash[r][i] \in Keys
                               /\ BlockHash[r][i] # NoKey
  BY <1>1, TextHashes
<1>3. Distinct(hit)
  <2>1. \A i, j \in 1 .. MaxLen : BlockHash[r][i] = BlockHash[r][j] => i = j
    BY TextHashes
  <2> QED BY <1>1, <1>2, <2>1 DEF Distinct
<1>4. \A b \in Elements(hit) : pool.hash[b] \in Keys /\ pool.hash[b] # NoKey /\ b \in Blocks
  BY <1>1, <1>2 DEF Elements
<1>5. pool.hash[NullBlock] = NoKey
  BY DEF BlocksTyped, PoolInv, IndexExact
<1> QED BY <1>3, <1>4, <1>5 DEF IsRow, RealBlocks

\* What the hit and new blocks make of the pool before anything is published.
Taken(hit, count) == GetNewBlocks(Touch(pool, Elements(hit)), count)
New(hit, count) == NewBlocks(Touch(pool, Elements(hit)), count)

\* The hit leaves the queue, so blocks taken afterwards are others, and were in
\* no table and no entry.
LEMMA TakenIsFresh ==
  ASSUME BlocksTyped, Refs, NEW r \in Req, NEW hit, IsHit(r, hit), NEW count \in Nat,
         CanGetNewBlocks(Touch(pool, Elements(hit)), count)
  PROVE  /\ PoolInv(Taken(hit, count))
         /\ New(hit, count) \in Seq(Blocks) /\ Len(New(hit, count)) = count
         /\ IsRow(New(hit, count))
         /\ \A b \in Elements(New(hit, count)) :
              /\ b \in RealBlocks /\ pool.ref[b] = 0 /\ b \notin Elements(hit)
              /\ \A q \in Req : b \notin Elements(rows[q])
              /\ \A i \in DOMAIN deferred : b \notin Elements(deferred[i].blocks)
         /\ \A b \in Blocks : Taken(hit, count).ref[b] =
              IF b \in Elements(hit) \/ b \in Elements(New(hit, count))
              THEN pool.ref[b] + 1 ELSE pool.ref[b]
         /\ \A b \in Blocks : Taken(hit, count).hash[b] =
              IF b \in Elements(New(hit, count)) THEN NoKey ELSE pool.hash[b]
<1> DEFINE t == Touch(pool, Elements(hit))
           new == New(hit, count)
           taken == Taken(hit, count)
<1>1. /\ Elements(hit) \in SUBSET Blocks /\ NullBlock \notin Elements(hit)
      /\ PoolInv(pool)
  BY HitIsRow DEF IsRow, BlocksTyped
<1>2. /\ PoolInv(t) /\ t.hash = pool.hash
      /\ \A b \in Blocks : t.ref[b] =
           IF b \in Elements(hit) THEN pool.ref[b] + 1 ELSE pool.ref[b]
  <2>1. /\ PoolInv(t) /\ t.hash = pool.hash
        /\ \A b \in Blocks : t.ref[b] =
             IF b \in Elements(hit) \ {NullBlock} THEN pool.ref[b] + 1 ELSE pool.ref[b]
    BY <1>1, TouchInv
  <2> QED BY <1>1, <2>1
<1> HIDE DEF t
<1>3. /\ PoolInv(taken) /\ new \in Seq(Blocks) /\ Distinct(new) /\ Len(new) = count
      /\ \A b \in Elements(new) : /\ b \in RealBlocks /\ t.ref[b] = 0
                                  /\ taken.ref[b] = 1 /\ taken.hash[b] = NoKey
      /\ \A b \in Blocks \ Elements(new) :
           taken.ref[b] = t.ref[b] /\ taken.hash[b] = t.hash[b]
  BY <1>2, GetNewBlocksInv DEF t, New, Taken
<1> HIDE DEF new, taken
<1>4. pool.ref \in [Blocks -> Nat]
  BY <1>1 DEF PoolInv, PoolType
<1>5. ASSUME NEW b \in Elements(new)
      PROVE  /\ b \in RealBlocks /\ b \in Blocks /\ b \notin Elements(hit)
             /\ pool.ref[b] = 0 /\ taken.ref[b] = 1
  <2>1. b \in Blocks /\ b \in RealBlocks /\ t.ref[b] = 0 /\ taken.ref[b] = 1
    BY <1>3, BlockNumbers
  <2>2. pool.ref[b] \in Nat
    BY <1>4, <2>1
  <2> QED BY <1>2, <2>1, <2>2
<1>6. ASSUME NEW b \in Elements(new)
      PROVE  /\ \A q \in Req : b \notin Elements(rows[q])
             /\ \A i \in DOMAIN deferred : b \notin Elements(deferred[i].blocks)
  BY <1>5, IdleIsUnheld
<1>7. \A b \in Blocks : taken.ref[b] =
        IF b \in Elements(hit) \/ b \in Elements(new) THEN pool.ref[b] + 1 ELSE pool.ref[b]
  BY <1>2, <1>3, <1>5
<1>8. \A b \in Blocks :
        taken.hash[b] = IF b \in Elements(new) THEN NoKey ELSE pool.hash[b]
  BY <1>2, <1>3
<1>9. IsRow(new)
  BY <1>3, <1>5, BlockNumbers DEF IsRow
<1> QED BY <1>3, <1>5, <1>6, <1>7, <1>8, <1>9 DEF t, new, taken

\* The table of r grows to row, of which upTo blocks are published, and the
\* pool with it.
Grows(r, hit, new, upTo) ==
  LET row == rows[r] \o hit \o new
      already == numCached[r] + Len(hit)
  IN  /\ rows' = [rows EXCEPT ![r] = row]
      /\ numCached' = [numCached EXCEPT ![r] = Greater(already, upTo)]
      /\ PoolInv(pool')
      /\ \A b \in Blocks : pool'.ref[b] =
           IF b \in Elements(hit) \/ b \in Elements(new)
           THEN pool.ref[b] + 1 ELSE pool.ref[b]
      /\ \A i \in already + 1 .. upTo : pool'.hash[row[i]] = BlockHash[r][i]
      /\ \A b \in Blocks : (\A i \in already + 1 .. upTo : row[i] # b) =>
           pool'.hash[b] = IF b \in Elements(new) THEN NoKey ELSE pool.hash[b]

\* Blocks that were idle.
Fresh(new, hit) ==
  /\ new \in Seq(Blocks) /\ IsRow(new)
  /\ \A b \in Elements(new) :
       /\ b \in RealBlocks /\ pool.ref[b] = 0 /\ b \notin Elements(hit)
       /\ \A q \in Req : b \notin Elements(rows[q])
       /\ \A i \in DOMAIN deferred : b \notin Elements(deferred[i].blocks)

\* The grown table: its old blocks, the hit and the new blocks, each once.
GrownRow(r, hit, new, row) ==
  /\ row \in Seq(Blocks) /\ IsRow(row)
  /\ Len(row) = Len(rows[r]) + Len(hit) + Len(new)
  /\ Elements(row) = Elements(rows[r]) \cup Elements(hit) \cup Elements(new)
  /\ \A i \in 1 .. Len(rows[r]) : row[i] = rows[r][i]
  /\ \A i \in 1 .. Len(hit) : row[i] = hit[i]
  /\ \A i \in Len(rows[r]) + Len(hit) + 1 .. Len(row) : row[i] \in Elements(new)

LEMMA RowGrows ==
  ASSUME BlocksTyped, Rows, NEW r \in Req, NEW hit, IsHit(r, hit),
         NEW new, Fresh(new, hit)
  PROVE  GrownRow(r, hit, new, rows[r] \o hit \o new)
<1> DEFINE old == rows[r]
           front == old \o hit
           row == front \o new
<1>1. /\ old \in Seq(Blocks) /\ hit \in Seq(Blocks) /\ new \in Seq(Blocks)
      /\ IsRow(old) /\ IsRow(hit) /\ IsRow(new)
      /\ hit = << >> \/ old = << >>
  BY HitIsRow DEF BlocksTyped, Rows, IsHit, Fresh
<1> HIDE DEF old
<1>2. /\ Elements(old) \cap Elements(hit) = {}
      /\ (Elements(old) \cup Elements(hit)) \cap Elements(new) = {}
  <2>1. Elements(<< >>) = {}
    BY DEF Elements
  <2> QED BY <1>1, <2>1 DEF Fresh, old
<1>3. /\ front \in Seq(Blocks) /\ Distinct(front)
      /\ Elements(front) = Elements(old) \cup Elements(hit)
      /\ Len(front) = Len(old) + Len(hit)
  BY <1>1, <1>2, ConcatElements DEF IsRow
<1>4. /\ \A i \in 1 .. Len(old) : front[i] = old[i]
      /\ \A i \in 1 .. Len(hit) : front[i] = hit[i]
  <2>1. CASE hit = << >>
    <3>1. front = old
      BY <1>1, <2>1
    <3> QED BY <2>1, <3>1
  <2>2. CASE old = << >>
    <3>1. front = hit
      BY <1>1, <2>2
    <3> QED BY <2>2, <3>1
  <2> QED BY <1>1, <2>1, <2>2
<1> HIDE DEF front
<1>5. /\ row \in Seq(Blocks) /\ Distinct(row)
      /\ Elements(row) = Elements(front) \cup Elements(new)
      /\ Len(row) = Len(front) + Len(new)
  <2>1. Elements(front) \cap Elements(new) = {} /\ Distinct(new)
    BY <1>1, <1>2, <1>3 DEF IsRow
  <2>2. front \in Seq(Blocks) /\ new \in Seq(Blocks) /\ Distinct(front)
    BY <1>1, <1>3
  <2> QED BY <2>1, <2>2, ConcatElements
<1>6. /\ \A i \in 1 .. Len(front) : row[i] = front[i]
      /\ \A i \in Len(front) + 1 .. Len(row) :
           row[i] = new[i - Len(front)] /\ i - Len(front) \in DOMAIN new
  BY <1>1, <1>3
<1> HIDE DEF row
<1>7. /\ \A i \in 1 .. Len(old) : row[i] = old[i]
      /\ \A i \in 1 .. Len(hit) : row[i] = hit[i]
  <2>1. Len(old) \in Nat /\ Len(hit) \in Nat
    BY <1>1
  <2>2. /\ \A i \in 1 .. Len(old) : i \in 1 .. Len(front)
        /\ \A i \in 1 .. Len(hit) : i \in 1 .. Len(front)
    BY <1>3, <2>1
  <2> QED BY <1>4, <1>6, <2>2
<1>8. IsRow(row)
  BY <1>1, <1>3, <1>5 DEF IsRow
<1>9. \A i \in Len(old) + Len(hit) + 1 .. Len(row) : row[i] \in Elements(new)
  BY <1>3, <1>6 DEF Elements
<1> QED BY <1>3, <1>5, <1>7, <1>8, <1>9 DEF GrownRow, old, front, row

\* What fits can be taken from the free queue: the watermark and the blocks
\* reserved only make the test harder.
LEMMA FitsCanTake ==
  ASSUME BlocksTyped, NEW r \in Req, NEW hit, IsHit(r, hit), NEW target,
         NEW watermark \in Nat, NEW reserved \in Nat, NumNew(r, hit, target) \in Nat,
         Fits(r, hit, target, watermark, reserved)
  PROVE  CanGetNewBlocks(Touch(pool, Elements(hit)), NumNew(r, hit, target))
<1> DEFINE idle == {b \in Elements(hit) : pool.ref[b] = 0}
<1>1. /\ Elements(hit) \in SUBSET Blocks /\ NullBlock \notin Elements(hit)
      /\ PoolInv(pool) /\ pool.numFree \in Nat
  BY HitIsRow DEF IsRow, BlocksTyped, PoolInv, PoolType
<1>2. {b \in Elements(hit) \ {NullBlock} : pool.ref[b] = 0} = idle
  BY <1>1
<1>3. Touch(pool, Elements(hit)).numFree = pool.numFree - Cardinality(idle)
  BY <1>1, <1>2, TouchInv
<1>4. Cardinality(idle) \in Nat
  <2>1. IsFiniteSet(Blocks) /\ idle \subseteq Blocks
    BY <1>1, BlockNumbers
  <2> QED BY <2>1, FS_Subset, FS_CardinalityType
<1>5. NumNew(r, hit, target) + Cardinality(idle) + watermark <= pool.numFree - reserved
  BY DEF Fits
<1> HIDE DEF idle
<1> QED BY <1>1, <1>3, <1>4, <1>5 DEF CanGetNewBlocks

\* The number of new blocks, and how much of the text is published.
LEMMA NewCount ==
  ASSUME BlocksTyped, NEW r \in Req, NEW hit, IsHit(r, hit), NEW target \in Nat
  PROVE  /\ NumNew(r, hit, target) \in Nat /\ Len(rows[r]) \in Nat /\ Len(hit) \in Nat
         /\ NumNew(r, hit, target) >= target - Len(rows[r]) - Len(hit)
         /\ NumNew(r, hit, target) = 0
              \/ NumNew(r, hit, target) = target - Len(rows[r]) - Len(hit)
<1>1. Len(rows[r]) \in Nat /\ Len(hit) \in Nat
  BY DEF BlocksTyped, IsHit
<1> DEFINE d == target - Len(rows[r]) - Len(hit)
<1>2. d \in Int /\ NumNew(r, hit, target) = Greater(d, 0)
  BY <1>1 DEF NumNew
<1> HIDE DEF d
<1>3. /\ Greater(d, 0) \in Nat /\ Greater(d, 0) >= d
      /\ Greater(d, 0) = 0 \/ Greater(d, 0) = d
  BY <1>2 DEF Greater
<1> QED BY <1>1, <1>2, <1>3 DEF d

LEMMA CacheUpToBound ==
  ASSUME NEW r \in Req, NEW target \in Nat, numTokens[r] \in Nat, NEW delay \in BOOLEAN
  PROVE  CacheUpTo(r, target, delay) \in Nat /\ CacheUpTo(r, target, delay) <= target
BY DEF CacheUpTo, Lesser

\* allocate_slots makes the table, the pool and the counters grow.
LEMMA AllocateGrows ==
  ASSUME BlocksInv, NEW r \in Req, NEW hit, IsHit(r, hit),
         NEW target \in Nat, target < MaxLen, numTokens[r] \in Nat, NEW delay \in BOOLEAN,
         CanGetNewBlocks(Touch(pool, Elements(hit)), NumNew(r, hit, target)),
         AllocateSlots(r, hit, target, delay)
  PROVE  \E new : /\ Fresh(new, hit) /\ Len(new) = NumNew(r, hit, target)
                  /\ Grows(r, hit, new, CacheUpTo(r, target, delay))
<1> DEFINE count   == NumNew(r, hit, target)
           new     == New(hit, count)
           taken   == Taken(hit, count)
           row     == rows[r] \o hit \o new
           already == numCached[r] + Len(hit)
           upTo    == CacheUpTo(r, target, delay)
<1>1. /\ rows' = [rows EXCEPT ![r] = row]
      /\ numCached' = [numCached EXCEPT ![r] = Greater(already, upTo)]
      /\ pool' = CacheFullBlocks(taken, row, BlockHash[r], already, upTo)
  BY DEF AllocateSlots, New, Taken
<1>2. BlocksTyped /\ Rows /\ Refs
  BY DEF BlocksInv
<1>3. /\ count \in Nat /\ Len(rows[r]) \in Nat /\ Len(hit) \in Nat
      /\ count >= target - Len(rows[r]) - Len(hit)
  BY <1>2, NewCount
<1>4. upTo \in Nat /\ upTo <= target
  BY CacheUpToBound
<1>5. /\ PoolInv(taken) /\ new \in Seq(Blocks) /\ Len(new) = count /\ IsRow(new)
      /\ \A b \in Elements(new) :
           /\ b \in RealBlocks /\ pool.ref[b] = 0 /\ b \notin Elements(hit)
           /\ \A q \in Req : b \notin Elements(rows[q])
           /\ \A i \in DOMAIN deferred : b \notin Elements(deferred[i].blocks)
      /\ \A b \in Blocks : taken.ref[b] =
           IF b \in Elements(hit) \/ b \in Elements(new)
           THEN pool.ref[b] + 1 ELSE pool.ref[b]
      /\ \A b \in Blocks : taken.hash[b] = IF b \in Elements(new) THEN NoKey ELSE pool.hash[b]
  BY <1>2, <1>3, TakenIsFresh
<1> HIDE DEF count, new, taken
<1>6. Fresh(new, hit)
  BY <1>5 DEF Fresh
<1>7. GrownRow(r, hit, new, row)
  BY <1>2, <1>6, RowGrows
<1> HIDE DEF row, upTo
<1>8. /\ row \in Seq(Blocks) /\ Distinct(row) /\ NullBlock \notin Elements(row)
      /\ upTo <= Len(row) /\ upTo <= MaxLen
  BY <1>3, <1>4, <1>5, <1>7, Constants DEF GrownRow, IsRow
<1>9. already \in Nat
  BY <1>2, <1>3 DEF BlocksTyped
<1> HIDE DEF already
<1>10. \A i \in already + 1 .. upTo : i \in DOMAIN row /\ i \in 1 .. MaxLen
  <2>1. DOMAIN row = 1 .. Len(row) /\ Len(row) \in Nat
    BY <1>8
  <2> QED BY <1>4, <1>8, <1>9, <2>1, Constants
<1>11. Cacheable(row, BlockHash[r], already, upTo)
  <2>1. /\ BlockHash[r] \in Seq(Keys) /\ Len(BlockHash[r]) = MaxLen
        /\ \A i, j \in 1 .. MaxLen : BlockHash[r][i] = BlockHash[r][j] => i = j
    BY TextHashes
  <2>2. \A i, j \in already + 1 .. upTo : row[i] = row[j] => i = j
    BY <1>8, <1>10 DEF Distinct
  <2>3. \A i, j \in already + 1 .. upTo : BlockHash[r][i] = BlockHash[r][j] => i = j
    BY <1>10, <2>1
  <2> QED BY <1>4, <1>8, <1>9, <2>1, <2>2, <2>3 DEF Cacheable
<1>12. \A i \in already + 1 .. upTo : row[i] # NullBlock
  BY <1>8, <1>10 DEF Elements
<1>13. /\ PoolInv(pool') /\ pool'.ref = taken.ref
       /\ \A i \in already + 1 .. upTo : row[i] # NullBlock => pool'.hash[row[i]] = BlockHash[r][i]
       /\ \A b \in Blocks :
            (\A i \in already + 1 .. upTo : row[i] # NullBlock => row[i] # b)
              => pool'.hash[b] = taken.hash[b]
  BY <1>1, <1>5, <1>11, CacheFullBlocksInv
<1>14. /\ \A i \in already + 1 .. upTo : pool'.hash[row[i]] = BlockHash[r][i]
       /\ \A b \in Blocks : (\A i \in already + 1 .. upTo : row[i] # b) =>
            pool'.hash[b] = IF b \in Elements(new) THEN NoKey ELSE pool.hash[b]
  BY <1>5, <1>12, <1>13
<1>15. \A b \in Blocks : pool'.ref[b] =
         IF b \in Elements(hit) \/ b \in Elements(new)
         THEN pool.ref[b] + 1 ELSE pool.ref[b]
  BY <1>5, <1>13
<1>16. Grows(r, hit, new, upTo)
  BY <1>1, <1>13, <1>14, <1>15 DEF Grows, row, already
<1>17. Fresh(new, hit) /\ Len(new) = NumNew(r, hit, target)
  BY <1>5, <1>6 DEF count
<1> QED BY <1>16, <1>17 DEF upTo

\* Growing keeps the counts exact.
LEMMA GrowsRefs ==
  ASSUME BlocksInv, NEW r \in Req, NEW hit, IsHit(r, hit), NEW new, Fresh(new, hit),
         NEW upTo, Grows(r, hit, new, upTo), deferred' = deferred
  PROVE  Refs' /\ rows' \in [Req -> Seq(Blocks)] /\ Rows'
<1> DEFINE row == rows[r] \o hit \o new
<1>1. /\ rows \in [Req -> Seq(Blocks)] /\ Rows /\ Refs /\ BlocksTyped
  BY DEF BlocksInv, BlocksTyped
<1>2. GrownRow(r, hit, new, row)
  BY <1>1, RowGrows
<1>3. rows' = [rows EXCEPT ![r] = row]
  BY DEF Grows
<1> HIDE DEF row
<1>4. /\ rows' \in [Req -> Seq(Blocks)] /\ rows'[r] = row
      /\ \A q \in Req \ {r} : rows'[q] = rows[q]
  BY <1>1, <1>2, <1>3 DEF GrownRow
<1>5. Rows'
  BY <1>1, <1>2, <1>4 DEF Rows, GrownRow
<1>6. ASSUME NEW b \in RealBlocks
      PROVE  pool'.ref[b] = Cardinality(Holders(b)') + Cardinality(Deferrers(b)')
  <2>1. b \in Blocks /\ pool.ref[b] = Cardinality(Holders(b)) + Cardinality(Deferrers(b))
    BY <1>1, BlockNumbers DEF Refs
  <2>2. Deferrers(b)' = Deferrers(b)
    BY DEF Deferrers
  <2>3. CASE b \in Elements(hit) \/ b \in Elements(new)
    <3>1. b \notin Elements(rows[r])
      <4>1. CASE b \in Elements(hit)
        <5>1. hit # << >>
          BY <4>1 DEF Elements
        <5>2. rows[r] = << >>
          BY <5>1 DEF IsHit
        <5> QED BY <5>2 DEF Elements
      <4>2. CASE b \in Elements(new)
        BY <4>2 DEF Fresh
      <4> QED BY <2>3, <4>1, <4>2
    <3>2. Holders(b)' = Holders(b) \cup {r} /\ r \notin Holders(b)
      BY <1>2, <1>4, <2>3, <3>1 DEF Holders, GrownRow
    <3>3. Cardinality(Holders(b) \cup {r}) = Cardinality(Holders(b)) + 1
      BY <1>1, <3>2, HoldersCount, FS_AddElement
    <3>4. pool'.ref[b] = pool.ref[b] + 1
      BY <2>1, <2>3 DEF Grows
    <3>5. Cardinality(Holders(b)) \in Nat /\ Cardinality(Deferrers(b)) \in Nat
      BY <1>1, HoldersCount
    <3> QED BY <2>1, <2>2, <3>2, <3>3, <3>4, <3>5
  <2>4. CASE ~ (b \in Elements(hit) \/ b \in Elements(new))
    <3>1. Holders(b)' = Holders(b)
      BY <1>2, <1>4, <2>4 DEF Holders, GrownRow
    <3>2. pool'.ref[b] = pool.ref[b]
      BY <2>1, <2>4 DEF Grows
    <3> QED BY <2>1, <2>2, <3>1, <3>2
  <2> QED BY <2>3, <2>4
<1> QED BY <1>4, <1>5, <1>6 DEF Refs

\* Growing keeps what the tables say of the cache.
LEMMA GrowsHashes ==
  ASSUME BlocksInv, NEW r \in Req, NEW hit, IsHit(r, hit), NEW new, Fresh(new, hit),
         NEW upTo \in Nat, upTo <= Len(rows[r]) + Len(hit) + Len(new),
         Grows(r, hit, new, upTo)
  PROVE  Hashes' /\ \A q \in Req : numCached'[q] <= Len(rows'[q])
<1> DEFINE old == rows[r]
           row == rows[r] \o hit \o new
           already == numCached[r] + Len(hit)
           then == Greater(already, upTo)
<1>1. /\ rows \in [Req -> Seq(Blocks)] /\ numCached \in [Req -> Nat]
      /\ Rows /\ Refs /\ BlocksTyped /\ Hashes /\ Lengths
      /\ pool.ref \in [Blocks -> Nat]
  BY DEF BlocksInv, BlocksTyped, PoolInv, PoolType
<1>2. /\ rows' = [rows EXCEPT ![r] = row]
      /\ numCached' = [numCached EXCEPT ![r] = then]
      /\ \A b \in Blocks : pool'.ref[b] =
           IF b \in Elements(hit) \/ b \in Elements(new)
           THEN pool.ref[b] + 1 ELSE pool.ref[b]
      /\ \A i \in already + 1 .. upTo : pool'.hash[row[i]] = BlockHash[r][i]
      /\ \A b \in Blocks : (\A i \in already + 1 .. upTo : row[i] # b) =>
           pool'.hash[b] = IF b \in Elements(new) THEN NoKey ELSE pool.hash[b]
  BY DEF Grows
<1>3. GrownRow(r, hit, new, row)
  BY <1>1, RowGrows
<1> HIDE DEF row
<1>4. /\ rows'[r] = row /\ numCached'[r] = then
      /\ \A q \in Req \ {r} : rows'[q] = rows[q] /\ numCached'[q] = numCached[q]
  BY <1>1, <1>2
<1>5. /\ Len(old) \in Nat /\ Len(hit) \in Nat /\ Len(new) \in Nat
      /\ already \in Nat /\ numCached[r] \in Nat /\ numCached[r] <= Len(old)
      /\ hit = << >> \/ old = << >>
      /\ Len(row) = Len(old) + Len(hit) + Len(new)
      /\ then \in Nat /\ already <= then /\ upTo <= then
      /\ then = already \/ then = upTo
      /\ already <= Len(row)
  <2>1. /\ old \in Seq(Blocks) /\ hit \in Seq(Blocks) /\ new \in Seq(Blocks)
        /\ hit = << >> \/ old = << >>
        /\ Len(row) = Len(old) + Len(hit) + Len(new)
    BY <1>1, <1>3 DEF IsHit, Fresh, GrownRow
  <2>2. numCached[r] \in Nat /\ numCached[r] <= Len(old)
    BY <1>1 DEF Lengths
  <2> HIDE DEF old
  <2>3. Len(old) \in Nat /\ Len(hit) \in Nat /\ Len(new) \in Nat
    BY <2>1
  <2>4. already \in Nat /\ already <= Len(row)
    BY <2>1, <2>2, <2>3
  <2> HIDE DEF already
  <2>5. /\ then \in Nat /\ already <= then /\ upTo <= then
        /\ then = already \/ then = upTo
    BY <2>4 DEF Greater
  <2> QED BY <2>1, <2>2, <2>3, <2>4, <2>5
<1>6. then <= Len(row)
  BY <1>5
<1>7. /\ row \in Seq(Blocks) /\ DOMAIN row = 1 .. Len(row) /\ Distinct(row)
      /\ \A i \in 1 .. Len(old) : row[i] = old[i]
      /\ \A i \in 1 .. Len(hit) : row[i] = hit[i]
      /\ \A i \in Len(old) + Len(hit) + 1 .. Len(row) : row[i] \in Elements(new)
  BY <1>3 DEF GrownRow, IsRow
<1> HIDE DEF already, then
\* The old table and the hit.
<1>8. ASSUME NEW i \in 1 .. already
      PROVE  pool.hash[row[i]] = BlockHash[r][i] /\ row[i] \notin Elements(new)
  <2>1. CASE hit = << >>
    <3>1. already = numCached[r] /\ i \in 1 .. Len(old) /\ i \in 1 .. numCached[r]
      BY <1>5, <2>1 DEF already
    <3>2. row[i] = old[i]
      BY <1>7, <3>1
    <3>3. old[i] \in Elements(old)
      BY <1>1, <3>1 DEF Elements
    <3> QED BY <1>1, <3>1, <3>2, <3>3 DEF Hashes, Fresh
  <2>2. CASE old = << >>
    <3>1. Len(old) = 0
      BY <2>2
    <3>2. already = Len(hit) /\ i \in 1 .. Len(hit)
      BY <1>5, <3>1 DEF already
    <3>3. row[i] = hit[i] /\ hit[i] \in Elements(hit)
      BY <1>7, <3>2 DEF IsHit, Elements
    <3> QED BY <3>2, <3>3 DEF IsHit, Fresh
  <2> QED BY <1>5, <2>1, <2>2
\* The rest of the old table, which a hit leaves none of.
<1>9. ASSUME NEW i \in already + 1 .. Len(row)
      PROVE  \/ row[i] \in Elements(new)
             \/ /\ i \in numCached[r] + 1 .. Len(old) /\ row[i] = old[i] /\ hit = << >>
                /\ row[i] \in Elements(old)
                /\ pool.hash[row[i]] = NoKey /\ pool.ref[row[i]] = 1
  <2>1. CASE i \in Len(old) + Len(hit) + 1 .. Len(row)
    BY <1>7, <2>1
  <2>2. CASE i \notin Len(old) + Len(hit) + 1 .. Len(row)
    <3>1. i <= Len(old) + Len(hit) /\ i \in Nat /\ i >= 1 /\ i > numCached[r] + Len(hit)
      BY <1>5, <2>2 DEF already
    <3>2. hit = << >>
      <4>1. SUFFICES ASSUME old = << >>
                     PROVE  FALSE
        BY <1>5
      <4>2. Len(old) = 0
        BY <4>1
      <4> QED BY <1>5, <3>1, <4>2
    <3>3. Len(hit) = 0
      BY <3>2
    <3>4. i \in numCached[r] + 1 .. Len(old) /\ i \in 1 .. Len(old)
      BY <1>5, <3>1, <3>3
    <3>5. old[i] \in Elements(old)
      BY <1>1, <3>4 DEF Elements
    <3> QED BY <1>1, <1>7, <3>2, <3>4, <3>5 DEF Hashes
  <2> QED BY <2>1, <2>2
\* Only these are published.
<1>10. ASSUME NEW b \in Blocks, \A i \in already + 1 .. Len(row) : row[i] # b
       PROVE  pool'.hash[b] = IF b \in Elements(new) THEN NoKey ELSE pool.hash[b]
  <2>1. \A i \in already + 1 .. upTo : i \in already + 1 .. Len(row)
    BY <1>5
  <2> QED BY <1>2, <1>10, <2>1
<1>11. \A i \in 1 .. Len(row) : row[i] \in Blocks
  BY <1>7
<1>12. ASSUME NEW i \in 1 .. then
       PROVE  pool'.hash[row[i]] = BlockHash[r][i]
  <2>1. CASE i <= already
    <3>1. i \in 1 .. already /\ i \in 1 .. Len(row)
      BY <1>5, <1>6, <2>1
    <3>2. \A j \in already + 1 .. Len(row) : row[j] # row[i]
      <4>1. \A j \in already + 1 .. Len(row) : j \in DOMAIN row /\ j # i
        BY <1>5, <1>7, <3>1
      <4>2. i \in DOMAIN row /\ Distinct(row)
        BY <1>7, <3>1
      <4> HIDE DEF already
      <4> QED BY <4>1, <4>2 DEF Distinct
    <3> QED BY <1>8, <1>10, <1>11, <3>1, <3>2
  <2>2. CASE ~ (i <= already)
    <3>1. i \in already + 1 .. upTo
      BY <1>5, <2>2
    <3> QED BY <1>2, <3>1
  <2> QED BY <2>1, <2>2
<1>13. ASSUME NEW i \in then + 1 .. Len(row)
       PROVE  pool'.hash[row[i]] = NoKey /\ pool'.ref[row[i]] = 1
  <2>1. i \in already + 1 .. Len(row) /\ i \in 1 .. Len(row)
    BY <1>5
  <2>2. row[i] \in Blocks
    BY <1>11, <2>1
  <2>3. \A j \in already + 1 .. upTo : row[j] # row[i]
    <3>1. \A j \in already + 1 .. upTo : j \in 1 .. Len(row) /\ j # i
      BY <1>5
    <3> QED BY <1>7, <2>1, <3>1 DEF Distinct
  <2>4. pool'.hash[row[i]] = IF row[i] \in Elements(new) THEN NoKey ELSE pool.hash[row[i]]
    BY <1>2, <2>2, <2>3
  <2>5. CASE row[i] \in Elements(new)
    <3>1. pool.ref[row[i]] = 0
      BY <2>5 DEF Fresh
    <3> QED BY <1>2, <2>2, <2>4, <2>5, <3>1
  <2>6. CASE row[i] \notin Elements(new)
    <3>1. hit = << >> /\ pool.hash[row[i]] = NoKey /\ pool.ref[row[i]] = 1
      BY <1>9, <2>1, <2>6
    <3>2. row[i] \notin Elements(hit)
      BY <3>1 DEF Elements
    <3> QED BY <1>2, <2>2, <2>4, <2>6, <3>1, <3>2
  <2> QED BY <2>5, <2>6
\* The other tables.
<1>14. ASSUME NEW q \in Req \ {r}, NEW i \in 1 .. Len(rows[q])
       PROVE  /\ pool'.hash[rows[q][i]] = pool.hash[rows[q][i]]
              /\ pool.hash[rows[q][i]] = NoKey =>
                   pool'.ref[rows[q][i]] = pool.ref[rows[q][i]]
  <2> DEFINE b == rows[q][i]
  <2>1. b \in Elements(rows[q])
    BY <1>1 DEF Elements
  <2>2. b \in Blocks /\ b \in RealBlocks
    BY <1>1, <2>1, HeldIsReferenced
  <2>3. b \notin Elements(new)
    BY <2>1 DEF Fresh
  <2> HIDE DEF b
  <2>4. \A j \in already + 1 .. Len(row) : row[j] # b
    <3> TAKE j \in already + 1 .. Len(row)
    <3>1. SUFFICES ASSUME row[j] = b
                   PROVE  FALSE
      OBVIOUS
    <3>2. b \in Elements(old) /\ pool.ref[b] = 1
      BY <1>9, <2>3, <3>1
    <3> QED BY <1>1, <2>1, <2>2, <3>2, SingleHolder
  <2>5. pool'.hash[b] = pool.hash[b]
    BY <1>10, <2>2, <2>3, <2>4
  <2>6. ASSUME pool.hash[b] = NoKey
        PROVE  pool'.ref[b] = pool.ref[b]
    <3>1. b \notin Elements(hit)
      BY <1>1, <2>6, HitIsRow
    <3> QED BY <1>2, <2>2, <2>3, <3>1
  <2> QED BY <2>5, <2>6 DEF b
<1>15. ASSUME NEW q \in Req
       PROVE  /\ \A i \in 1 .. numCached'[q] : pool'.hash[rows'[q][i]] = BlockHash[q][i]
              /\ \A i \in numCached'[q] + 1 .. Len(rows'[q]) :
                   pool'.hash[rows'[q][i]] = NoKey /\ pool'.ref[rows'[q][i]] = 1
              /\ numCached'[q] <= Len(rows'[q])
  <2>1. CASE q = r
    BY <1>4, <1>6, <1>12, <1>13, <2>1
  <2>2. CASE q # r
    <3>1. rows'[q] = rows[q] /\ numCached'[q] = numCached[q] /\ q \in Req \ {r}
      BY <1>4, <2>2
    <3>2. /\ numCached[q] \in Nat /\ Len(rows[q]) \in Nat /\ numCached[q] <= Len(rows[q])
      BY <1>1 DEF Lengths
    <3>3. /\ \A i \in 1 .. numCached[q] : i \in 1 .. Len(rows[q])
          /\ \A i \in numCached[q] + 1 .. Len(rows[q]) : i \in 1 .. Len(rows[q])
      BY <3>2
    <3>4. /\ \A i \in 1 .. Len(rows[q]) :
               /\ pool'.hash[rows[q][i]] = pool.hash[rows[q][i]]
               /\ pool.hash[rows[q][i]] = NoKey => pool'.ref[rows[q][i]] = pool.ref[rows[q][i]]
      BY <1>14, <3>1
    <3>5. /\ \A i \in 1 .. numCached[q] : pool.hash[rows[q][i]] = BlockHash[q][i]
          /\ \A i \in numCached[q] + 1 .. Len(rows[q]) :
               pool.hash[rows[q][i]] = NoKey /\ pool.ref[rows[q][i]] = 1
      BY <1>1 DEF Hashes
    <3>6. \A i \in 1 .. numCached[q] : pool'.hash[rows[q][i]] = BlockHash[q][i]
      BY <3>3, <3>4, <3>5
    <3>7. \A i \in numCached[q] + 1 .. Len(rows[q]) :
            pool'.hash[rows[q][i]] = NoKey /\ pool'.ref[rows[q][i]] = 1
      BY <3>3, <3>4, <3>5
    <3> QED BY <3>1, <3>2, <3>6, <3>7
  <2> QED BY <2>1, <2>2
<1> QED BY <1>15 DEF Hashes

\* allocate_slots for a target within the context keeps the blocks' invariant.
LEMMA GrowsKeeps ==
  ASSUME BlocksInv, NEW r \in Req, NEW hit, IsHit(r, hit), NEW new, Fresh(new, hit),
         NEW upTo \in Nat, upTo <= Len(rows[r]) + Len(hit) + Len(new),
         Len(rows[r]) + Len(hit) + Len(new) < MaxLen,
         Grows(r, hit, new, upTo), deferred' = deferred
  PROVE  BlocksInv'
<1>1. Refs' /\ rows' \in [Req -> Seq(Blocks)] /\ Rows'
  BY GrowsRefs
<1>2. Hashes' /\ \A q \in Req : numCached'[q] <= Len(rows'[q])
  BY GrowsHashes
<1>3. BlocksTyped /\ Rows /\ Lengths
  BY DEF BlocksInv
<1>4. /\ rows'[r] = rows[r] \o hit \o new
      /\ \A q \in Req \ {r} : rows'[q] = rows[q]
  BY <1>3 DEF Grows, BlocksTyped
<1>5. Len(rows'[r]) = Len(rows[r]) + Len(hit) + Len(new)
  BY <1>3, <1>4, RowGrows DEF GrownRow
<1>6. Lengths'
  BY <1>2, <1>3, <1>4, <1>5 DEF Lengths
<1>7. numCached' \in [Req -> Nat]
  <2>1. numCached[r] \in Nat /\ Len(hit) \in Nat
    BY <1>3 DEF BlocksTyped, IsHit
  <2>2. Greater(numCached[r] + Len(hit), upTo) \in Nat
    BY <2>1 DEF Greater
  <2> QED BY <1>3, <2>2 DEF Grows, BlocksTyped
<1>8. PoolInv(pool')
  BY DEF Grows
<1>9. BlocksTyped'
  BY <1>1, <1>3, <1>7, <1>8 DEF BlocksTyped
<1> QED BY <1>1, <1>2, <1>6, <1>9 DEF BlocksInv

------------------------------------------------------------------------------
(***************************************************************************)
(* Handlers that publish, free and defer do so one after the other: the    *)
(* same invariant, of a pool p, tables rw with the published part nc, and  *)
(* deferred entries df.                                                    *)
(***************************************************************************)

TypedOf(p, rw, nc, df) ==
  PoolInv(p) /\ rw \in [Req -> Seq(Blocks)] /\ nc \in [Req -> Nat] /\ df \in Seq(EntryType)
RowsOf(rw, df) == /\ \A r \in Req : IsRow(rw[r])
                  /\ \A i \in DOMAIN df : IsRow(df[i].blocks)
LengthsOf(rw, nc) == \A r \in Req : nc[r] <= Len(rw[r]) /\ Len(rw[r]) < MaxLen
HoldersOf(rw, b) == {r \in Req : b \in Elements(rw[r])}
DeferrersOf(df, b) == {i \in DOMAIN df : b \in Elements(df[i].blocks)}
RefsOf(p, rw, df) ==
  \A b \in RealBlocks : p.ref[b] = Cardinality(HoldersOf(rw, b)) + Cardinality(DeferrersOf(df, b))
HashesOf(p, rw, nc) ==
  \A r \in Req :
    /\ \A i \in 1 .. nc[r] : p.hash[rw[r][i]] = BlockHash[r][i]
    /\ \A i \in nc[r] + 1 .. Len(rw[r]) :
         p.hash[rw[r][i]] = NoKey /\ p.ref[rw[r][i]] = 1
BlocksOf(p, rw, nc, df) ==
  /\ TypedOf(p, rw, nc, df) /\ RowsOf(rw, df) /\ LengthsOf(rw, nc)
  /\ RefsOf(p, rw, df) /\ HashesOf(p, rw, nc)

LEMMA BlocksInvIs ==
  /\ BlocksInv => BlocksOf(pool, rows, numCached, deferred)
  /\ BlocksOf(pool, rows, numCached, deferred)' => BlocksInv'
<1>1. BlocksInv => BlocksOf(pool, rows, numCached, deferred)
  BY DEF BlocksInv, BlocksOf, BlocksTyped, TypedOf, Rows, RowsOf, Lengths, LengthsOf,
         Refs, RefsOf, Holders, HoldersOf, Deferrers, DeferrersOf, Hashes, HashesOf
<1>2. BlocksOf(pool, rows, numCached, deferred)' => BlocksInv'
  BY DEF BlocksInv, BlocksOf, BlocksTyped, TypedOf, Rows, RowsOf, Lengths, LengthsOf,
         Refs, RefsOf, Holders, HoldersOf, Deferrers, DeferrersOf, Hashes, HashesOf
<1> QED BY <1>1, <1>2

\* The positions of s with an element of T are as many as those elements.
LEMMA PositionsCount ==
  ASSUME NEW X, NEW s \in Seq(X), Distinct(s), NEW T
  PROVE  Cardinality({i \in DOMAIN s : s[i] \in T}) = Cardinality({x \in Elements(s) : x \in T})
<1> DEFINE P == {i \in DOMAIN s : s[i] \in T}
           E == {x \in Elements(s) : x \in T}
           f == [i \in P |-> s[i]]
<1>1. IsFiniteSet(P)
  <2>1. Len(s) \in Nat /\ DOMAIN s = 1 .. Len(s)
    OBVIOUS
  <2>2. IsFiniteSet(DOMAIN s)
    BY <2>1, FS_Interval
  <2> QED BY <2>2, FS_Subset
<1>2. f \in [P -> E]
  BY DEF Elements
<1>3. f \in Surjection(P, E)
  BY <1>2 DEF Surjection, Elements
<1>4. f \in Injection(P, E)
  BY <1>2 DEF Injection, IsInjective, Distinct
<1>5. f \in Bijection(P, E)
  BY <1>3, <1>4 DEF Bijection
<1>6. ExistsBijection(P, E)
  BY <1>5 DEF ExistsBijection
<1> HIDE DEF P, E
<1>7. Cardinality(E) = Cardinality(P)
  BY <1>1, <1>6, FS_Bijection
<1> QED BY <1>7 DEF P, E

\* A part of the positions n + 1 .. n + m is as large as it is counted from 1.
LEMMA ShiftedCount ==
  ASSUME NEW n \in Nat, NEW m \in Nat, NEW P \in SUBSET (1 .. m)
  PROVE  LET Q == {i \in n + 1 .. n + m : i - n \in P}
         IN  IsFiniteSet(Q) /\ IsFiniteSet(P) /\ Cardinality(Q) = Cardinality(P)
<1> DEFINE Q == {i \in n + 1 .. n + m : i - n \in P}
           f == [i \in P |-> n + i]
<1>1. IsFiniteSet(P)
  <2>1. IsFiniteSet(1 .. m)
    BY FS_Interval
  <2> HIDE DEF Q, f
  <2> QED BY <2>1, FS_Subset
<1>2. \A i \in P : i \in 1 .. m /\ n + i \in n + 1 .. n + m /\ (n + i) - n = i
  OBVIOUS
<1>3. f \in [P -> Q]
  BY <1>2
<1>4. f \in Surjection(P, Q)
  <2>1. \A j \in Q : j - n \in P /\ n + (j - n) = j
    OBVIOUS
  <2>2. \A j \in Q : \E i \in P : f[i] = j
    BY <2>1
  <2> QED BY <1>3, <2>2 DEF Surjection
<1>5. f \in Injection(P, Q)
  <2>1. \A i, j \in P : n + i = n + j => i = j
    BY <1>2
  <2> QED BY <1>3, <2>1 DEF Injection, IsInjective
<1>6. f \in Bijection(P, Q)
  BY <1>4, <1>5 DEF Bijection
<1>7. ExistsBijection(P, Q)
  BY <1>6 DEF ExistsBijection
<1> HIDE DEF Q
<1>8. IsFiniteSet(Q) /\ Cardinality(Q) = Cardinality(P)
  BY <1>1, <1>7, FS_Bijection
<1> QED BY <1>1, <1>8 DEF Q

\* Two parts of a finite set.
LEMMA PartsCount ==
  ASSUME NEW U, IsFiniteSet(U), NEW S, NEW T, U = S \cup T, S \cap T = {}
  PROVE  /\ IsFiniteSet(S) /\ IsFiniteSet(T)
         /\ Cardinality(U) \in Nat /\ Cardinality(S) \in Nat /\ Cardinality(T) \in Nat
         /\ Cardinality(U) = Cardinality(S) + Cardinality(T)
<1>1. IsFiniteSet(S) /\ IsFiniteSet(T)
  <2>1. S \subseteq U /\ T \subseteq U
    OBVIOUS
  <2> QED BY <2>1, FS_Subset
<1>2. Cardinality(S \cap T) = 0
  BY FS_EmptySet
<1>3. Cardinality(S) \in Nat /\ Cardinality(T) \in Nat /\ Cardinality(U) \in Nat
  BY <1>1, FS_CardinalityType
<1>4. Cardinality(U) = Cardinality(S) + Cardinality(T) - Cardinality(S \cap T)
  BY <1>1, FS_Union
<1> QED BY <1>1, <1>2, <1>3, <1>4

LEMMA RestCount ==
  ASSUME NEW U, IsFiniteSet(U), NEW S, S \subseteq U
  PROVE  /\ Cardinality(S) \in Nat /\ Cardinality(U \ S) \in Nat
         /\ Cardinality(U) = Cardinality(S) + Cardinality(U \ S)
<1> DEFINE T == U \ S
<1>1. U = S \cup T /\ S \cap T = {}
  OBVIOUS
<1> HIDE DEF T
<1>2. Cardinality(S) \in Nat /\ Cardinality(T) \in Nat
      /\ Cardinality(U) = Cardinality(S) + Cardinality(T)
  BY <1>1, PartsCount
<1> QED BY <1>2 DEF T

\* A block in a table, or in an entry, has a reference; with one only it is
\* nowhere else.
LEMMA CountsOf ==
  ASSUME NEW p, NEW rw, NEW nc, NEW df, TypedOf(p, rw, nc, df), NEW b
  PROVE  /\ IsFiniteSet(HoldersOf(rw, b)) /\ Cardinality(HoldersOf(rw, b)) \in Nat
         /\ IsFiniteSet(DeferrersOf(df, b)) /\ Cardinality(DeferrersOf(df, b)) \in Nat
<1>1. HoldersOf(rw, b) \in SUBSET Req /\ DeferrersOf(df, b) \in SUBSET (1 .. Len(df))
  BY DEF HoldersOf, DeferrersOf, TypedOf
<1>2. IsFiniteSet(Req) /\ IsFiniteSet(1 .. Len(df))
  <2>1. Len(df) \in Nat
    BY DEF TypedOf
  <2> QED BY <2>1, Constants, FS_Interval
<1> QED BY <1>1, <1>2, FS_Subset, FS_CardinalityType

LEMMA SingleOf ==
  ASSUME NEW p, NEW rw, NEW nc, NEW df, TypedOf(p, rw, nc, df), RefsOf(p, rw, df),
         NEW b \in RealBlocks, p.ref[b] = 1, NEW r \in Req, b \in Elements(rw[r])
  PROVE  /\ \A q \in Req \ {r} : b \notin Elements(rw[q])
         /\ \A i \in DOMAIN df : b \notin Elements(df[i].blocks)
<1>1. IsFiniteSet(HoldersOf(rw, b)) /\ r \in HoldersOf(rw, b)
  BY CountsOf DEF HoldersOf
<1>2. Cardinality(HoldersOf(rw, b) \ {r}) = Cardinality(HoldersOf(rw, b)) - 1
  BY <1>1, FS_RemoveElement
<1>3. IsFiniteSet(HoldersOf(rw, b) \ {r}) /\ Cardinality(HoldersOf(rw, b) \ {r}) \in Nat
  BY <1>1, FS_RemoveElement, FS_CardinalityType
<1>4. Cardinality(HoldersOf(rw, b) \ {r}) = 0 /\ Cardinality(DeferrersOf(df, b)) = 0
  BY <1>2, <1>3, CountsOf DEF RefsOf
<1>5. HoldersOf(rw, b) \ {r} = {} /\ DeferrersOf(df, b) = {}
  BY <1>3, <1>4, CountsOf, FS_EmptySet
<1> QED BY <1>5 DEF HoldersOf, DeferrersOf

LEMMA RowBlocks ==
  ASSUME NEW row \in Seq(Blocks), IsRow(row)
  PROVE  /\ \A b \in Elements(row) : b \in RealBlocks /\ b \in Blocks
         /\ \A i \in 1 .. Len(row) : row[i] \in RealBlocks /\ row[i] \in Elements(row)
<1>1. \A i \in 1 .. Len(row) : row[i] \in Blocks /\ row[i] \in Elements(row)
  BY DEF Elements
<1>2. \A b \in Elements(row) : b \in Blocks /\ b # NullBlock
  BY DEF Elements, IsRow
<1> QED BY <1>1, <1>2 DEF RealBlocks

\* A row read backwards has the same blocks.
LEMMA ReverseElements ==
  ASSUME NEW X, NEW s \in Seq(X)
  PROVE  /\ Reverse(s) \in Seq(X) /\ Len(Reverse(s)) = Len(s)
         /\ Elements(Reverse(s)) = Elements(s)
         /\ Distinct(s) => Distinct(Reverse(s))
<1> DEFINE n == Len(s)
           t == Reverse(s)
<1>1. n \in Nat /\ DOMAIN s = 1 .. n /\ \A i \in 1 .. n : s[i] \in X
  OBVIOUS
<1>2. t = [i \in 1 .. n |-> s[(n - i) + 1]]
  BY DEF Reverse
<1> HIDE DEF n, t
<1>3. \A i \in 1 .. n : (n - i) + 1 \in 1 .. n /\ (n - ((n - i) + 1)) + 1 = i
  BY <1>1
<1>4. t \in [1 .. n -> X]
  BY <1>1, <1>2, <1>3
<1>5. t \in Seq(X) /\ Len(t) = n /\ DOMAIN t = 1 .. n
  BY <1>1, <1>4
<1>6. \A i \in 1 .. n : t[i] = s[(n - i) + 1]
  BY <1>2
<1>7. ASSUME Distinct(s)
      PROVE  Distinct(t)
  <2>1. SUFFICES ASSUME NEW i \in 1 .. n, NEW j \in 1 .. n, t[i] = t[j]
                 PROVE  i = j
    BY <1>5 DEF Distinct
  <2>2. (n - i) + 1 = (n - j) + 1
    BY <1>1, <1>3, <1>6, <1>7, <2>1 DEF Distinct
  <2> QED BY <1>1, <2>2
<1>8. Elements(t) \subseteq Elements(s)
  BY <1>1, <1>3, <1>5, <1>6 DEF Elements
<1>9. Elements(s) \subseteq Elements(t)
  <2>1. SUFFICES ASSUME NEW i \in 1 .. n
                 PROVE  s[i] \in Elements(t)
    BY <1>1 DEF Elements
  <2>2. (n - i) + 1 \in 1 .. n /\ t[(n - i) + 1] = s[i]
    BY <1>3, <1>6
  <2> QED BY <1>5, <2>2 DEF Elements
<1> QED BY <1>5, <1>7, <1>8, <1>9 DEF n, t

\* The rows of a list that a block is in.
InRows(row, n, b) == {i \in 1 .. n : b \in Elements(row[i])}
Referenced(p, row, n) == \A b \in RealBlocks : Cardinality(InRows(row, n, b)) <= p.ref[b]

\* Freeing a list of rows, the blocks of none of them more often than they are
\* referenced.
LEMMA FreeingRows ==
  ASSUME NEW p, PoolInv(p), NEW n \in Nat, NEW row \in [1 .. n -> Seq(Blocks)],
         \A i \in 1 .. n : IsRow(row[i]),
         NEW calls, calls = [i \in 1 .. n |-> Freeing(row[i])], Referenced(p, row, n)
  PROVE  /\ PoolInv(Calls(p, calls))
         /\ \A b \in RealBlocks : Calls(p, calls).ref[b] =
              p.ref[b] - Cardinality(InRows(row, n, b))
         /\ \A b \in Blocks : Calls(p, calls).hash[b] = p.hash[b]
<1> DEFINE X == {Freeing(row[i]) : i \in 1 .. n}
<1>1. calls \in Seq(X) /\ Len(calls) = n /\ DOMAIN calls = 1 .. n
  <2>1. calls \in [1 .. n -> X]
    OBVIOUS
  <2> HIDE DEF X
  <2> QED BY <2>1
<1> HIDE DEF X
<1>2. \A i \in 1 .. n : /\ calls[i].frees = TRUE /\ calls[i].row = Reverse(row[i])
  BY DEF Freeing
<1>3. \A i \in 1 .. n : /\ Reverse(row[i]) \in Seq(Blocks) /\ IsRow(Reverse(row[i]))
                        /\ Elements(Reverse(row[i])) = Elements(row[i])
  BY ReverseElements DEF IsRow
<1>4. GoodCalls(calls)
  BY <1>1, <1>2, <1>3 DEF GoodCalls, GoodCall, IsRow
<1>5. \A b : Frees(calls, b) = InRows(row, n, b)
  BY <1>1, <1>2, <1>3 DEF Frees, FreesUpTo, InRows
<1>6. CallsDid(Calls(p, calls), p, calls, n)
  <2>1. \A b \in RealBlocks : Cardinality(Frees(calls, b)) <= p.ref[b]
    BY <1>5 DEF Referenced
  <2> QED BY <1>1, <1>4, <2>1, CallsKeep
<1>7. \A b : \A i \in 1 .. n : ~ Publishes(calls[i], b)
  BY <1>2 DEF Publishes
<1> QED BY <1>1, <1>5, <1>6, <1>7 DEF CallsDid, Frees

\* The first n entries are freed: what is left is the others.
Remaining(df, n, df2) ==
  /\ df2 \in Seq(EntryType) /\ Len(df2) = Len(df) - n
  /\ \A i \in 1 .. Len(df2) : df2[i].blocks = df[n + i].blocks

SameHashes(q, p) == \A b \in Blocks : q.hash[b] = p.hash[b]
FreedEntries(df, n) == [i \in 1 .. n |-> Freeing(df[i].blocks)]

LEMMA DrainStage ==
  ASSUME NEW p, NEW rw, NEW nc, NEW df, BlocksOf(p, rw, nc, df),
         NEW n \in 0 .. Len(df), NEW df2, Remaining(df, n, df2),
         NEW calls, calls = FreedEntries(df, n)
  PROVE  BlocksOf(Calls(p, calls), rw, nc, df2) /\ SameHashes(Calls(p, calls), p)
<1> DEFINE row == [i \in 1 .. n |-> df[i].blocks]
           q == Calls(p, calls)
           gone(b) == InRows(row, n, b)
           m == Len(df2)
           left(b) == {i \in n + 1 .. n + m : i - n \in DeferrersOf(df2, b)}
<1>1. /\ TypedOf(p, rw, nc, df) /\ RowsOf(rw, df) /\ LengthsOf(rw, nc)
      /\ RefsOf(p, rw, df) /\ HashesOf(p, rw, nc)
      /\ df \in Seq(EntryType) /\ PoolInv(p)
      /\ df2 \in Seq(EntryType)
  BY DEF BlocksOf, TypedOf, Remaining
<1>2. /\ Len(df) \in Nat /\ n \in Nat /\ m \in Nat /\ n + m = Len(df)
      /\ DOMAIN df = 1 .. Len(df) /\ DOMAIN df2 = 1 .. m
      /\ \A i \in 1 .. n : i \in DOMAIN df
      /\ \A i \in 1 .. m : n + i \in DOMAIN df /\ df2[i].blocks = df[n + i].blocks
  BY <1>1 DEF Remaining
<1>3. \A i \in DOMAIN df : df[i].blocks \in Seq(Blocks) /\ IsRow(df[i].blocks)
  <2>1. \A i \in DOMAIN df : df[i] \in EntryType
    BY <1>1
  <2>2. \A e \in EntryType : e.blocks \in Seq(Blocks)
    BY DEF EntryType
  <2>3. \A i \in DOMAIN df : IsRow(df[i].blocks)
    BY <1>1 DEF RowsOf
  <2> QED BY <2>1, <2>2, <2>3
<1>4. row \in [1 .. n -> Seq(Blocks)] /\ \A i \in 1 .. n : IsRow(row[i])
  BY <1>2, <1>3
<1>5. calls = [i \in 1 .. n |-> Freeing(row[i])]
  BY DEF FreedEntries
<1>6. ASSUME NEW b
      PROVE  DeferrersOf(df, b) = gone(b) \cup left(b) /\ gone(b) \cap left(b) = {}
  <2>1. \A i \in 1 .. n : i \in DOMAIN df /\ row[i] = df[i].blocks
    BY <1>2
  <2>2. \A i \in n + 1 .. n + m : /\ i \in DOMAIN df /\ i - n \in DOMAIN df2
                                  /\ df2[i - n].blocks = df[i].blocks
    BY <1>2
  <2>3. \A i \in DOMAIN df : i \in 1 .. n \/ i \in n + 1 .. n + m
    BY <1>2
  <2> HIDE DEF row
  <2>4. DeferrersOf(df, b) = gone(b) \cup left(b)
    BY <2>1, <2>2, <2>3 DEF DeferrersOf, InRows
  <2>5. gone(b) \cap left(b) = {}
    BY <1>2 DEF InRows
  <2> QED BY <2>4, <2>5
<1>7. ASSUME NEW b
      PROVE  /\ Cardinality(left(b)) = Cardinality(DeferrersOf(df2, b))
             /\ Cardinality(gone(b)) \in Nat /\ Cardinality(left(b)) \in Nat
             /\ Cardinality(DeferrersOf(df, b)) = Cardinality(gone(b)) + Cardinality(left(b))
  <2>1. DeferrersOf(df2, b) \in SUBSET (1 .. m)
    BY <1>2 DEF DeferrersOf
  <2>2. IsFiniteSet(DeferrersOf(df, b))
    BY <1>1, CountsOf
  <2> HIDE DEF row, m
  <2>3. Cardinality(left(b)) = Cardinality(DeferrersOf(df2, b))
    BY <1>2, <2>1, ShiftedCount
  <2> HIDE DEF left
  <2>4. /\ Cardinality(gone(b)) \in Nat /\ Cardinality(left(b)) \in Nat
        /\ Cardinality(DeferrersOf(df, b)) = Cardinality(gone(b)) + Cardinality(left(b))
    BY <1>6, <2>2, PartsCount
  <2> QED BY <2>3, <2>4
<1> HIDE DEF left, row, m
<1>8. ASSUME NEW b \in RealBlocks
      PROVE  /\ p.ref[b] = Cardinality(HoldersOf(rw, b)) + Cardinality(gone(b)) + Cardinality(DeferrersOf(df2, b))
             /\ Cardinality(HoldersOf(rw, b)) \in Nat /\ Cardinality(gone(b)) \in Nat
             /\ Cardinality(DeferrersOf(df2, b)) \in Nat
  <2> HIDE DEF gone
  <2>1. /\ Cardinality(HoldersOf(rw, b)) \in Nat
        /\ p.ref[b] = Cardinality(HoldersOf(rw, b)) + Cardinality(DeferrersOf(df, b))
    BY <1>1, CountsOf DEF RefsOf
  <2> QED BY <1>7, <2>1
<1>9. Referenced(p, row, n)
  <2> SUFFICES ASSUME NEW b \in RealBlocks
               PROVE  Cardinality(gone(b)) <= p.ref[b]
    BY DEF Referenced
  <2> HIDE DEF gone
  <2> QED BY <1>8
<1>10. /\ PoolInv(q)
       /\ \A b \in RealBlocks : q.ref[b] = p.ref[b] - Cardinality(gone(b))
       /\ \A b \in Blocks : q.hash[b] = p.hash[b]
  <2>1. PoolInv(p) /\ n \in Nat
    BY <1>1, <1>2
  <2> HIDE DEF row
  <2> QED BY <1>4, <1>5, <1>9, <2>1, FreeingRows
<1> HIDE DEF gone, q
<1>11. RefsOf(q, rw, df2)
  <2> SUFFICES ASSUME NEW b \in RealBlocks
               PROVE  q.ref[b] = Cardinality(HoldersOf(rw, b)) + Cardinality(DeferrersOf(df2, b))
    BY DEF RefsOf
  <2>1. q.ref[b] = p.ref[b] - Cardinality(gone(b))
    BY <1>10
  <2> QED BY <1>8, <2>1
<1>12. TypedOf(q, rw, nc, df2)
  BY <1>1, <1>10 DEF TypedOf
<1>13. RowsOf(rw, df2)
  BY <1>1, <1>2 DEF RowsOf
\* A block with one reference, a table's, was in no entry.
<1>14. HashesOf(q, rw, nc)
  <2>1. ASSUME NEW r \in Req
        PROVE  /\ \A i \in 1 .. nc[r] : q.hash[rw[r][i]] = BlockHash[r][i]
               /\ \A i \in nc[r] + 1 .. Len(rw[r]) :
                    q.hash[rw[r][i]] = NoKey /\ q.ref[rw[r][i]] = 1
    <3>1. /\ rw[r] \in Seq(Blocks) /\ IsRow(rw[r]) /\ nc[r] \in Nat
          /\ nc[r] <= Len(rw[r]) /\ Len(rw[r]) \in Nat
      BY <1>1 DEF TypedOf, RowsOf, LengthsOf
    <3>2. \A i \in 1 .. Len(rw[r]) : /\ rw[r][i] \in RealBlocks /\ rw[r][i] \in Blocks
                                     /\ rw[r][i] \in Elements(rw[r])
      BY <3>1, RowBlocks
    <3>3. ASSUME NEW i \in nc[r] + 1 .. Len(rw[r])
          PROVE  q.hash[rw[r][i]] = NoKey /\ q.ref[rw[r][i]] = 1
      <4> DEFINE b == rw[r][i]
      <4>1. i \in 1 .. Len(rw[r]) /\ p.hash[b] = NoKey /\ p.ref[b] = 1
        BY <1>1, <3>1 DEF HashesOf
      <4>2. b \in RealBlocks /\ b \in Blocks /\ b \in Elements(rw[r])
        BY <3>2, <4>1
      <4> HIDE DEF b
      <4>3. \A j \in DOMAIN df : b \notin Elements(df[j].blocks)
        BY <1>1, <4>1, <4>2, SingleOf
      <4>4. gone(b) = {}
        BY <1>2, <4>3 DEF gone, row, InRows
      <4>5. Cardinality(gone(b)) = 0
        BY <4>4, FS_EmptySet
      <4> QED BY <1>10, <4>1, <4>2, <4>5 DEF b
    <3>4. \A i \in 1 .. nc[r] : q.hash[rw[r][i]] = BlockHash[r][i]
      <4>1. \A i \in 1 .. nc[r] : i \in 1 .. Len(rw[r])
        BY <3>1
      <4> QED BY <1>1, <1>10, <3>2, <4>1 DEF HashesOf
    <3> QED BY <3>3, <3>4
  <2> QED BY <2>1 DEF HashesOf
<1>15. BlocksOf(q, rw, nc, df2)
  BY <1>1, <1>11, <1>12, <1>13, <1>14 DEF BlocksOf
<1> QED BY <1>10, <1>15 DEF q, SameHashes

\* The tables of the requests in S are forgotten.
Forgotten(rw, S) == [r \in Req |-> IF r \in S THEN << >> ELSE rw[r]]
Uncached(nc, S) == [r \in Req |-> IF r \in S THEN 0 ELSE nc[r]]

\* What a block loses when the tables in S are forgotten.
LEMMA ForgottenCount ==
  ASSUME NEW rw \in [Req -> Seq(Blocks)], NEW s \in Seq(Req), Distinct(s), NEW b
  PROVE  LET P == {i \in DOMAIN s : b \in Elements(rw[s[i]])}
             kept == HoldersOf(Forgotten(rw, Elements(s)), b)
         IN  /\ Cardinality(P) \in Nat /\ Cardinality(kept) \in Nat
             /\ Cardinality(HoldersOf(rw, b)) = Cardinality(P) + Cardinality(kept)
<1> DEFINE P == {i \in DOMAIN s : b \in Elements(rw[s[i]])}
           kept == HoldersOf(Forgotten(rw, Elements(s)), b)
           lost == {r \in Elements(s) : r \in HoldersOf(rw, b)}
<1>1. P = {i \in DOMAIN s : s[i] \in HoldersOf(rw, b)}
  BY DEF HoldersOf
<1>2. Cardinality(P) = Cardinality(lost)
  <2> DEFINE T == HoldersOf(rw, b)
  <2>1. P = {i \in DOMAIN s : s[i] \in T} /\ lost = {r \in Elements(s) : r \in T}
    BY <1>1
  <2> HIDE DEF P, lost, kept, T
  <2> QED BY <2>1, PositionsCount
<1>3. Elements(s) \subseteq Req /\ Elements(<< >>) = {}
  BY DEF Elements
<1>4. \A r \in Req : Forgotten(rw, Elements(s))[r] = IF r \in Elements(s) THEN << >> ELSE rw[r]
  BY DEF Forgotten
<1>5. HoldersOf(rw, b) = lost \cup kept /\ lost \cap kept = {}
  BY <1>3, <1>4 DEF HoldersOf
<1>6. IsFiniteSet(HoldersOf(rw, b))
  <2>1. HoldersOf(rw, b) \subseteq Req
    BY DEF HoldersOf
  <2> QED BY <2>1, Constants, FS_Subset
<1> HIDE DEF P, kept, lost
<1> DEFINE all == HoldersOf(rw, b)
<1> HIDE DEF all
<1>7. /\ Cardinality(lost) \in Nat /\ Cardinality(kept) \in Nat
      /\ Cardinality(HoldersOf(rw, b)) = Cardinality(lost) + Cardinality(kept)
  <2>1. all = lost \cup kept /\ IsFiniteSet(all) /\ lost \cap kept = {}
    BY <1>5, <1>6 DEF all
  <2>2. lost \subseteq all /\ kept = all \ lost
    BY <2>1
  <2>3. /\ Cardinality(lost) \in Nat /\ Cardinality(all \ lost) \in Nat
        /\ Cardinality(all) = Cardinality(lost) + Cardinality(all \ lost)
    BY <2>1, <2>2, RestCount
  <2> QED BY <2>2, <2>3 DEF all
<1> QED BY <1>2, <1>7 DEF P, kept

\* The types, rows and lengths after tables were forgotten.
LEMMA ForgottenTypes ==
  ASSUME NEW rw \in [Req -> Seq(Blocks)], NEW nc \in [Req -> Nat], LengthsOf(rw, nc),
         \A r \in Req : IsRow(rw[r]), NEW S \in SUBSET Req
  PROVE  /\ Forgotten(rw, S) \in [Req -> Seq(Blocks)] /\ Uncached(nc, S) \in [Req -> Nat]
         /\ LengthsOf(Forgotten(rw, S), Uncached(nc, S))
         /\ \A r \in Req : IsRow(Forgotten(rw, S)[r])
<1>1. /\ << >> \in Seq(Blocks) /\ Len(<< >>) = 0 /\ IsRow(<< >>)
  BY DEF IsRow, Distinct, Elements
<1>2. MaxLen \in Nat /\ \A r \in Req : MaxLen > 0
  BY Constants
<1> QED BY <1>1, <1>2 DEF Forgotten, Uncached, LengthsOf

\* Tables are freed.
FreedRows(rw, s) == [i \in DOMAIN s |-> Freeing(rw[s[i]])]

LEMMA FreeStage ==
  ASSUME NEW p, NEW rw, NEW nc, NEW df, BlocksOf(p, rw, nc, df),
         NEW s \in Seq(Req), Distinct(s),
         NEW calls, calls = FreedRows(rw, s)
  PROVE  /\ BlocksOf(Calls(p, calls), Forgotten(rw, Elements(s)),
                     Uncached(nc, Elements(s)), df)
         /\ SameHashes(Calls(p, calls), p)
<1> DEFINE n == Len(s)
           row == [i \in 1 .. n |-> rw[s[i]]]
           q == Calls(p, calls)
           S == Elements(s)
           rw2 == Forgotten(rw, S)
           nc2 == Uncached(nc, S)
           gone(b) == InRows(row, n, b)
<1>1. /\ TypedOf(p, rw, nc, df) /\ RowsOf(rw, df) /\ LengthsOf(rw, nc)
      /\ RefsOf(p, rw, df) /\ HashesOf(p, rw, nc)
      /\ PoolInv(p) /\ rw \in [Req -> Seq(Blocks)] /\ nc \in [Req -> Nat]
      /\ df \in Seq(EntryType)
  BY DEF BlocksOf, TypedOf
<1>2. n \in Nat /\ DOMAIN s = 1 .. n /\ S \subseteq Req
  BY DEF Elements
<1>3. row \in [1 .. n -> Seq(Blocks)] /\ \A i \in 1 .. n : IsRow(row[i])
  BY <1>1, <1>2 DEF RowsOf
<1>4. calls = [i \in 1 .. n |-> Freeing(row[i])]
  BY <1>2 DEF FreedRows
<1>5. ASSUME NEW b
      PROVE  /\ Cardinality(gone(b)) \in Nat /\ Cardinality(HoldersOf(rw2, b)) \in Nat
             /\ Cardinality(HoldersOf(rw, b)) = Cardinality(gone(b)) + Cardinality(HoldersOf(rw2, b))
  <2>1. gone(b) = {i \in DOMAIN s : b \in Elements(rw[s[i]])}
    BY <1>2 DEF InRows
  <2> QED BY <1>1, <2>1, ForgottenCount
<1> HIDE DEF row, n, rw2, nc2, S
<1>6. \A b \in RealBlocks :
        /\ p.ref[b] = Cardinality(gone(b)) + Cardinality(HoldersOf(rw2, b)) + Cardinality(DeferrersOf(df, b))
        /\ Cardinality(DeferrersOf(df, b)) \in Nat
  BY <1>1, <1>5, CountsOf DEF RefsOf
<1>7. Referenced(p, row, n)
  <2> SUFFICES ASSUME NEW b \in RealBlocks
               PROVE  Cardinality(gone(b)) <= p.ref[b]
    BY DEF Referenced
  <2> HIDE DEF gone
  <2> QED BY <1>5, <1>6
<1>8. /\ PoolInv(q)
      /\ \A b \in RealBlocks : q.ref[b] = p.ref[b] - Cardinality(gone(b))
      /\ \A b \in Blocks : q.hash[b] = p.hash[b]
  <2>1. PoolInv(p) /\ n \in Nat
    BY <1>1, <1>2 DEF n
  <2> QED BY <1>3, <1>4, <1>7, <2>1, FreeingRows
<1>9. /\ rw2 \in [Req -> Seq(Blocks)] /\ nc2 \in [Req -> Nat] /\ LengthsOf(rw2, nc2)
      /\ \A r \in Req : IsRow(rw2[r])
  BY <1>1, <1>2, ForgottenTypes DEF RowsOf, rw2, nc2
<1> HIDE DEF q
<1>10. RefsOf(q, rw2, df)
  <2> HIDE DEF gone
  <2> QED BY <1>5, <1>6, <1>8 DEF RefsOf
<1>11. HashesOf(q, rw2, nc2)
  <2>1. ASSUME NEW r \in Req
        PROVE  /\ \A i \in 1 .. nc2[r] : q.hash[rw2[r][i]] = BlockHash[r][i]
               /\ \A i \in nc2[r] + 1 .. Len(rw2[r]) :
                    q.hash[rw2[r][i]] = NoKey /\ q.ref[rw2[r][i]] = 1
    <3>1. CASE r \in S
      <4>1. nc2[r] = 0 /\ Len(rw2[r]) = 0
        BY <3>1 DEF nc2, rw2, Uncached, Forgotten
      <4> QED BY <4>1
    <3>2. CASE r \notin S
      <4>1. nc2[r] = nc[r] /\ rw2[r] = rw[r]
        BY <3>2 DEF nc2, rw2, Uncached, Forgotten
      <4>2. /\ rw[r] \in Seq(Blocks) /\ IsRow(rw[r]) /\ nc[r] \in Nat
            /\ nc[r] <= Len(rw[r]) /\ Len(rw[r]) \in Nat
        BY <1>1 DEF RowsOf, LengthsOf
      <4>3. \A i \in 1 .. Len(rw[r]) : /\ rw[r][i] \in RealBlocks /\ rw[r][i] \in Blocks
                                       /\ rw[r][i] \in Elements(rw[r])
        BY <4>2, RowBlocks
      <4>4. ASSUME NEW i \in nc[r] + 1 .. Len(rw[r])
            PROVE  q.hash[rw[r][i]] = NoKey /\ q.ref[rw[r][i]] = 1
        <5> DEFINE b == rw[r][i]
        <5>1. i \in 1 .. Len(rw[r]) /\ p.hash[b] = NoKey /\ p.ref[b] = 1
          BY <1>1, <4>2 DEF HashesOf
        <5>2. b \in RealBlocks /\ b \in Blocks /\ b \in Elements(rw[r])
          BY <4>3, <5>1
        <5> HIDE DEF b
        <5>3. \A x \in Req \ {r} : b \notin Elements(rw[x])
          BY <1>1, <5>1, <5>2, SingleOf
        <5>4. \A j \in 1 .. n : s[j] \in S /\ s[j] \in Req \ {r} /\ row[j] = rw[s[j]]
          BY <1>2, <3>2 DEF S, row, n, Elements
        <5>5. gone(b) = {}
          BY <1>2, <5>3, <5>4 DEF gone, InRows
        <5>6. Cardinality(gone(b)) = 0
          BY <5>5, FS_EmptySet
        <5> QED BY <1>8, <5>1, <5>2, <5>6 DEF b
      <4>5. \A i \in 1 .. nc[r] : q.hash[rw[r][i]] = BlockHash[r][i]
        <5>1. \A i \in 1 .. nc[r] : i \in 1 .. Len(rw[r])
          BY <4>2
        <5> QED BY <1>1, <1>8, <4>3, <5>1 DEF HashesOf
      <4> QED BY <4>1, <4>4, <4>5
    <3> QED BY <3>1, <3>2
  <2> QED BY <2>1 DEF HashesOf
<1>12. TypedOf(q, rw2, nc2, df) /\ RowsOf(rw2, df)
  BY <1>1, <1>8, <1>9 DEF TypedOf, RowsOf
<1>13. BlocksOf(q, rw2, nc2, df)
  BY <1>9, <1>10, <1>11, <1>12 DEF BlocksOf
<1> QED BY <1>8, <1>13 DEF q, rw2, nc2, S, SameHashes

\* Tables go to deferred entries.
Deferred(df, rw, t, df2) ==
  /\ df2 \in Seq(EntryType) /\ Len(df2) = Len(df) + Len(t)
  /\ \A i \in 1 .. Len(df) : df2[i].blocks = df[i].blocks
  /\ \A i \in 1 .. Len(t) : df2[Len(df) + i].blocks = rw[t[i]]

LEMMA DeferStage ==
  ASSUME NEW p, NEW rw, NEW nc, NEW df, BlocksOf(p, rw, nc, df),
         NEW t \in Seq(Req), Distinct(t), NEW df2, Deferred(df, rw, t, df2)
  PROVE  BlocksOf(p, Forgotten(rw, Elements(t)), Uncached(nc, Elements(t)), df2)
<1> DEFINE n == Len(df)
           m == Len(t)
           T == Elements(t)
           rw2 == Forgotten(rw, T)
           nc2 == Uncached(nc, T)
           P(b) == {i \in 1 .. m : b \in Elements(rw[t[i]])}
           added(b) == {i \in n + 1 .. n + m : i - n \in P(b)}
<1>1. /\ TypedOf(p, rw, nc, df) /\ RowsOf(rw, df) /\ LengthsOf(rw, nc)
      /\ RefsOf(p, rw, df) /\ HashesOf(p, rw, nc)
      /\ PoolInv(p) /\ rw \in [Req -> Seq(Blocks)] /\ nc \in [Req -> Nat]
      /\ df \in Seq(EntryType) /\ df2 \in Seq(EntryType)
  BY DEF BlocksOf, TypedOf, Deferred
<1>2. /\ n \in Nat /\ m \in Nat /\ DOMAIN t = 1 .. m /\ T \subseteq Req
      /\ DOMAIN df = 1 .. n /\ DOMAIN df2 = 1 .. n + m
      /\ \A i \in 1 .. n : df2[i].blocks = df[i].blocks
      /\ \A i \in 1 .. m : df2[n + i].blocks = rw[t[i]] /\ t[i] \in Req
  BY <1>1 DEF Deferred, Elements
<1> HIDE DEF T, rw2, nc2, n, m
<1>3. \A i \in n + 1 .. n + m : i - n \in 1 .. m /\ n + (i - n) = i
  BY <1>2
<1>4. \A i \in 1 .. n + m : i \in 1 .. n \/ i \in n + 1 .. n + m
  BY <1>2
<1>5. ASSUME NEW b
      PROVE  /\ Cardinality(DeferrersOf(df2, b)) = Cardinality(DeferrersOf(df, b)) + Cardinality(P(b))
             /\ Cardinality(P(b)) \in Nat /\ Cardinality(HoldersOf(rw2, b)) \in Nat
             /\ Cardinality(HoldersOf(rw, b)) = Cardinality(P(b)) + Cardinality(HoldersOf(rw2, b))
  <2>1. DeferrersOf(df2, b) = DeferrersOf(df, b) \cup added(b)
    <3>1. \A i \in 1 .. n : i \in 1 .. n + m
      BY <1>2
    <3>2. \A i \in n + 1 .. n + m : i \in 1 .. n + m /\ df2[i].blocks = rw[t[i - n]]
      <4>1. \A i \in n + 1 .. n + m : i \in 1 .. n + m
        BY <1>2
      <4> QED BY <1>2, <1>3, <4>1
    <3> QED BY <1>2, <1>3, <1>4, <3>1, <3>2 DEF DeferrersOf
  <2>2. DeferrersOf(df, b) \cap added(b) = {}
    BY <1>2 DEF DeferrersOf
  <2>3. IsFiniteSet(DeferrersOf(df2, b))
    <3>1. DeferrersOf(df2, b) \in SUBSET (1 .. n + m) /\ n + m \in Nat
      BY <1>2 DEF DeferrersOf
    <3>2. IsFiniteSet(1 .. n + m)
      BY <3>1, FS_Interval
    <3> QED BY <3>1, <3>2, FS_Subset
  <2>4. P(b) \in SUBSET (1 .. m)
    OBVIOUS
  <2>5. P(b) = {i \in DOMAIN t : b \in Elements(rw[t[i]])}
    BY <1>2
  <2>6. /\ Cardinality(P(b)) \in Nat /\ Cardinality(HoldersOf(rw2, b)) \in Nat
        /\ Cardinality(HoldersOf(rw, b)) = Cardinality(P(b)) + Cardinality(HoldersOf(rw2, b))
    BY <1>1, <2>5, ForgottenCount DEF rw2, T
  <2> HIDE DEF P
  <2>7. Cardinality(added(b)) = Cardinality(P(b))
    BY <1>2, <2>4, ShiftedCount
  <2> HIDE DEF added
  <2>8. Cardinality(DeferrersOf(df2, b)) = Cardinality(DeferrersOf(df, b)) + Cardinality(added(b))
    BY <2>1, <2>2, <2>3, PartsCount
  <2> QED BY <2>6, <2>7, <2>8
<1> HIDE DEF P
<1>6. RefsOf(p, rw2, df2)
  BY <1>1, <1>5, CountsOf DEF RefsOf
<1>7. /\ rw2 \in [Req -> Seq(Blocks)] /\ nc2 \in [Req -> Nat] /\ LengthsOf(rw2, nc2)
      /\ \A r \in Req : IsRow(rw2[r])
  BY <1>1, <1>2, ForgottenTypes DEF RowsOf, rw2, nc2
<1>8. \A i \in DOMAIN df2 : IsRow(df2[i].blocks)
  <2> TAKE i \in DOMAIN df2
  <2>1. CASE i \in 1 .. n
    BY <1>1, <1>2, <2>1 DEF RowsOf
  <2>2. CASE i \in n + 1 .. n + m
    <3>1. df2[n + (i - n)].blocks = rw[t[i - n]] /\ t[i - n] \in Req /\ n + (i - n) = i
      BY <1>2, <1>3, <2>2
    <3> QED BY <1>1, <3>1 DEF RowsOf
  <2> QED BY <1>2, <1>4, <2>1, <2>2
<1>9. HashesOf(p, rw2, nc2)
  <2>1. ASSUME NEW r \in Req
        PROVE  /\ \A i \in 1 .. nc2[r] : p.hash[rw2[r][i]] = BlockHash[r][i]
               /\ \A i \in nc2[r] + 1 .. Len(rw2[r]) :
                    p.hash[rw2[r][i]] = NoKey /\ p.ref[rw2[r][i]] = 1
    <3>1. CASE r \in T
      <4>1. nc2[r] = 0 /\ Len(rw2[r]) = 0
        BY <3>1 DEF nc2, rw2, Uncached, Forgotten
      <4> QED BY <4>1
    <3>2. CASE r \notin T
      <4>1. nc2[r] = nc[r] /\ rw2[r] = rw[r]
        BY <3>2 DEF nc2, rw2, Uncached, Forgotten
      <4> QED BY <1>1, <4>1 DEF HashesOf
    <3> QED BY <3>1, <3>2
  <2> QED BY <2>1 DEF HashesOf
<1>10. TypedOf(p, rw2, nc2, df2) /\ RowsOf(rw2, df2)
  BY <1>1, <1>7, <1>8 DEF TypedOf, RowsOf
<1> QED BY <1>6, <1>7, <1>9, <1>10 DEF BlocksOf, rw2, nc2, T

\* Rows are published: the hash of a block changes only where its position is.
PublishedRows(s, tokens) == [i \in DOMAIN s |-> Publishing(s[i], tokens[s[i]])]
Recorded(s, tokens) ==
  [r \in Req |-> IF r \in Elements(s) THEN Greater(numCached[r], tokens[r]) ELSE numCached[r]]
InTable(s, tokens) ==
  \A r \in Elements(s) : tokens[r] \in Nat /\ tokens[r] <= Len(rows[r])
HashesFrom(q, p, s, tokens) ==
  \A b \in Blocks :
    \/ q.hash[b] = p.hash[b]
    \/ \E r \in Elements(s) : \E i \in numCached[r] + 1 .. tokens[r] :
         i \in DOMAIN rows[r] /\ rows[r][i] = b /\ q.hash[b] = BlockHash[r][i]

LEMMA PublishStage ==
  ASSUME NEW p, NEW df, BlocksOf(p, rows, numCached, df),
         NEW s \in Seq(Req), Distinct(s), NEW tokens, InTable(s, tokens),
         NEW calls, calls = PublishedRows(s, tokens)
  PROVE  /\ BlocksOf(Calls(p, calls), rows, Recorded(s, tokens), df)
         /\ HashesFrom(Calls(p, calls), p, s, tokens)
<1> DEFINE n == Len(s)
           S == Elements(s)
           q == Calls(p, calls)
           nc2 == Recorded(s, tokens)
           X == {Publishing(s[i], tokens[s[i]]) : i \in DOMAIN s}
           open(r) == numCached[r] + 1 .. tokens[r]
<1>1. /\ TypedOf(p, rows, numCached, df) /\ RowsOf(rows, df) /\ LengthsOf(rows, numCached)
      /\ RefsOf(p, rows, df) /\ HashesOf(p, rows, numCached)
      /\ PoolInv(p) /\ rows \in [Req -> Seq(Blocks)] /\ numCached \in [Req -> Nat]
      /\ df \in Seq(EntryType)
  BY DEF BlocksOf, TypedOf
<1>2. /\ n \in Nat /\ DOMAIN s = 1 .. n /\ S \subseteq Req
      /\ \A i \in 1 .. n : s[i] \in S /\ s[i] \in Req
      /\ \A r \in S : \E i \in 1 .. n : s[i] = r
  BY DEF Elements
<1> HIDE DEF S
<1>3. calls \in Seq(X) /\ Len(calls) = n /\ DOMAIN calls = 1 .. n
  <2>1. calls \in [1 .. n -> X]
    BY <1>2 DEF PublishedRows
  <2> HIDE DEF X, n
  <2> QED BY <1>2, <2>1
<1> HIDE DEF X, n
<1>4. \A i \in 1 .. n : /\ calls[i].frees = FALSE /\ calls[i].row = rows[s[i]]
                        /\ calls[i].hashes = BlockHash[s[i]]
                        /\ calls[i].first = numCached[s[i]] /\ calls[i].last = tokens[s[i]]
  BY <1>2 DEF Publishing, PublishedRows
<1>5. ASSUME NEW r \in Req
      PROVE  /\ rows[r] \in Seq(Blocks) /\ IsRow(rows[r]) /\ Len(rows[r]) \in Nat
             /\ DOMAIN rows[r] = 1 .. Len(rows[r])
             /\ numCached[r] \in Nat /\ numCached[r] <= Len(rows[r]) /\ Len(rows[r]) < MaxLen
             /\ \A i \in 1 .. Len(rows[r]) :
                  /\ rows[r][i] \in RealBlocks /\ rows[r][i] \in Blocks
                  /\ rows[r][i] \in Elements(rows[r])
  <2>1. rows[r] \in Seq(Blocks) /\ IsRow(rows[r]) /\ numCached[r] \in Nat
    BY <1>1 DEF RowsOf
  <2> QED BY <1>1, <2>1, RowBlocks DEF LengthsOf
<1>6. ASSUME NEW r \in S
      PROVE  /\ tokens[r] \in Nat /\ tokens[r] <= Len(rows[r]) /\ r \in Req
             /\ \A i \in open(r) : i \in 1 .. Len(rows[r]) /\ i \in 1 .. MaxLen
                                   /\ i \in numCached[r] + 1 .. Len(rows[r])
  <2>1. tokens[r] \in Nat /\ tokens[r] <= Len(rows[r]) /\ r \in Req
    BY <1>2 DEF S, InTable
  <2> QED BY <1>5, <2>1, Constants
<1> HIDE DEF open
<1>7. ASSUME NEW r \in S
      PROVE  Cacheable(rows[r], BlockHash[r], numCached[r], tokens[r])
  <2>1. /\ r \in Req /\ BlockHash[r] \in Seq(Keys) /\ Len(BlockHash[r]) = MaxLen
        /\ \A i, j \in 1 .. MaxLen : BlockHash[r][i] = BlockHash[r][j] => i = j
    BY <1>6, TextHashes
  <2>2. \A i, j \in open(r) : rows[r][i] = rows[r][j] => i = j
    BY <1>5, <1>6, <2>1 DEF IsRow, Distinct
  <2>3. \A i, j \in open(r) : BlockHash[r][i] = BlockHash[r][j] => i = j
    BY <1>6, <2>1
  <2>4. tokens[r] <= MaxLen
    BY <1>5, <1>6, Constants
  <2> QED BY <1>5, <1>6, <2>1, <2>2, <2>3, <2>4 DEF Cacheable, open
<1>8. GoodCalls(calls)
  <2> SUFFICES ASSUME NEW i \in 1 .. n
               PROVE  GoodCall(calls[i])
    BY <1>3 DEF GoodCalls
  <2> DEFINE c == calls[i]
  <2>1. /\ c.frees = FALSE /\ c.row = rows[s[i]] /\ c.hashes = BlockHash[s[i]]
        /\ c.first = numCached[s[i]] /\ c.last = tokens[s[i]]
    BY <1>4
  <2>2. Cacheable(rows[s[i]], BlockHash[s[i]], numCached[s[i]], tokens[s[i]])
    BY <1>2, <1>7
  <2>3. rows[s[i]] \in Seq(Blocks) /\ NullBlock \notin Elements(rows[s[i]])
    BY <1>2, <1>5 DEF IsRow
  <2> HIDE DEF c
  <2> QED BY <2>1, <2>2, <2>3 DEF GoodCall, c
<1>9. \A b : Frees(calls, b) = {}
  BY <1>3, <1>4 DEF Frees, FreesUpTo
<1>10. Cardinality({}) = 0 /\ \A b \in RealBlocks : p.ref[b] \in Nat
  BY <1>1, FS_EmptySet, BlockNumbers DEF PoolInv, PoolType
<1>11. CallsDid(q, p, calls, n)
  <2>1. ASSUME NEW b \in RealBlocks
        PROVE  Cardinality(Frees(calls, b)) <= p.ref[b]
    <3>1. Frees(calls, b) = {}
      BY <1>9
    <3>2. Cardinality(Frees(calls, b)) = 0 /\ p.ref[b] \in Nat
      BY <1>10, <3>1
    <3> QED BY <3>2
  <2> QED BY <1>1, <1>3, <1>8, <2>1, CallsKeep
<1>12. /\ PoolInv(q) /\ \A b \in RealBlocks : q.ref[b] = p.ref[b]
  BY <1>3, <1>9, <1>10, <1>11 DEF CallsDid, Frees
<1> HIDE DEF q
\* Where a block is published it is alone.
<1>13. ASSUME NEW r \in S, NEW i \in open(r)
       PROVE  /\ p.hash[rows[r][i]] = NoKey
              /\ \A x \in Req : \A k \in 1 .. Len(rows[x]) :
                   rows[x][k] = rows[r][i] => x = r /\ k = i
  <2> DEFINE b == rows[r][i]
  <2>1. /\ r \in Req /\ i \in 1 .. Len(rows[r]) /\ b \in RealBlocks /\ b \in Elements(rows[r])
        /\ i \in numCached[r] + 1 .. Len(rows[r])
    BY <1>5, <1>6
  <2>2. p.hash[b] = NoKey /\ p.ref[b] = 1
    BY <1>1, <2>1 DEF HashesOf
  <2> HIDE DEF b
  <2>3. \A x \in Req \ {r} : b \notin Elements(rows[x])
    BY <1>1, <2>1, <2>2, SingleOf
  <2>4. ASSUME NEW x \in Req, NEW k \in 1 .. Len(rows[x]), rows[x][k] = b
        PROVE  x = r /\ k = i
    <3>1. b \in Elements(rows[x])
      BY <1>5, <2>4
    <3>2. x = r
      BY <2>3, <3>1
    <3> QED BY <1>5, <2>1, <2>4, <3>2 DEF b, IsRow, Distinct
  <2> QED BY <2>2, <2>4 DEF b
<1>14. ASSUME NEW b \in Blocks, \A r \in S : \A i \in open(r) : rows[r][i] # b
       PROVE  q.hash[b] = p.hash[b]
  <2>1. ASSUME NEW i \in 1 .. n
        PROVE  ~ Publishes(calls[i], b)
    <3>1. /\ calls[i].row = rows[s[i]] /\ calls[i].first = numCached[s[i]]
          /\ calls[i].last = tokens[s[i]]
      BY <1>4
    <3>2. \A k \in open(s[i]) : rows[s[i]][k] # b
      BY <1>2, <1>14
    <3> QED BY <3>1, <3>2 DEF Publishes, open
  <2> QED BY <1>11, <2>1 DEF CallsDid
<1>15. ASSUME NEW r \in S, NEW i \in open(r)
       PROVE  q.hash[rows[r][i]] = BlockHash[r][i]
  <2> DEFINE b == rows[r][i]
  <2>1. b \in Blocks
    BY <1>5, <1>6
  <2>2. PICK k \in 1 .. n : s[k] = r
    BY <1>2
  <2>3. Publishes(calls[k], b)
    BY <1>4, <2>2 DEF Publishes, open
  <2> HIDE DEF b
  <2>4. PICK l \in 1 .. n : PublishesAs(calls[l], b, q.hash[b])
    BY <1>11, <2>1, <2>3 DEF CallsDid
  <2>5. PICK j \in open(s[l]) : rows[s[l]][j] = b /\ BlockHash[s[l]][j] = q.hash[b]
    BY <1>4, <2>4 DEF PublishesAs, open
  <2>6. s[l] \in S /\ s[l] \in Req /\ j \in 1 .. Len(rows[s[l]])
    BY <1>2, <1>6, <2>5
  <2>7. s[l] = r /\ j = i
    <3>1. \A x \in Req : \A m \in 1 .. Len(rows[x]) : rows[x][m] = b => x = r /\ m = i
      BY <1>13 DEF b
    <3> QED BY <2>5, <2>6, <3>1
  <2> QED BY <2>5, <2>7 DEF b
<1>0. \A r \in Req : nc2[r] = IF r \in S THEN Greater(numCached[r], tokens[r]) ELSE numCached[r]
  BY DEF Recorded, S
<1>00. nc2 = [r \in Req |-> nc2[r]]
  BY DEF Recorded
<1> HIDE DEF nc2
<1>16. nc2 \in [Req -> Nat] /\ LengthsOf(rows, nc2)
  <2>1. \A r \in Req : nc2[r] \in Nat /\ nc2[r] <= Len(rows[r])
    BY <1>0, <1>5, <1>6 DEF Greater
  <2>2. nc2 \in [Req -> Nat]
    BY <1>00, <2>1
  <2> QED BY <1>5, <2>1, <2>2 DEF LengthsOf
<1>17. HashesOf(q, rows, nc2)
  <2>1. ASSUME NEW r \in Req
        PROVE  /\ \A i \in 1 .. nc2[r] : q.hash[rows[r][i]] = BlockHash[r][i]
               /\ \A i \in nc2[r] + 1 .. Len(rows[r]) :
                    q.hash[rows[r][i]] = NoKey /\ q.ref[rows[r][i]] = 1
    <3>1. nc2[r] = IF r \in S THEN Greater(numCached[r], tokens[r]) ELSE numCached[r]
      BY <1>0
    <3>2. nc2[r] \in Nat /\ nc2[r] <= Len(rows[r]) /\ numCached[r] <= nc2[r]
      BY <1>5, <1>6, <1>16, <3>1 DEF LengthsOf, Greater
    <3>3. ASSUME NEW i \in 1 .. nc2[r]
          PROVE  q.hash[rows[r][i]] = BlockHash[r][i]
      <4>1. i \in 1 .. Len(rows[r]) /\ rows[r][i] \in Blocks
        BY <1>5, <3>2
      <4>2. CASE r \in S /\ i \in open(r)
        BY <1>15, <4>2
      <4>3. CASE ~ (r \in S /\ i \in open(r))
        <5>1. i \in 1 .. numCached[r]
          BY <1>5, <1>6, <3>1, <3>2, <4>3 DEF Greater, open
        <5>2. p.hash[rows[r][i]] = BlockHash[r][i]
          BY <1>1, <5>1 DEF HashesOf
        <5>3. i \in 1 .. MaxLen
          BY <1>5, <4>1, Constants
        <5>4. BlockHash[r][i] # NoKey
          BY <5>3, TextHashes
        <5>5. \A x \in S : \A k \in open(x) : rows[x][k] # rows[r][i]
          BY <1>13, <5>2, <5>4
        <5> QED BY <1>14, <4>1, <5>2, <5>5
      <4> QED BY <4>2, <4>3
    <3>4. ASSUME NEW i \in nc2[r] + 1 .. Len(rows[r])
          PROVE  q.hash[rows[r][i]] = NoKey /\ q.ref[rows[r][i]] = 1
      <4>1. i \in 1 .. Len(rows[r]) /\ i \in numCached[r] + 1 .. Len(rows[r])
        BY <1>5, <3>2
      <4>2. rows[r][i] \in Blocks /\ rows[r][i] \in RealBlocks
        BY <1>5, <4>1
      <4>3. p.hash[rows[r][i]] = NoKey /\ p.ref[rows[r][i]] = 1
        BY <1>1, <4>1 DEF HashesOf
      <4>4. \A x \in S : \A k \in open(x) : rows[x][k] # rows[r][i]
        <5> SUFFICES ASSUME NEW x \in S, NEW k \in open(x), rows[x][k] = rows[r][i]
                     PROVE  FALSE
          OBVIOUS
        <5>1. x = r /\ k = i
          BY <1>13, <4>1
        <5>2. i <= tokens[r] /\ tokens[r] \in Nat /\ r \in S
          BY <1>6, <5>1 DEF open
        <5>3. tokens[r] <= nc2[r]
          BY <1>5, <3>1, <5>2 DEF Greater
        <5> QED BY <3>2, <5>2, <5>3
      <4> QED BY <1>12, <1>14, <4>2, <4>3, <4>4
    <3> QED BY <3>3, <3>4
  <2> QED BY <2>1 DEF HashesOf
<1>18. RefsOf(q, rows, df)
  BY <1>1, <1>12 DEF RefsOf
<1>19. BlocksOf(q, rows, nc2, df)
  BY <1>1, <1>12, <1>16, <1>17, <1>18 DEF BlocksOf, TypedOf
<1>20. \A b \in Blocks :
         \/ q.hash[b] = p.hash[b]
         \/ \E r \in S : \E i \in open(r) :
              i \in DOMAIN rows[r] /\ rows[r][i] = b /\ q.hash[b] = BlockHash[r][i]
  <2> TAKE b \in Blocks
  <2>1. CASE \A r \in S : \A i \in open(r) : rows[r][i] # b
    BY <1>14, <2>1
  <2>2. CASE \E r \in S : \E i \in open(r) : rows[r][i] = b
    <3>1. PICK r \in S : \E i \in open(r) : rows[r][i] = b
      BY <2>2
    <3>2. PICK i \in open(r) : rows[r][i] = b
      BY <3>1
    <3>3. i \in DOMAIN rows[r] /\ q.hash[b] = BlockHash[r][i]
      BY <1>5, <1>6, <1>15, <3>2
    <3> QED BY <3>2, <3>3
  <2> QED BY <2>1, <2>2
<1> QED BY <1>19, <1>20 DEF q, S, open, nc2, HashesFrom
------------------------------------------------------------------------------
(***************************************************************************)
(* The requests, the queues and the steps: the rest of the inductive       *)
(* invariant.                                                              *)
(***************************************************************************)

Statuses == {"new", "waiting", "loading", "running"}
StepType == [order : Seq(Req), from : [Req -> Nat], to : [Req -> Nat],
             row : [Req -> Seq(Blocks)], samples : SUBSET Req]
LoadType == [from : Nat, blocks : Seq(Blocks)]
NowType ==
  [at : {"idle", "running", "waiting"}, stock : BOOLEAN, seats : Int, pos : Nat \ {0},
   budget : Nat, cand : Seq(Req), skips : Seq(Req), parked : Seq(Req), stale : Seq(Req),
   preempted : Seq(Req), plan : [Req -> Nat], probed : SUBSET Req,
   probe : [Req -> Seq(Blocks)], ext : [Req -> Nat], reserved : Nat]

Typed ==
  /\ content \in [Blocks -> Texts]
  /\ status \in [Req -> Statuses] /\ numTokens \in [Req -> Nat]
  /\ computed \in [Req -> Nat] /\ placeholders \in [Req -> Nat]
  /\ running \in Seq(Req) /\ waiting \in Seq(Req) /\ skipped \in Seq(Req)
  /\ prefills \in SUBSET Req /\ received \in SUBSET Req
  /\ loads \in [Req -> LoadType] /\ steps \in Seq(StepType)
  /\ turn \in BOOLEAN /\ now \in NowType

\* There is room in flight for the step that is being made.
Turns ==
  /\ Len(steps) <= Depth /\ (~ turn => Len(steps) < Depth)
  /\ now.at # "idle" => ~ turn
  /\ now.at = "idle" => now = Idle

\* The numbers of a request, its table and its status.
SizeOf(r) ==
  /\ PromptLen[r] <= numTokens[r] /\ numTokens[r] < MaxLen /\ computed[r] < MaxLen
  /\ r \notin Elements(now.preempted) => computed[r] + now.plan[r] <= Len(rows[r])
  /\ status[r] # "running" => placeholders[r] = 0
  /\ status[r] = "new" => rows[r] = << >> /\ computed[r] = 0
  /\ status[r] = "loading" => computed[r] = Len(rows[r])
  /\ status[r] = "waiting" => computed[r] < numTokens[r]
  /\ (/\ status[r] = "waiting" /\ computed[r] = 0
      /\ r \notin Elements(running) /\ r \notin Elements(now.parked)) => rows[r] = << >>
  /\ r \notin Elements(running) => now.plan[r] = 0
Sizes == \A r \in Req : SizeOf(r)

\* A placeholder is owed by a step in flight, and all but one are computed.
Sampling(i, r) == IF i \in DOMAIN steps /\ r \in steps[i].samples THEN 1 ELSE 0
OwedTo(r) == /\ placeholders[r] <= Sampling(1, r) + Sampling(2, r)
             /\ r \notin Elements(now.preempted) => placeholders[r] <= computed[r] + 1
Owed == \A r \in Req : OwedTo(r)

\* Between two steps the queues part the requests.
InStatus(s) == {r \in Req : status[r] = s}
IdleQueues ==
  /\ Distinct(running) /\ Distinct(waiting) /\ Distinct(skipped)
  /\ Elements(waiting) \cap Elements(skipped) = {}
  /\ Elements(running) = InStatus("running")
  /\ Elements(waiting) \cup Elements(skipped) = InStatus("waiting") \cup InStatus("loading")
  /\ Elements(waiting) \cap InStatus("loading") = {}

\* In a step the running queue and the lists of the step do.
Apart(R, P, C, K, A, S) ==
  /\ R \cap P = {} /\ (R \cup P) \cap C = {} /\ (R \cup P \cup C) \cap K = {}
  /\ (R \cup P \cup C \cup K) \cap A = {} /\ (R \cup P \cup C \cup K \cup A) \cap S = {}
StepQueues ==
  LET R == Elements(running)
      P == Elements(now.preempted)
      C == Elements(now.cand)
      K == Elements(now.skips)
      A == Elements(now.parked)
      S == Elements(now.stale)
  IN  /\ Distinct(running) /\ Distinct(now.preempted) /\ Distinct(now.cand)
      /\ Distinct(now.skips) /\ Distinct(now.parked) /\ Distinct(now.stale)
      /\ Apart(R, P, C, K, A, S)
      /\ R \cup P \cup C \cup K \cup A \cup S = Req \ InStatus("new")
      /\ \A r \in R : status[r] \in {"running", "waiting"}
      /\ \A r \in P : status[r] = "running" /\ rows[r] = << >>
      /\ \A r \in C \cup A \cup S : status[r] = "waiting"
      /\ \A r \in K : status[r] \in {"waiting", "loading"}
Queues ==
  /\ now.at = "idle" => IdleQueues
  /\ now.at # "idle" => StepQueues

\* In phase 1 nothing is admitted, and what the loop has not come to has no plan.
Phases ==
  /\ now.at = "running" =>
       /\ now.parked = << >> /\ now.stale = << >> /\ now.probed = {}
       /\ \A r \in Elements(running) : status[r] = "running"
       /\ \A j \in DOMAIN running : j >= now.pos => now.plan[running[j]] = 0
  /\ now.preempted # << >> => now.parked = << >>

\* A probe and the connector's answer are for a text that is not computed, and
\* a parked request starts with the hit that was told.
ProbeOf(r) ==
  /\ now.ext[r] > 0 => r \in now.probed
  /\ r \in now.probed => /\ now.ext[r] + Len(now.probe[r]) <= numTokens[r]
                         /\ Len(now.probe[r]) < numTokens[r]
                         /\ r \in Elements(now.cand) => computed[r] = 0
  /\ r \in Elements(now.parked) =>
       numCached[r] = Len(now.probe[r]) /\ computed[r] = 0
Probes == \A r \in Req : ProbeOf(r)

\* A step names each of its requests once and computes no further than the row.
IsStep(s) ==
  /\ Distinct(s.order) /\ Elements(s.order) = {r \in Req : s.to[r] # 0}
  /\ s.samples \subseteq Elements(s.order)
  /\ \A r \in Req : s.to[r] <= Len(s.row[r]) /\ (s.to[r] = 0 => s.row[r] = << >>)
Steps == \A i \in DOMAIN steps : IsStep(steps[i])

\* A transfer is of a request that is loading and was not received; it fills
\* the part of its table that is not published.
TransferOf(r) ==
  /\ r \in received => status[r] = "loading"
  /\ loads[r] # NoLoad =>
       /\ status[r] = "loading" /\ r \notin received
       /\ loads[r].from = numCached[r] + 1
       /\ loads[r].blocks = SubSeq(rows[r], numCached[r] + 1, Len(rows[r]))
Transfers == \A r \in Req : TransferOf(r)

Control == /\ Typed /\ Turns /\ Sizes /\ Owed /\ Queues /\ Phases /\ Probes
           /\ Steps /\ Transfers

SplitInv == BlocksInv /\ Control
\* What the variables are.
LEMMA TypedFacts ==
  ASSUME Typed
  PROVE  /\ \A r \in Req : /\ numTokens[r] \in Nat /\ computed[r] \in Nat
                           /\ placeholders[r] \in Nat /\ status[r] \in Statuses
                           /\ now.plan[r] \in Nat /\ now.ext[r] \in Nat
                           /\ now.probe[r] \in Seq(Blocks)
         /\ now.cand \in Seq(Req) /\ now.skips \in Seq(Req) /\ now.parked \in Seq(Req)
         /\ now.stale \in Seq(Req) /\ now.preempted \in Seq(Req)
         /\ now.budget \in Nat /\ now.reserved \in Nat /\ now.pos \in Nat \ {0}
         /\ now.plan \in [Req -> Nat] /\ now.ext \in [Req -> Nat]
         /\ now.probe \in [Req -> Seq(Blocks)] /\ now.probed \in SUBSET Req
<1>1. now \in NowType
  BY DEF Typed
<1> QED BY <1>1 DEF Typed, NowType

\* The pairs of an element of s and a number up to f of it.
Pairs(f, s, m) == {w \in s \X (1 .. m) : w[2] <= f[w[1]]}

\* There are as many as the values of f add up to.
PairsUnder(f, s, m) == Cardinality(Pairs(f, s, m))

LEMMA PairsCount ==
  ASSUME NEW D, IsFiniteSet(D), NEW m \in Nat, NEW f \in [D -> 0 .. m], NEW s \in SUBSET D
  PROVE  /\ Cardinality(Pairs(f, s, m)) \in Nat
         /\ \A x \in s : Cardinality(Pairs(f, s, m)) =
              f[x] + Cardinality(Pairs(f, s \ {x}, m))
<1>1. IsFiniteSet(s) /\ IsFiniteSet(1 .. m)
  BY FS_Subset, FS_Interval
<1>2. IsFiniteSet(s \X (1 .. m))
  BY <1>1, FS_Product
<1>3. IsFiniteSet(Pairs(f, s, m))
  <2>1. Pairs(f, s, m) \subseteq s \X (1 .. m)
    BY DEF Pairs
  <2> QED BY <1>2, <2>1, FS_Subset
<1>4. ASSUME NEW x \in s
      PROVE  Cardinality(Pairs(f, s, m)) = f[x] + Cardinality(Pairs(f, s \ {x}, m))
  <2> DEFINE own == {x} \X (1 .. f[x])
  <2>1. f[x] \in 0 .. m
    OBVIOUS
  <2>3. Cardinality(own) = f[x]
    <3> DEFINE k == f[x]
               C == 1 .. k
    <3>1. k \in Nat
      BY <2>1
    <3> HIDE DEF k
    <3>2. IsFiniteSet(C) /\ Cardinality(C) = k
      <4>1. 1 \in Int /\ k \in Int
        BY <3>1
      <4>2. /\ IsFiniteSet(1 .. k)
            /\ Cardinality(1 .. k) = IF 1 > k THEN 0 ELSE k - 1 + 1
        BY <4>1, FS_Interval
      <4> QED BY <3>1, <4>2
    <3>3. IsFiniteSet({x}) /\ Cardinality({x}) = 1
      BY FS_Singleton
    <3> HIDE DEF C
    <3>4. Cardinality({x} \X C) = Cardinality({x}) * Cardinality(C)
      BY <3>2, <3>3, FS_Product
    <3>5. Cardinality({x} \X C) = k
      BY <3>1, <3>2, <3>3, <3>4
    <3> QED BY <3>5 DEF C, k
  <2>4. Pairs(f, s, m) = own \cup Pairs(f, s \ {x}, m)
    BY <2>1 DEF Pairs
  <2>5. own \cap Pairs(f, s \ {x}, m) = {}
    BY DEF Pairs
  <2> HIDE DEF own
  <2>6. Cardinality(Pairs(f, s, m)) = Cardinality(own) + Cardinality(Pairs(f, s \ {x}, m))
    BY <1>3, <2>4, <2>5, PartsCount
  <2> QED BY <2>3, <2>6
<1> QED BY <1>3, <1>4, FS_CardinalityType

\* A sum of naturals is the number of those pairs, and a natural.
LEMMA SumOfNaturals ==
  ASSUME NEW D, IsFiniteSet(D), NEW m \in Nat, NEW f, NEW S \in SUBSET D,
         f \in [D -> 0 .. m]
  PROVE  SumFunctionOnSet(f, S) = PairsUnder(f, S, m) /\ SumFunctionOnSet(f, S) \in Nat
<1> DEFINE g == [s \in SUBSET S |-> PairsUnder(f, s, m)]
           h == Total(f, S)
<1>1. \A s \in SUBSET S :
        /\ PairsUnder(f, s, m) \in Nat
        /\ \A x \in s : PairsUnder(f, s, m) = f[x] + PairsUnder(f, s \ {x}, m)
  <2> TAKE s \in SUBSET S
  <2>1. s \in SUBSET D
    OBVIOUS
  <2>2. /\ Cardinality(Pairs(f, s, m)) \in Nat
        /\ \A x \in s : Cardinality(Pairs(f, s, m)) =
             f[x] + Cardinality(Pairs(f, s \ {x}, m))
    BY <2>1, PairsCount
  <2> QED BY <2>2 DEF PairsUnder
<1>2. PairsUnder(f, {}, m) = 0
  <2>1. Pairs(f, {}, m) = {}
    BY DEF Pairs
  <2> QED BY <2>1, FS_EmptySet DEF PairsUnder
<1>3. IsTotal(g, f, S)
  <2>1. \A s \in SUBSET S : s # {} =>
          PairsUnder(f, s, m) = LET x == CHOOSE x \in s : TRUE IN f[x] + g[s \ {x}]
    <3> TAKE s \in SUBSET S
    <3> HAVE s # {}
    <3> DEFINE x == CHOOSE x \in s : TRUE
    <3>1. x \in s /\ s \ {x} \in SUBSET S
      OBVIOUS
    <3> HIDE DEF x
    <3>2. PairsUnder(f, s, m) = f[x] + g[s \ {x}]
      BY <1>1, <3>1
    <3> QED BY <3>2 DEF x
  <2> QED BY <1>2, <2>1 DEF IsTotal
<1>4. IsTotal(h, f, S)
  BY <1>3 DEF Total
<1>5. SumFunctionOnSet(f, S) = h[S]
  BY DEF SumFunctionOnSet, FoldFunctionOnSet, MapThenFoldSet, Total, IsTotal
<1> HIDE DEF h
<1>6. /\ h[{}] = 0
      /\ \A s \in SUBSET S : s # {} =>
           LET x == CHOOSE x \in s : TRUE IN h[s] = f[x] + h[s \ {x}]
  BY <1>4 DEF IsTotal
<1>7. \A s \in SUBSET S : h[s] = PairsUnder(f, s, m)
  <2> DEFINE bad == {s \in SUBSET S : h[s] # PairsUnder(f, s, m)}
             sizes == {Cardinality(s) : s \in bad}
  <2> SUFFICES ASSUME bad # {}
               PROVE  FALSE
    OBVIOUS
  <2>1. \A s \in SUBSET S : IsFiniteSet(s) /\ Cardinality(s) \in Nat
    BY FS_Subset, FS_CardinalityType
  <2>2. sizes \subseteq Nat /\ sizes # {}
    BY <2>1
  <2> HIDE DEF sizes
  <2>3. PICK n \in sizes : \A k \in sizes : n <= k
    BY <2>2, LeastNatural
  <2>4. PICK s \in bad : Cardinality(s) = n
    BY <2>3 DEF sizes
  <2>5. s \in SUBSET S /\ s # {}
    BY <1>2, <1>6
  <2> DEFINE x == CHOOSE x \in s : TRUE
  <2>6. x \in s /\ h[s] = f[x] + h[s \ {x}]
    BY <1>6, <2>5
  <2> HIDE DEF x
  <2>7. Cardinality(s \ {x}) = Cardinality(s) - 1 /\ s \ {x} \in SUBSET S
    BY <2>1, <2>5, <2>6, FS_RemoveElement
  <2>8. s \ {x} \notin bad
    <3>1. ASSUME s \ {x} \in bad
          PROVE  FALSE
      <4>1. Cardinality(s \ {x}) \in sizes
        BY <3>1 DEF sizes
      <4>2. n <= n - 1 /\ n \in Nat
        BY <2>2, <2>3, <2>4, <2>7, <4>1
      <4> QED BY <4>2
    <3> QED BY <3>1
  <2>9. h[s \ {x}] = PairsUnder(f, s \ {x}, m)
    BY <2>7, <2>8
  <2> QED BY <1>1, <2>4, <2>5, <2>6, <2>9
<1> QED BY <1>1, <1>5, <1>7

\* remaining_blocks over a set of requests.
LEMMA RemainingType ==
  ASSUME BlocksInv, Typed, Sizes, NEW S \in SUBSET Req
  PROVE  RemainingOf(S) \in Nat
<1> DEFINE f == [r \in Req |-> RemainingBlocks(r)]
<1>1. f \in [Req -> 0 .. MaxLen]
  <2>1. \A r \in Req : RemainingBlocks(r) \in 0 .. MaxLen
    <3> TAKE r \in Req
    <3>1. /\ numTokens[r] \in Nat /\ Len(rows[r]) \in Nat
          /\ numTokens[r] < MaxLen /\ MaxLen \in Nat
      BY Constants, TypedFacts DEF BlocksInv, BlocksTyped, Sizes, SizeOf
    <3> QED BY <3>1 DEF RemainingBlocks, Greater
  <2> QED BY <2>1
<1> HIDE DEF f
<1>2. SumFunctionOnSet(f, S) \in Nat
  BY <1>1, Constants, SumOfNaturals
<1> QED BY <1>2 DEF f, RemainingOf

\* The local hit of the cache: the longest of which every block is cached.
LEMMA HitsAreHits ==
  ASSUME BlocksInv, Typed, Sizes, NEW r \in Req, rows[r] = << >>
  PROVE  /\ IsHit(r, HitBlocks(r)) /\ HitBlocks(r) \in Seq(Blocks)
         /\ Len(HitBlocks(r)) \in Nat /\ Len(HitBlocks(r)) < numTokens[r]
<1> DEFINE len == CHOOSE h \in Hits(r) : \A g \in Hits(r) : g <= h
<1>1. /\ numTokens[r] \in Nat /\ numTokens[r] >= 2 /\ numTokens[r] < MaxLen
      /\ MaxLen \in Nat
  <2>1. numTokens[r] \in Nat /\ PromptLen[r] <= numTokens[r] /\ numTokens[r] < MaxLen
    BY TypedFacts DEF Sizes, SizeOf
  <2>2. MaxLen \in Nat /\ PromptLen[r] \in Nat /\ PromptLen[r] >= 2
    BY Constants
  <2> QED BY <2>1, <2>2
<1>2. Hits(r) \in SUBSET (0 .. numTokens[r] - 1) /\ 0 \in Hits(r)
  BY <1>1 DEF Hits
<1>3. len \in Hits(r)
  <2>1. \E h \in Hits(r) : \A g \in Hits(r) : g <= h
    <3> DEFINE H == Hits(r)
               n == numTokens[r] - 1
    <3>1. n \in Nat /\ H \in SUBSET (0 .. n) /\ H # {}
      BY <1>1, <1>2
    <3> HIDE DEF H, n
    <3>2. \E h \in H : \A g \in H : g <= h
      BY <3>1, GreatestNatural
    <3> QED BY <3>2 DEF H
  <2> QED BY <2>1
<1> HIDE DEF len
<1>4. len \in Nat /\ len < numTokens[r] /\ len < MaxLen
  BY <1>1, <1>2, <1>3
<1>5. HitBlocks(r) = [i \in 1 .. len |-> GetCachedBlock(pool, BlockHash[r][i])]
  BY DEF HitBlocks, len
<1>6. ASSUME NEW i \in 1 .. len
      PROVE  LET b == GetCachedBlock(pool, BlockHash[r][i])
             IN  b \in Blocks /\ pool.hash[b] = BlockHash[r][i]
  <2> DEFINE k == BlockHash[r][i]
             b == GetCachedBlock(pool, k)
  <2>1. k \in Keys /\ IsCached(pool, k)
    <3>1. i \in 1 .. MaxLen
      BY <1>1, <1>4
    <3>2. k \in Keys
      BY <3>1, TextHashes
    <3>3. IsCached(pool, k)
      BY <1>3 DEF Hits
    <3> QED BY <3>2, <3>3
  <2>2. /\ pool.index[k] \in Seq(Blocks)
        /\ Elements(pool.index[k]) = {c \in Blocks : pool.hash[c] = k}
    BY <2>1 DEF BlocksInv, BlocksTyped, PoolInv, PoolType, IndexExact
  <2>3. b \in Elements(pool.index[k])
    <3>1. pool.index[k] # << >> /\ b = pool.index[k][1]
      BY <2>1 DEF IsCached, GetCachedBlock
    <3>2. 1 \in DOMAIN pool.index[k]
      BY <2>2, <3>1
    <3> QED BY <3>1, <3>2 DEF Elements
  <2> QED BY <2>2, <2>3
<1>7. /\ HitBlocks(r) \in Seq(Blocks) /\ Len(HitBlocks(r)) = len
      /\ \A i \in 1 .. len : pool.hash[HitBlocks(r)[i]] = BlockHash[r][i]
  BY <1>4, <1>5, <1>6
<1> QED BY <1>4, <1>7 DEF IsHit
------------------------------------------------------------------------------
(***************************************************************************)
(* The steps that leave the blocks alone.                                  *)
(***************************************************************************)

\* Outside schedule() its locals are empty.
LEMMA IdleFacts ==
  /\ Idle \in NowType /\ Idle.at = "idle" /\ Idle.preempted = << >> /\ Idle.parked = << >>
  /\ Elements(Idle.preempted) = {} /\ Elements(Idle.cand) = {} /\ Elements(Idle.skips) = {}
  /\ Elements(Idle.parked) = {} /\ Elements(Idle.stale) = {} /\ Idle.probed = {}
  /\ \A r \in Req : Idle.plan[r] = 0 /\ Idle.ext[r] = 0 /\ Idle.probe[r] = << >>
<1>1. << >> \in Seq(Req) /\ << >> \in Seq(Blocks) /\ Elements(<< >>) = {}
  BY DEF Elements
<1>2. [r \in Req |-> 0] \in [Req -> Nat] /\ [r \in Req |-> << >>] \in [Req -> Seq(Blocks)]
  BY <1>1
<1> QED BY <1>1, <1>2 DEF Idle, NowType

\* What does not touch the blocks keeps their part.
LEMMA BlocksSame ==
  ASSUME BlocksInv, pool' = pool, rows' = rows, numCached' = numCached,
         deferred' = deferred
  PROVE  BlocksInv'
BY DEF BlocksInv, BlocksTyped, Rows, Lengths, Refs, Holders, Deferrers, Hashes

LEMMA StepsSame ==
  ASSUME Steps, steps' = steps
  PROVE  Steps'
BY DEF Steps

LEMMA OwedSame ==
  ASSUME Owed, placeholders' = placeholders, steps' = steps, computed' = computed,
         now'.preempted = now.preempted
  PROVE  Owed'
BY DEF Owed, OwedTo, Sampling

LEMMA TransfersSame ==
  ASSUME Transfers, received' = received, loads' = loads, status' = status,
         rows' = rows, numCached' = numCached
  PROVE  Transfers'
BY DEF Transfers, TransferOf

LEMMA InitHolds ==
  ASSUME Init
  PROVE  SplitInv
<1>1. /\ << >> \in Seq(Req) /\ << >> \in Seq(Blocks) /\ Elements(<< >>) = {}
      /\ << >> \in Seq(EntryType) /\ << >> \in Seq(StepType) /\ DOMAIN << >> = {}
      /\ Len(<< >>) = 0 /\ Distinct(<< >>)
  BY DEF Elements, Distinct
<1>2. BlocksInv
  <2>1. \A r \in Req : rows[r] = << >> /\ numCached[r] = 0
    BY DEF Init
  <2>2. pool = NewPool /\ deferred = << >> /\ PoolInv(NewPool)
    BY NewPoolInv DEF Init
  <2>3. BlocksTyped
    <3>1. rows \in [Req -> Seq(Blocks)] /\ numCached \in [Req -> Nat]
      BY <1>1 DEF Init
    <3> QED BY <1>1, <2>2, <3>1 DEF BlocksTyped
  <2>4. Rows /\ Lengths
    BY <1>1, <2>1, <2>2, Constants DEF Rows, Lengths, IsRow
  <2>5. Refs
    <3> SUFFICES ASSUME NEW b \in RealBlocks
                 PROVE  pool.ref[b] = Cardinality(Holders(b)) + Cardinality(Deferrers(b))
      BY DEF Refs
    <3>1. Holders(b) = {} /\ Deferrers(b) = {}
      BY <1>1, <2>1, <2>2 DEF Holders, Deferrers
    <3>2. pool.ref[b] = 0
      BY <2>2, BlockNumbers DEF NewPool
    <3> QED BY <3>1, <3>2, FS_EmptySet
  <2>6. Hashes
    BY <1>1, <2>1 DEF Hashes
  <2> QED BY <2>3, <2>4, <2>5, <2>6 DEF BlocksInv
<1>3. Typed
  <2>1. /\ status \in [Req -> Statuses] /\ numTokens \in [Req -> Nat]
        /\ computed \in [Req -> Nat] /\ placeholders \in [Req -> Nat]
    BY Constants, SplitAssumption DEF Init, Statuses
  <2>2. loads \in [Req -> LoadType] /\ content \in [Blocks -> Texts]
    BY <1>1 DEF Init, LoadType, NoLoad, Texts
  <2> QED BY <1>1, <2>1, <2>2, IdleFacts DEF Init, Typed
<1>4. \A r \in Req : /\ status[r] = "new" /\ numTokens[r] = PromptLen[r]
                     /\ computed[r] = 0 /\ placeholders[r] = 0 /\ rows[r] = << >>
                     /\ loads[r] = NoLoad
  BY DEF Init
<1>5. now = Idle /\ running = << >> /\ waiting = << >> /\ skipped = << >> /\ steps = << >>
      /\ received = {} /\ turn = FALSE
  BY DEF Init
<1>6. Turns
  BY <1>1, <1>5, Constants DEF Turns
<1>7. Sizes
  BY <1>1, <1>4, <1>5, IdleFacts, Constants DEF Sizes, SizeOf
<1>8. Owed
  BY <1>1, <1>4, <1>5, IdleFacts DEF Owed, OwedTo, Sampling
<1>9. Queues
  BY <1>1, <1>4, <1>5, IdleFacts DEF Queues, IdleQueues, InStatus
<1>10. Phases
  BY <1>5, IdleFacts DEF Phases
<1>11. Probes
  BY <1>1, <1>5, IdleFacts DEF Probes, ProbeOf
<1>12. Steps /\ Transfers
  BY <1>1, <1>4, <1>5 DEF Steps, Transfers, TransferOf
<1> QED BY <1>2, <1>3, <1>6, <1>7, <1>8, <1>9, <1>10, <1>11, <1>12 DEF SplitInv, Control

\* add_request.
LEMMA ArriveKeeps ==
  ASSUME SplitInv, NEW r \in Req, Arrive(r)
  PROVE  SplitInv'
<1>1. BlocksInv /\ Typed /\ Turns /\ Sizes /\ Owed /\ Queues /\ Phases /\ Probes
      /\ Steps /\ Transfers
  BY DEF SplitInv, Control
<1>2. /\ now.at = "idle" /\ status[r] = "new"
      /\ status' = [status EXCEPT ![r] = "waiting"] /\ waiting' = Append(waiting, r)
      /\ pool' = pool /\ rows' = rows /\ numCached' = numCached /\ deferred' = deferred
      /\ numTokens' = numTokens /\ computed' = computed /\ placeholders' = placeholders
      /\ running' = running /\ skipped' = skipped /\ prefills' = prefills
      /\ content' = content /\ loads' = loads /\ received' = received /\ steps' = steps
      /\ turn' = turn /\ now' = now
  BY DEF Arrive, kvVars, deviceVars
<1>3. BlocksInv' /\ Owed' /\ Steps'
  BY <1>1, <1>2, BlocksSame, OwedSame, StepsSame
<1>4. now = Idle
  BY <1>1, <1>2 DEF Turns
<1>5. /\ waiting \in Seq(Req) /\ waiting' \in Seq(Req)
      /\ Elements(waiting') = Elements(waiting) \cup {r}
      /\ Distinct(waiting) /\ r \notin Elements(waiting) => Distinct(waiting')
  BY <1>1, <1>2, AppendElements DEF Typed
<1>6. /\ status' \in [Req -> Statuses] /\ status'[r] = "waiting"
      /\ \A q \in Req \ {r} : status'[q] = status[q]
  BY <1>1, <1>2 DEF Typed, Statuses
<1>7. Typed'
  BY <1>1, <1>2, <1>5, <1>6 DEF Typed
<1>8. Turns'
  BY <1>1, <1>2 DEF Turns
<1>9. Sizes'
  <2> SUFFICES ASSUME NEW q \in Req
               PROVE  SizeOf(q)'
    BY DEF Sizes
  <2>1. SizeOf(q) /\ numTokens[q] \in Nat /\ PromptLen[q] >= 2 /\ PromptLen[q] \in Nat
    BY <1>1, TypedFacts, Constants DEF Sizes
  <2> QED BY <1>2, <1>6, <2>1 DEF SizeOf
<1>10. Queues'
  <2>1. IdleQueues
    BY <1>1, <1>2 DEF Queues
  <2>2. /\ r \notin Elements(waiting) /\ r \notin Elements(skipped) /\ r \notin Elements(running)
    BY <1>2, <2>1 DEF IdleQueues, InStatus
  <2>3. IdleQueues'
    BY <1>2, <1>5, <1>6, <2>1, <2>2 DEF IdleQueues, InStatus
  <2> QED BY <1>2, <2>3 DEF Queues
<1>11. Phases'
  BY <1>1, <1>2 DEF Phases
<1>12. Probes'
  BY <1>1, <1>2 DEF Probes, ProbeOf
<1>13. Transfers'
  BY <1>1, <1>2, <1>6 DEF Transfers, TransferOf
<1> QED BY <1>3, <1>7, <1>8, <1>9, <1>10, <1>11, <1>12, <1>13 DEF SplitInv, Control
\* A transfer lands.
LEMMA LandKeeps ==
  ASSUME SplitInv, NEW r \in Req, Land(r)
  PROVE  SplitInv'
<1>1. BlocksInv /\ Typed /\ Turns /\ Sizes /\ Owed /\ Queues /\ Phases /\ Probes
      /\ Steps /\ Transfers
  BY DEF SplitInv, Control
<1> DEFINE l == loads[r]
<1>2. /\ l # NoLoad
      /\ content' = [b \in Blocks |->
                       IF b \in Elements(l.blocks)
                       THEN BlockHash[r][l.from - 1
                              + CHOOSE i \in DOMAIN l.blocks : l.blocks[i] = b]
                       ELSE content[b]]
      /\ loads' = [loads EXCEPT ![r] = NoLoad] /\ received' = received \cup {r}
      /\ pool' = pool /\ rows' = rows /\ numCached' = numCached /\ deferred' = deferred
      /\ status' = status /\ numTokens' = numTokens /\ computed' = computed
      /\ placeholders' = placeholders /\ running' = running /\ waiting' = waiting
      /\ skipped' = skipped /\ prefills' = prefills /\ steps' = steps
      /\ turn' = turn /\ now' = now
  BY DEF Land, kvVars, reqVars, queueVars
<1>3. BlocksInv' /\ Owed' /\ Steps'
  BY <1>1, <1>2, BlocksSame, OwedSame, StepsSame
<1>4. content' \in [Blocks -> Texts]
  <2>1. /\ l.from = numCached[r] + 1
        /\ l.blocks = SubSeq(rows[r], numCached[r] + 1, Len(rows[r]))
    BY <1>1, <1>2 DEF Transfers, TransferOf
  <2>2. /\ rows[r] \in Seq(Blocks) /\ numCached[r] \in Nat /\ Len(rows[r]) \in Nat
        /\ numCached[r] <= Len(rows[r]) /\ Len(rows[r]) < MaxLen /\ MaxLen \in Nat
    BY <1>1, Constants DEF BlocksInv, BlocksTyped, Lengths
  <2>3. DOMAIN l.blocks = 1 .. Len(rows[r]) - numCached[r]
    BY <2>1, <2>2
  <2> HIDE DEF l
  <2>4. ASSUME NEW b \in Elements(l.blocks)
        PROVE  BlockHash[r][l.from - 1 + CHOOSE i \in DOMAIN l.blocks : l.blocks[i] = b]
                 \in Texts
    <3> DEFINE i == CHOOSE i \in DOMAIN l.blocks : l.blocks[i] = b
    <3>1. i \in DOMAIN l.blocks
      BY <2>4 DEF Elements
    <3> HIDE DEF i
    <3>2. l.from - 1 + i \in 1 .. MaxLen
      BY <2>1, <2>2, <2>3, <3>1
    <3> QED BY <3>2, TextHashes DEF Texts, i
  <2> QED BY <1>1, <1>2, <2>4 DEF Typed, l
<1>5. /\ loads' \in [Req -> LoadType] /\ received' \in SUBSET Req
      /\ loads'[r] = NoLoad /\ \A q \in Req \ {r} : loads'[q] = loads[q]
  <2>1. NoLoad \in LoadType
    BY DEF NoLoad, LoadType
  <2> QED BY <1>1, <1>2, <2>1 DEF Typed
<1>6. Typed'
  BY <1>1, <1>2, <1>4, <1>5 DEF Typed
<1>7. Transfers'
  BY <1>1, <1>2, <1>5 DEF Transfers, TransferOf
<1> HIDE DEF l
<1>8. Turns' /\ Phases' /\ Probes'
  BY <1>1, <1>2 DEF Turns, Phases, Probes, ProbeOf
<1>9. Sizes'
  BY <1>1, <1>2 DEF Sizes, SizeOf
<1>10. Queues'
  BY <1>1, <1>2 DEF Queues, IdleQueues, StepQueues, InStatus
<1> QED BY <1>3, <1>6, <1>7, <1>8, <1>9, <1>10 DEF SplitInv, Control

\* Steps within schedule() that change only its locals.
LEMMA LocalStep ==
  ASSUME SplitInv, now.at # "idle", now' \in NowType, now'.at # "idle", now'.at = "waiting",
         now'.preempted = now.preempted, now'.plan = now.plan, now'.parked = now.parked,
         pool' = pool, rows' = rows, numCached' = numCached, deferred' = deferred,
         content' = content, loads' = loads, received' = received, steps' = steps,
         status' = status, numTokens' = numTokens, computed' = computed,
         placeholders' = placeholders, running' = running, waiting' = waiting,
         skipped' = skipped, prefills' = prefills, turn' = turn,
         StepQueues', Probes'
  PROVE  SplitInv'
<1>1. BlocksInv /\ Typed /\ Turns /\ Sizes /\ Owed /\ Queues /\ Phases /\ Probes
      /\ Steps /\ Transfers
  BY DEF SplitInv, Control
<1>2. BlocksInv' /\ Owed' /\ Steps' /\ Transfers'
  BY <1>1, BlocksSame, OwedSame, StepsSame, TransfersSame
<1>3. Typed'
  BY <1>1 DEF Typed
<1>4. Turns' /\ Phases' /\ Queues'
  BY <1>1 DEF Turns, Phases, Queues
<1>5. Sizes'
  BY <1>1 DEF Sizes, SizeOf
<1> QED BY <1>2, <1>3, <1>4, <1>5 DEF SplitInv, Control

LEMMA SkipProbeKeeps ==
  ASSUME SplitInv, SkipProbe
  PROVE  SplitInv'
<1>1. Typed /\ Queues /\ Probes
  BY DEF SplitInv, Control
<1>2. now \in NowType /\ now' = [now EXCEPT !.at = "waiting"] /\ now.at = "running"
  BY <1>1 DEF Typed, SkipProbe, Phase1Over
<1>3. /\ now' \in NowType /\ now'.at = "waiting" /\ now'.preempted = now.preempted
      /\ now'.plan = now.plan /\ now'.parked = now.parked /\ now'.cand = now.cand
      /\ now'.skips = now.skips /\ now'.stale = now.stale /\ now'.ext = now.ext
      /\ now'.probed = now.probed /\ now'.probe = now.probe
  BY <1>2 DEF NowType
<1>4. /\ pool' = pool /\ rows' = rows /\ numCached' = numCached /\ deferred' = deferred
      /\ content' = content /\ loads' = loads /\ received' = received /\ steps' = steps
      /\ status' = status /\ numTokens' = numTokens /\ computed' = computed
      /\ placeholders' = placeholders /\ running' = running /\ waiting' = waiting
      /\ skipped' = skipped /\ prefills' = prefills /\ turn' = turn
  BY DEF SkipProbe, kvVars, reqVars, queueVars, deviceVars
<1>5. StepQueues'
  BY <1>1, <1>2, <1>3, <1>4 DEF Queues, StepQueues, InStatus
<1>6. Probes'
  BY <1>1, <1>3, <1>4 DEF Probes, ProbeOf
<1> QED BY <1>2, <1>3, <1>4, <1>5, <1>6, LocalStep

\* The head of a queue and the others.
LEMMA HeadElements ==
  ASSUME NEW X, NEW s \in Seq(X), s # << >>, Distinct(s)
  PROVE  /\ Head(s) \in X /\ Tail(s) \in Seq(X) /\ Distinct(Tail(s))
         /\ Head(s) \in Elements(s) /\ Elements(Tail(s)) = Elements(s) \ {Head(s)}
<1>1. /\ Head(s) \in X /\ Tail(s) \in Seq(X) /\ Len(Tail(s)) = Len(s) - 1
      /\ \A i \in 1 .. Len(Tail(s)) : Tail(s)[i] = s[i + 1]
  BY HeadTailProperties
<1>2. Head(s) = s[1] /\ Len(s) \in Nat /\ Len(s) >= 1
      /\ DOMAIN s = 1 .. Len(s) /\ DOMAIN Tail(s) = 1 .. Len(s) - 1
  BY <1>1
<1>3. Distinct(Tail(s))
  <2> SUFFICES ASSUME NEW i \in 1 .. Len(s) - 1, NEW j \in 1 .. Len(s) - 1,
                      Tail(s)[i] = Tail(s)[j]
               PROVE  i = j
    BY <1>2 DEF Distinct
  <2>1. s[i + 1] = s[j + 1] /\ i + 1 \in DOMAIN s /\ j + 1 \in DOMAIN s
    BY <1>1, <1>2
  <2>2. i + 1 = j + 1
    BY <2>1 DEF Distinct
  <2> QED BY <2>2
<1>4. Head(s) \in Elements(s)
  BY <1>2 DEF Elements
<1>5. ASSUME NEW x \in Elements(Tail(s))
      PROVE  x \in Elements(s) \ {Head(s)}
  <2>1. PICK i \in 1 .. Len(s) - 1 : x = Tail(s)[i]
    BY <1>2 DEF Elements
  <2>2. x = s[i + 1] /\ i + 1 \in DOMAIN s /\ 1 \in DOMAIN s /\ i + 1 # 1
    BY <1>1, <1>2, <2>1
  <2> QED BY <1>2, <2>2 DEF Elements, Distinct
<1>6. ASSUME NEW x \in Elements(s) \ {Head(s)}
      PROVE  x \in Elements(Tail(s))
  <2>1. PICK i \in 1 .. Len(s) : x = s[i]
    BY <1>2 DEF Elements
  <2>2. i - 1 \in 1 .. Len(s) - 1 /\ (i - 1) + 1 = i
    BY <1>2, <2>1
  <2>3. Tail(s)[i - 1] = s[i]
    BY <1>1, <2>2
  <2> QED BY <1>2, <2>1, <2>2, <2>3 DEF Elements
<1> QED BY <1>1, <1>3, <1>4, <1>5, <1>6

\* The candidate at the head of the waiting loop.
CandidateIs(r) ==
  /\ r = Candidate /\ r \in Req /\ r \in Elements(now.cand)
  /\ status[r] = "waiting" /\ r \notin Elements(running) /\ r \notin Elements(now.parked)
  /\ r \notin Elements(now.preempted) /\ r \notin Elements(now.skips)
  /\ r \notin Elements(now.stale)
  /\ Tail(now.cand) \in Seq(Req) /\ Distinct(Tail(now.cand))
  /\ Elements(Tail(now.cand)) = Elements(now.cand) \ {r}
  /\ now.preempted = << >> /\ now.at = "waiting" /\ now.budget > 0
  /\ now \in NowType /\ StepQueues
  /\ placeholders[r] = 0 /\ now.plan[r] = 0 /\ computed[r] < numTokens[r]
  /\ computed[r] = 0 => rows[r] = << >>

LEMMA CandidateFacts ==
  ASSUME SplitInv, WaitingArm
  PROVE  CandidateIs(Candidate)
<1>1. Typed /\ Queues /\ Sizes
  BY DEF SplitInv, Control
<1>2. /\ now.at = "waiting" /\ now.cand # << >> /\ now.preempted = << >> /\ now.budget > 0
      /\ now \in NowType /\ StepQueues /\ now.cand \in Seq(Req) /\ Distinct(now.cand)
  BY <1>1, TypedFacts DEF WaitingArm, Queues, StepQueues, Typed
<1>3. /\ Candidate \in Req /\ Tail(now.cand) \in Seq(Req) /\ Distinct(Tail(now.cand))
      /\ Candidate \in Elements(now.cand)
      /\ Elements(Tail(now.cand)) = Elements(now.cand) \ {Candidate}
  BY <1>2, HeadElements DEF Candidate
<1> DEFINE r == Candidate
<1> HIDE DEF r
<1>4. /\ status[r] = "waiting" /\ r \notin Elements(running)
      /\ r \notin Elements(now.parked) /\ r \notin Elements(now.preempted)
      /\ r \notin Elements(now.skips) /\ r \notin Elements(now.stale)
  BY <1>2, <1>3 DEF StepQueues, Apart, r
<1>5. SizeOf(r) /\ r \in Req
  BY <1>1, <1>3 DEF Sizes, r
<1>6. /\ placeholders[r] = 0 /\ now.plan[r] = 0 /\ computed[r] < numTokens[r]
      /\ computed[r] = 0 => rows[r] = << >>
  BY <1>4, <1>5 DEF SizeOf
<1> QED BY <1>2, <1>3, <1>4, <1>6 DEF CandidateIs, r

\* A candidate whose probed hit is stale is handed back.
LEMMA TurnAwayKeeps ==
  ASSUME SplitInv, TurnAway
  PROVE  SplitInv'
<1> DEFINE r == Candidate
<1>1. WaitingArm /\ now' = [now EXCEPT !.cand = Tail(@), !.stale = Append(@, r)]
  BY DEF TurnAway
<1>2. CandidateIs(r) /\ Typed /\ Probes /\ now.stale \in Seq(Req)
  BY <1>1, CandidateFacts, TypedFacts DEF SplitInv, Control
<1> HIDE DEF r
<1>3. /\ Append(now.stale, r) \in Seq(Req)
      /\ Elements(Append(now.stale, r)) = Elements(now.stale) \cup {r}
      /\ Distinct(now.stale) => Distinct(Append(now.stale, r))
  BY <1>2, AppendElements DEF CandidateIs
<1>4. /\ now' \in NowType /\ now'.at = "waiting" /\ now'.preempted = now.preempted
      /\ now'.plan = now.plan /\ now'.parked = now.parked /\ now'.cand = Tail(now.cand)
      /\ now'.skips = now.skips /\ now'.stale = Append(now.stale, r) /\ now'.ext = now.ext
      /\ now'.probed = now.probed /\ now'.probe = now.probe
  BY <1>1, <1>2, <1>3 DEF NowType, CandidateIs
<1>5. /\ pool' = pool /\ rows' = rows /\ numCached' = numCached /\ deferred' = deferred
      /\ content' = content /\ loads' = loads /\ received' = received /\ steps' = steps
      /\ status' = status /\ numTokens' = numTokens /\ computed' = computed
      /\ placeholders' = placeholders /\ running' = running /\ waiting' = waiting
      /\ skipped' = skipped /\ prefills' = prefills /\ turn' = turn
  BY DEF TurnAway, kvVars, reqVars, queueVars, deviceVars
<1>6. StepQueues'
  BY <1>2, <1>3, <1>4, <1>5 DEF StepQueues, InStatus, CandidateIs, Apart
<1>7. Probes'
  BY <1>2, <1>4, <1>5 DEF Probes, ProbeOf, CandidateIs
<1> QED BY <1>2, <1>4, <1>5, <1>6, <1>7, LocalStep DEF CandidateIs

\* The connector's answer to one candidate of the stock loop.
LEMMA AskForOneKeeps ==
  ASSUME SplitInv, AskForOne
  PROVE  SplitInv'
<1> DEFINE r == Candidate
           hit == HitBlocks(r)
           reserve == RemainingOf(prefills \cup Elements(now.parked) \cup StartedPrefills)
<1>1. PICK answer \in Answers(r, hit) :
        IF answer = Later
        THEN now' = [now EXCEPT !.cand = Tail(@), !.skips = Append(@, r)]
        ELSE now' = [now EXCEPT !.probed = @ \cup {r}, !.probe[r] = hit,
                                !.ext[r] = answer, !.reserved = reserve]
  BY DEF AskForOne
<1>2. WaitingArm /\ computed[r] = 0 /\ r \notin now.probed
  BY DEF AskForOne
<1>3. /\ CandidateIs(r) /\ BlocksInv /\ Typed /\ Sizes /\ Probes /\ now.skips \in Seq(Req)
      /\ now.ext \in [Req -> Nat] /\ now.probe \in [Req -> Seq(Blocks)]
      /\ now.probed \in SUBSET Req
  BY <1>2, CandidateFacts, TypedFacts DEF SplitInv, Control
<1>4. /\ pool' = pool /\ rows' = rows /\ numCached' = numCached /\ deferred' = deferred
      /\ content' = content /\ loads' = loads /\ received' = received /\ steps' = steps
      /\ status' = status /\ numTokens' = numTokens /\ computed' = computed
      /\ placeholders' = placeholders /\ running' = running /\ waiting' = waiting
      /\ skipped' = skipped /\ prefills' = prefills /\ turn' = turn
  BY DEF AskForOne, kvVars, reqVars, queueVars, deviceVars
<1>5. /\ hit \in Seq(Blocks) /\ Len(hit) \in Nat /\ Len(hit) < numTokens[r]
      /\ numTokens[r] \in Nat
  <2>1. rows[r] = << >> /\ r \in Req
    BY <1>2, <1>3 DEF CandidateIs
  <2> QED BY <1>3, <2>1, HitsAreHits, TypedFacts
<1>6. reserve \in Nat
  <2>1. prefills \cup Elements(now.parked) \cup StartedPrefills \in SUBSET Req
    <3>1. now.parked \in Seq(Req) /\ running \in Seq(Req) /\ prefills \in SUBSET Req
      BY <1>3, TypedFacts DEF Typed
    <3>2. Elements(now.parked) \subseteq Req /\ Elements(running) \subseteq Req
      BY <3>1 DEF Elements
    <3> QED BY <3>1, <3>2 DEF StartedPrefills
  <2> QED BY <1>3, <2>1, RemainingType
<1> HIDE DEF r, hit, reserve
<1>7. CASE answer = Later
  <2>1. now' = [now EXCEPT !.cand = Tail(@), !.skips = Append(@, r)]
    BY <1>1, <1>7
  <2>2. /\ Append(now.skips, r) \in Seq(Req)
        /\ Elements(Append(now.skips, r)) = Elements(now.skips) \cup {r}
        /\ Distinct(now.skips) => Distinct(Append(now.skips, r))
    BY <1>3, AppendElements DEF CandidateIs
  <2>3. /\ now' \in NowType /\ now'.at = "waiting" /\ now'.preempted = now.preempted
        /\ now'.plan = now.plan /\ now'.parked = now.parked /\ now'.cand = Tail(now.cand)
        /\ now'.skips = Append(now.skips, r) /\ now'.stale = now.stale /\ now'.ext = now.ext
        /\ now'.probed = now.probed /\ now'.probe = now.probe
    BY <1>3, <2>1, <2>2 DEF NowType, CandidateIs
  <2>4. StepQueues'
    BY <1>3, <1>4, <2>2, <2>3 DEF StepQueues, InStatus, CandidateIs, Apart
  <2>5. Probes'
    BY <1>3, <1>4, <2>3 DEF Probes, ProbeOf, CandidateIs
  <2> QED BY <1>3, <1>4, <2>3, <2>4, <2>5, LocalStep DEF CandidateIs
<1>8. CASE answer # Later
  <2>1. now' = [now EXCEPT !.probed = @ \cup {r}, !.probe[r] = hit,
                           !.ext[r] = answer, !.reserved = reserve]
    BY <1>1, <1>8
  <2>2. answer \in Nat /\ answer + Len(hit) <= numTokens[r]
    <3>1. answer \in 0 .. Lesser(MaxExternal, numTokens[r] - Len(hit))
      BY <1>1, <1>8 DEF Answers
    <3>2. MaxExternal \in Nat
      BY Constants
    <3> QED BY <1>5, <3>1, <3>2 DEF Lesser
  <2>3. r \in Req /\ now \in NowType
    BY <1>3 DEF CandidateIs
  <2>4. /\ now' \in NowType /\ now'.at = now.at /\ now'.preempted = now.preempted
        /\ now'.plan = now.plan /\ now'.parked = now.parked /\ now'.cand = now.cand
        /\ now'.skips = now.skips /\ now'.stale = now.stale
        /\ now'.ext = [now.ext EXCEPT ![r] = answer]
        /\ now'.probed = now.probed \cup {r} /\ now'.probe = [now.probe EXCEPT ![r] = hit]
    <3>1. /\ [now.ext EXCEPT ![r] = answer] \in [Req -> Nat]
          /\ [now.probe EXCEPT ![r] = hit] \in [Req -> Seq(Blocks)]
          /\ now.probed \cup {r} \in SUBSET Req
      BY <1>3, <1>5, <2>2, <2>3
    <3> QED BY <1>6, <2>1, <2>3, <3>1 DEF NowType
  <2>5. StepQueues'
    BY <1>3, <1>4, <2>4 DEF StepQueues, InStatus, CandidateIs
  <2>6. ASSUME NEW q \in Req
        PROVE  ProbeOf(q)'
    <3>1. ProbeOf(q) /\ r \notin Elements(now.parked)
      BY <1>3 DEF Probes, CandidateIs
    <3>2. CASE q = r
      <4>1. /\ now'.ext[q] = answer /\ now'.probe[q] = hit /\ computed[q] = 0
        BY <1>2, <1>3, <2>4, <3>2
      <4> QED BY <1>4, <1>5, <2>2, <2>4, <3>1, <3>2, <4>1 DEF ProbeOf
    <3>3. CASE q # r
      <4>1. /\ now'.ext[q] = now.ext[q] /\ now'.probe[q] = now.probe[q]
            /\ (q \in now'.probed <=> q \in now.probed)
        BY <1>3, <2>4, <3>3
      <4> QED BY <1>4, <2>4, <3>1, <4>1 DEF ProbeOf
    <3> QED BY <3>2, <3>3
  <2>7. Probes'
    BY <2>6 DEF Probes
  <2> QED BY <1>3, <1>4, <2>4, <2>5, <2>7, LocalStep DEF CandidateIs
<1> QED BY <1>7, <1>8

\* The probe of the cache, and the connector's answers to it.
LEMMA AskConnectorKeeps ==
  ASSUME SplitInv, AskConnector
  PROVE  SplitInv'
<1> DEFINE hit == [r \in Req |-> IF r \in Probed THEN HitBlocks(r) ELSE << >>]
<1>1. PICK answer \in [Probed -> -1 .. MaxExternal] :
        LET dropped == {r \in Probed : answer[r] = Later}
        IN  /\ \A r \in Probed : answer[r] \in Answers(r, hit[r])
            /\ now' = [now EXCEPT
                         !.at = "waiting",
                         !.cand = Drop(@, dropped),
                         !.skips = @ \o Keep(now.cand, dropped),
                         !.probed = Probed \ dropped,
                         !.probe = hit,
                         !.ext = [r \in Req |-> IF r \in Probed \ dropped
                                                THEN answer[r] ELSE 0],
                         !.reserved = RemainingOf(prefills)]
  BY DEF AskConnector
<1> DEFINE dropped == {r \in Probed : answer[r] = Later}
           ext == [r \in Req |-> IF r \in Probed \ dropped THEN answer[r] ELSE 0]
<1>2. now.at = "running" /\ now.at # "idle"
  BY DEF AskConnector, Phase1Over
<1>3. /\ BlocksInv /\ Typed /\ Sizes /\ Phases /\ StepQueues /\ now \in NowType
      /\ now.cand \in Seq(Req) /\ now.skips \in Seq(Req) /\ prefills \in SUBSET Req
      /\ now.parked = << >> /\ Elements(now.parked) = {}
  BY <1>2, TypedFacts DEF SplitInv, Control, Queues, Phases, Typed, Elements
<1>4. /\ pool' = pool /\ rows' = rows /\ numCached' = numCached /\ deferred' = deferred
      /\ content' = content /\ loads' = loads /\ received' = received /\ steps' = steps
      /\ status' = status /\ numTokens' = numTokens /\ computed' = computed
      /\ placeholders' = placeholders /\ running' = running /\ waiting' = waiting
      /\ skipped' = skipped /\ prefills' = prefills /\ turn' = turn
  BY DEF AskConnector, kvVars, reqVars, queueVars, deviceVars
<1>5. ASSUME NEW r \in Probed
      PROVE  r \in Elements(now.cand) /\ r \in Req /\ computed[r] = 0 /\ rows[r] = << >>
  <2> DEFINE fresh == Keep(now.cand, {q \in Req : computed[q] = 0})
  <2>1. r \in Elements(fresh)
    BY <1>5 DEF Probed, Elements
  <2> HIDE DEF fresh
  <2>2. Elements(fresh) = Elements(now.cand) \cap {q \in Req : computed[q] = 0}
    BY <1>3, KeepElements DEF fresh
  <2>3. r \in Elements(now.cand) /\ r \in Req /\ computed[r] = 0
    BY <2>1, <2>2
  <2>4. status[r] = "waiting" /\ r \notin Elements(running) /\ r \notin Elements(now.parked)
    BY <1>3, <2>3 DEF StepQueues, Apart
  <2>5. rows[r] = << >>
    BY <1>3, <2>3, <2>4 DEF Sizes, SizeOf
  <2> QED BY <2>3, <2>5
<1>6. ASSUME NEW r \in Probed
      PROVE  /\ hit[r] = HitBlocks(r) /\ hit[r] \in Seq(Blocks) /\ numTokens[r] \in Nat
             /\ Len(hit[r]) \in Nat /\ Len(hit[r]) < numTokens[r]
  BY <1>3, <1>5, HitsAreHits, TypedFacts
<1>7. hit \in [Req -> Seq(Blocks)]
  <2>1. << >> \in Seq(Blocks)
    OBVIOUS
  <2>2. \A r \in Req : r \in Probed => HitBlocks(r) \in Seq(Blocks)
    BY <1>6
  <2> QED BY <2>1, <2>2
<1>8. RemainingOf(prefills) \in Nat
  BY <1>3, RemainingType
<1>9. ASSUME NEW r \in Probed \ dropped
      PROVE  answer[r] \in Nat /\ answer[r] + Len(hit[r]) <= numTokens[r]
  <2>1. answer[r] \in 0 .. Lesser(MaxExternal, numTokens[r] - Len(hit[r]))
    BY <1>1, <1>9 DEF Answers
  <2>2. MaxExternal \in Nat
    BY Constants
  <2> DEFINE l == Len(hit[r])
             t == numTokens[r]
  <2>3. t \in Nat /\ l \in Nat /\ l < t
    BY <1>6, <1>9
  <2>4. answer[r] \in 0 .. Lesser(MaxExternal, t - l)
    BY <2>1
  <2> HIDE DEF l, t
  <2>5. answer[r] \in Nat /\ answer[r] + l <= t
    BY <2>2, <2>3, <2>4 DEF Lesser
  <2> QED BY <2>5 DEF l, t
<1>10. /\ now' = [now EXCEPT !.at = "waiting", !.cand = Drop(@, dropped),
                             !.skips = @ \o Keep(now.cand, dropped),
                             !.probed = Probed \ dropped, !.probe = hit,
                             !.ext = ext, !.reserved = RemainingOf(prefills)]
       /\ Probed \ dropped \in SUBSET Req /\ dropped \subseteq Probed
  BY <1>1, <1>5
<1>11. ext \in [Req -> Nat]
  BY <1>9
<1> HIDE DEF hit, ext, dropped
<1>12. /\ Drop(now.cand, dropped) \in Seq(Req) /\ Distinct(Drop(now.cand, dropped))
       /\ Elements(Drop(now.cand, dropped)) = Elements(now.cand) \ dropped
       /\ Keep(now.cand, dropped) \in Seq(Req) /\ Distinct(Keep(now.cand, dropped))
       /\ Elements(Keep(now.cand, dropped)) = Elements(now.cand) \cap dropped
  <2>1. Distinct(now.cand)
    BY <1>3 DEF StepQueues
  <2> QED BY <1>3, <2>1, DropElements, KeepElements
<1> DEFINE skips == now.skips \o Keep(now.cand, dropped)
<1>13. /\ skips \in Seq(Req) /\ Distinct(skips)
       /\ Elements(skips) = Elements(now.skips) \cup (Elements(now.cand) \cap dropped)
  <2>1. Distinct(now.skips) /\ Elements(now.cand) \cap Elements(now.skips) = {}
    BY <1>3 DEF StepQueues, Apart
  <2>2. Elements(now.skips) \cap Elements(Keep(now.cand, dropped)) = {}
    BY <1>12, <2>1
  <2> QED BY <1>3, <1>12, <2>1, <2>2, ConcatElements
<1> HIDE DEF skips
<1>14. /\ now' \in NowType /\ now'.at = "waiting" /\ now'.preempted = now.preempted
       /\ now'.plan = now.plan /\ now'.parked = now.parked
       /\ now'.cand = Drop(now.cand, dropped) /\ now'.skips = skips
       /\ now'.stale = now.stale /\ now'.ext = ext
       /\ now'.probed = Probed \ dropped /\ now'.probe = hit
  BY <1>3, <1>7, <1>8, <1>10, <1>11, <1>12, <1>13 DEF NowType, skips
<1>15. StepQueues'
  <2> DEFINE c == Elements(Drop(now.cand, dropped))
             k == Elements(skips)
  <2>1. /\ c \cap k = {} /\ c \cup k = Elements(now.cand) \cup Elements(now.skips)
        /\ c \subseteq Elements(now.cand)
    <3>1. Elements(now.cand) \cap Elements(now.skips) = {}
      BY <1>3 DEF StepQueues, Apart
    <3> QED BY <1>12, <1>13, <3>1
  <2>2. \A r \in k : status[r] \in {"waiting", "loading"}
    BY <1>3, <1>13 DEF StepQueues
  <2> HIDE DEF c, k
  <2>3. Distinct(now'.cand) /\ Distinct(now'.skips) /\ Elements(now'.cand) = c
        /\ Elements(now'.skips) = k
    BY <1>12, <1>13, <1>14 DEF c, k
  <2> QED BY <1>3, <1>4, <1>14, <2>1, <2>2, <2>3 DEF StepQueues, InStatus, Apart
<1>16. ASSUME NEW r \in Req
       PROVE  ProbeOf(r)'
  <2>1. CASE r \in Probed \ dropped
    <3>1. ext[r] = answer[r] /\ computed[r] = 0
      BY <1>5, <2>1 DEF ext
    <3> QED BY <1>3, <1>4, <1>6, <1>9, <1>14, <2>1, <3>1 DEF ProbeOf
  <2>2. CASE r \notin Probed \ dropped
    <3>1. ext[r] = 0
      BY <2>2 DEF ext
    <3> QED BY <1>3, <1>4, <1>14, <2>2, <3>1 DEF ProbeOf
  <2> QED BY <2>1, <2>2
<1>17. Probes'
  BY <1>16 DEF Probes
<1> QED BY <1>2, <1>4, <1>14, <1>15, <1>17, LocalStep
------------------------------------------------------------------------------
(***************************************************************************)
(* The steps of schedule() that take blocks or give them back.             *)
(***************************************************************************)

\* allocate_slots, where it fits.
LEMMA AllocateKeeps ==
  ASSUME BlocksInv, NEW r \in Req, NEW hit, IsHit(r, hit),
         NEW target \in Nat, target < MaxLen, numTokens[r] \in Nat, NEW delay \in BOOLEAN,
         NEW watermark \in Nat, NEW reserved \in Nat,
         Fits(r, hit, target, watermark, reserved),
         AllocateSlots(r, hit, target, delay), deferred' = deferred
  PROVE  /\ BlocksInv'
         /\ \A q \in Req \ {r} : rows'[q] = rows[q] /\ numCached'[q] = numCached[q]
         /\ Len(rows'[r]) \in Nat /\ Len(rows'[r]) >= target
         /\ numCached'[r] = Greater(numCached[r] + Len(hit), CacheUpTo(r, target, delay))
         /\ \E new : Fresh(new, hit) /\ Grows(r, hit, new, CacheUpTo(r, target, delay))
<1>1. BlocksTyped /\ Rows /\ Lengths
  BY DEF BlocksInv
<1>2. /\ NumNew(r, hit, target) \in Nat /\ Len(rows[r]) \in Nat /\ Len(hit) \in Nat
      /\ NumNew(r, hit, target) >= target - Len(rows[r]) - Len(hit)
      /\ NumNew(r, hit, target) = 0
           \/ NumNew(r, hit, target) = target - Len(rows[r]) - Len(hit)
  BY <1>1, NewCount
<1>3. CanGetNewBlocks(Touch(pool, Elements(hit)), NumNew(r, hit, target))
  BY <1>1, <1>2, FitsCanTake
<1> DEFINE upTo == CacheUpTo(r, target, delay)
<1>4. upTo \in Nat /\ upTo <= target
  BY CacheUpToBound
<1>5. PICK new : /\ Fresh(new, hit) /\ Len(new) = NumNew(r, hit, target)
                 /\ Grows(r, hit, new, upTo)
  BY <1>3, AllocateGrows
<1> HIDE DEF upTo
<1>6. Len(rows[r]) + Len(hit) < MaxLen
  <2>1. Len(rows[r]) < MaxLen /\ Len(hit) < MaxLen
    BY <1>1 DEF Lengths, IsHit
  <2>2. hit = << >> \/ rows[r] = << >>
    BY DEF IsHit
  <2>3. CASE hit = << >>
    <3>1. Len(hit) = 0
      BY <2>3
    <3> QED BY <1>2, <2>1, <3>1
  <2>4. CASE rows[r] = << >>
    <3>1. Len(rows[r]) = 0
      BY <2>4
    <3> QED BY <1>2, <2>1, <3>1
  <2> QED BY <2>2, <2>3, <2>4
<1>7. /\ Len(rows[r]) + Len(hit) + Len(new) < MaxLen
      /\ Len(rows[r]) + Len(hit) + Len(new) >= target
      /\ upTo <= Len(rows[r]) + Len(hit) + Len(new)
  BY <1>2, <1>4, <1>5, <1>6, Constants
<1>8. BlocksInv'
  BY <1>4, <1>5, <1>7, GrowsKeeps
<1>9. /\ rows'[r] = rows[r] \o hit \o new
      /\ \A q \in Req \ {r} : rows'[q] = rows[q] /\ numCached'[q] = numCached[q]
      /\ numCached'[r] = Greater(numCached[r] + Len(hit), upTo)
  BY <1>1, <1>5 DEF Grows, BlocksTyped
<1>10. Len(rows'[r]) = Len(rows[r]) + Len(hit) + Len(new)
  <2>1. GrownRow(r, hit, new, rows'[r])
    BY <1>1, <1>5, <1>9, RowGrows
  <2> QED BY <2>1 DEF GrownRow
<1> QED BY <1>2, <1>4, <1>5, <1>7, <1>8, <1>9, <1>10 DEF upTo

\* No hit, which every request has.
LEMMA NoHit ==
  ASSUME NEW r \in Req
  PROVE  IsHit(r, << >>)
<1>1. PromptLen[r] \in Nat /\ PromptLen[r] < MaxLen /\ MaxLen \in Nat
  BY Constants
<1> QED BY <1>1 DEF IsHit

\* The tokens a step gives a request, within the step's budget.
LEMMA ChunkType ==
  ASSUME Typed, NEW n \in Int
  PROVE  /\ Chunk(n) \in Int /\ Chunk(n) <= n /\ Chunk(n) <= now.budget
         /\ n >= 0 => Chunk(n) >= 0
<1>1. now.budget \in Nat /\ LongPrefill \in Nat
  BY TypedFacts, Constants
<1> QED BY <1>1 DEF Chunk, Lesser

LEMMA WorkType ==
  ASSUME Typed, NEW r \in Req, computed[r] < MaxLen
  PROVE  Work(r) \in Nat /\ Work(r) <= now.budget /\ computed[r] + Work(r) < MaxLen
<1>1. /\ numTokens[r] \in Nat /\ placeholders[r] \in Nat /\ computed[r] \in Nat
      /\ MaxLen \in Nat /\ now.budget \in Nat
  BY TypedFacts, Constants
<1> DEFINE c == Chunk(numTokens[r] + placeholders[r] - computed[r])
<1>2. c \in Int /\ c <= now.budget
  BY <1>1, ChunkType
<1>3. Work(r) = Greater(0, Lesser(c, MaxLen - (computed[r] + 1)))
  BY DEF Work
<1> HIDE DEF c
<1> QED BY <1>1, <1>2, <1>3 DEF Greater, Lesser

\* The request the running loop has come to.
LEMMA LoopFacts ==
  ASSUME SplitInv, Looping
  PROVE  LET r == running[now.pos]
         IN  /\ now.pos \in DOMAIN running /\ r \in Req /\ r \in Elements(running)
             /\ status[r] = "running" /\ now.at = "running"
             /\ now \in NowType /\ StepQueues /\ running \in Seq(Req)
             /\ r \notin Elements(now.preempted) /\ now.parked = << >>
             /\ Elements(now.parked) = {} /\ now.plan[r] = 0
<1>1. Typed /\ Queues /\ Phases
  BY DEF SplitInv, Control
<1>2. /\ now.at = "running" /\ now.pos \in Nat \ {0} /\ now.pos <= Len(running)
      /\ running \in Seq(Req) /\ now \in NowType
  BY <1>1, TypedFacts DEF Looping, Typed
<1>3. now.pos \in DOMAIN running
  BY <1>2
<1> DEFINE r == running[now.pos]
<1>4. r \in Req /\ r \in Elements(running)
  BY <1>2, <1>3 DEF Elements
<1>5. StepQueues /\ now.parked = << >> /\ Elements(now.parked) = {}
  BY <1>1, <1>2 DEF Queues, Phases, Elements
<1>6. status[r] = "running" /\ now.plan[r] = 0
  BY <1>1, <1>2, <1>3, <1>4 DEF Phases
<1>7. r \notin Elements(now.preempted)
  BY <1>4, <1>5 DEF StepQueues, Apart
<1> QED BY <1>2, <1>3, <1>4, <1>5, <1>6, <1>7

LEMMA ScheduleRunningKeeps ==
  ASSUME SplitInv, ScheduleRunning
  PROVE  SplitInv'
<1> DEFINE r == running[now.pos]
           n == Work(r)
<1>1. /\ Looping
      /\ now' = [now EXCEPT !.pos = @ + 1, !.budget = @ - n, !.plan[r] = n]
      /\ \/ n = 0 /\ UNCHANGED kvVars
         \/ /\ n > 0 /\ Fits(r, << >>, computed[r] + n, 0, 0)
            /\ AllocateSlots(r, << >>, computed[r] + n, FALSE)
  BY DEF ScheduleRunning
<1>2. /\ deferred' = deferred
      /\ content' = content /\ loads' = loads /\ received' = received /\ steps' = steps
      /\ status' = status /\ numTokens' = numTokens /\ computed' = computed
      /\ placeholders' = placeholders /\ running' = running /\ waiting' = waiting
      /\ skipped' = skipped /\ prefills' = prefills /\ turn' = turn
  BY DEF ScheduleRunning, reqVars, queueVars, deviceVars
<1>3. BlocksInv /\ Typed /\ Turns /\ Sizes /\ Owed /\ Queues /\ Phases /\ Probes
      /\ Steps /\ Transfers
  BY DEF SplitInv, Control
<1>4. /\ now.pos \in DOMAIN running /\ r \in Req /\ r \in Elements(running)
      /\ status[r] = "running" /\ now.at = "running"
      /\ now \in NowType /\ StepQueues /\ running \in Seq(Req)
      /\ r \notin Elements(now.preempted) /\ now.parked = << >>
      /\ Elements(now.parked) = {} /\ now.plan[r] = 0
  BY <1>1, LoopFacts
<1> HIDE DEF r
<1>5. SizeOf(r) /\ computed[r] \in Nat /\ numTokens[r] \in Nat
  BY <1>3, <1>4, TypedFacts DEF Sizes
<1>6. n \in Nat /\ n <= now.budget /\ computed[r] + n < MaxLen
  BY <1>3, <1>4, <1>5, WorkType DEF SizeOf
<1> HIDE DEF n
<1>7. /\ now.budget \in Nat /\ now.pos \in Nat \ {0} /\ now.plan \in [Req -> Nat]
  BY <1>3, TypedFacts
<1>8. /\ now' \in NowType /\ now'.at = now.at /\ now'.preempted = now.preempted
      /\ now'.plan = [now.plan EXCEPT ![r] = n] /\ now'.parked = now.parked
      /\ now'.cand = now.cand /\ now'.skips = now.skips /\ now'.stale = now.stale
      /\ now'.ext = now.ext /\ now'.probed = now.probed /\ now'.probe = now.probe
      /\ now'.pos = now.pos + 1
  <2>1. /\ [now.plan EXCEPT ![r] = n] \in [Req -> Nat] /\ now.budget - n \in Nat
        /\ now.pos + 1 \in Nat \ {0}
    BY <1>4, <1>6, <1>7
  <2> QED BY <1>1, <1>4, <2>1 DEF NowType
<1>9. /\ now'.plan[r] = n /\ \A q \in Req \ {r} : now'.plan[q] = now.plan[q]
  BY <1>4, <1>7, <1>8
<1>10. /\ BlocksInv' /\ Len(rows'[r]) >= computed[r] + n
       /\ \A q \in Req \ {r} : rows'[q] = rows[q] /\ numCached'[q] = numCached[q]
  <2>1. CASE n = 0 /\ UNCHANGED kvVars
    <3>1. pool' = pool /\ rows' = rows /\ numCached' = numCached
      BY <2>1 DEF kvVars
    <3>2. Len(rows[r]) >= computed[r] + n
      BY <1>4, <1>5, <2>1 DEF SizeOf
    <3> QED BY <1>2, <1>3, <3>1, <3>2, BlocksSame
  <2>2. CASE /\ n > 0 /\ Fits(r, << >>, computed[r] + n, 0, 0)
             /\ AllocateSlots(r, << >>, computed[r] + n, FALSE)
    <3> DEFINE target == computed[r] + n
    <3>1. target \in Nat /\ target < MaxLen /\ r \in Req /\ numTokens[r] \in Nat
      BY <1>4, <1>5, <1>6
    <3>2. IsHit(r, << >>) /\ BlocksInv /\ deferred' = deferred
      BY <1>2, <1>3, <1>4, NoHit
    <3>3. Fits(r, << >>, target, 0, 0) /\ AllocateSlots(r, << >>, target, FALSE)
      BY <2>2
    <3> HIDE DEF target
    <3>4. /\ BlocksInv' /\ Len(rows'[r]) >= target
          /\ \A q \in Req \ {r} : rows'[q] = rows[q] /\ numCached'[q] = numCached[q]
      BY <3>1, <3>2, <3>3, AllocateKeeps
    <3> QED BY <3>4 DEF target
  <2> QED BY <1>1, <2>1, <2>2
<1>11. Owed' /\ Steps'
  BY <1>2, <1>3, <1>8, OwedSame, StepsSame
<1>12. Typed' /\ Turns'
  BY <1>2, <1>3, <1>4, <1>8 DEF Typed, Turns
<1>13. Sizes'
  <2> SUFFICES ASSUME NEW q \in Req
               PROVE  SizeOf(q)'
    BY DEF Sizes
  <2>1. SizeOf(q)
    BY <1>3 DEF Sizes
  <2>2. CASE q = r
    BY <1>2, <1>4, <1>5, <1>8, <1>9, <1>10, <2>2 DEF SizeOf
  <2>3. CASE q # r
    BY <1>2, <1>8, <1>9, <1>10, <2>1, <2>3 DEF SizeOf
  <2> QED BY <2>2, <2>3
<1>14. StepQueues'
  <2>1. \A q \in Elements(now.preempted) : rows'[q] = rows[q]
    <3>1. \A q \in Elements(now.preempted) : q \in Req /\ q # r
      <4>1. now.preempted \in Seq(Req)
        BY <1>3, TypedFacts
      <4> QED BY <1>4, <4>1 DEF Elements
    <3> QED BY <1>10, <3>1
  <2> QED BY <1>2, <1>4, <1>8, <2>1 DEF StepQueues, InStatus
<1>15. Queues'
  BY <1>4, <1>8, <1>14 DEF Queues
<1>16. Phases'
  <2>1. ASSUME NEW j \in DOMAIN running, j >= now.pos + 1
        PROVE  now'.plan[running[j]] = 0
    <3>1. j # now.pos /\ j >= now.pos /\ running[j] \in Req
      BY <1>4, <1>7, <2>1
    <3>2. running[j] # r
      BY <1>4, <3>1 DEF StepQueues, Distinct, r
    <3>3. now.plan[running[j]] = 0
      BY <1>3, <1>4, <3>1 DEF Phases
    <3> QED BY <1>9, <3>1, <3>2, <3>3
  <2> QED BY <1>2, <1>3, <1>4, <1>8, <2>1 DEF Phases
<1>17. Probes'
  <2> SUFFICES ASSUME NEW q \in Req
               PROVE  ProbeOf(q)'
    BY DEF Probes
  <2>1. ProbeOf(q)
    BY <1>3 DEF Probes
  <2> QED BY <1>2, <1>4, <1>8, <2>1 DEF ProbeOf
<1>18. Transfers'
  <2> SUFFICES ASSUME NEW q \in Req
               PROVE  TransferOf(q)'
    BY DEF Transfers
  <2>1. TransferOf(q)
    BY <1>3 DEF Transfers
  <2>2. CASE q = r
    BY <1>2, <1>4, <2>1, <2>2 DEF TransferOf
  <2>3. CASE q # r
    BY <1>2, <1>10, <2>1, <2>3 DEF TransferOf
  <2> QED BY <2>2, <2>3
<1> QED BY <1>10, <1>11, <1>12, <1>13, <1>15, <1>16, <1>17, <1>18 DEF SplitInv, Control
\* The last of a queue and the others.
LEMMA FrontElements ==
  ASSUME NEW X, NEW s \in Seq(X), s # << >>, Distinct(s)
  PROVE  /\ Last(s) \in X /\ Front(s) \in Seq(X) /\ Distinct(Front(s))
         /\ Len(Front(s)) = Len(s) - 1 /\ Last(s) = s[Len(s)] /\ Len(s) \in DOMAIN s
         /\ \A i \in DOMAIN Front(s) : Front(s)[i] = s[i] /\ i \in DOMAIN s
         /\ Last(s) \in Elements(s) /\ Elements(Front(s)) = Elements(s) \ {Last(s)}
<1>1. Len(s) \in Nat /\ Len(s) >= 1 /\ DOMAIN s = 1 .. Len(s)
  BY EmptySeq
<1>2. Last(s) = s[Len(s)] /\ Front(s) = SubSeq(s, 1, Len(s) - 1)
  BY DEF Last, Front
<1>3. /\ Front(s) \in Seq(X) /\ Len(Front(s)) = Len(s) - 1
      /\ \A i \in 1 .. Len(s) - 1 : Front(s)[i] = s[i]
  BY <1>1, <1>2
<1>4. DOMAIN Front(s) = 1 .. Len(s) - 1
  BY <1>1, <1>3
<1>0. /\ \A i \in 1 .. Len(s) - 1 : i \in DOMAIN s /\ i # Len(s)
      /\ Len(s) \in DOMAIN s
  <2> DEFINE n == Len(s)
  <2>1. n \in Nat /\ n >= 1 /\ DOMAIN s = 1 .. n
    BY <1>1
  <2> HIDE DEF n
  <2>2. n \in 1 .. n /\ \A i \in 1 .. n - 1 : i \in 1 .. n /\ i # n
    BY <2>1
  <2> QED BY <2>1, <2>2 DEF n
<1>5. Distinct(Front(s))
  BY <1>1, <1>3, <1>4 DEF Distinct
<1>6. Elements(Front(s)) = Elements(s) \ {Last(s)}
  <2>1. ASSUME NEW x \in Elements(Front(s))
        PROVE  x \in Elements(s) \ {Last(s)}
    <3>1. PICK i \in 1 .. Len(s) - 1 : x = Front(s)[i]
      BY <1>4 DEF Elements
    <3>0. x = s[i]
      BY <1>3, <3>1
    <3>2. x = s[i] /\ i \in DOMAIN s /\ i # Len(s) /\ Len(s) \in DOMAIN s
      BY <1>0, <3>0
    <3> QED BY <1>2, <3>2 DEF Elements, Distinct
  <2>2. ASSUME NEW x \in Elements(s) \ {Last(s)}
        PROVE  x \in Elements(Front(s))
    <3>1. PICK i \in 1 .. Len(s) : x = s[i]
      BY <1>1 DEF Elements
    <3>2. i # Len(s)
      BY <1>2, <2>2, <3>1
    <3> DEFINE n == Len(s)
    <3>3. i \in 1 .. Len(s) - 1
      <4>1. n \in Nat /\ i \in 1 .. n /\ i # n
        BY <1>1, <3>1, <3>2
      <4> HIDE DEF n
      <4>2. i \in 1 .. n - 1
        BY <4>1
      <4> QED BY <4>2 DEF n
    <3> QED BY <1>3, <1>4, <3>1, <3>3 DEF Elements
  <2> QED BY <2>1, <2>2
<1>7. Len(s) \in DOMAIN s /\ Last(s) \in X
  BY <1>0, <1>2
<1>8. Last(s) \in Elements(s)
  BY <1>2, <1>7 DEF Elements
<1>9. \A i \in DOMAIN Front(s) : Front(s)[i] = s[i] /\ i \in DOMAIN s
  BY <1>0, <1>3, <1>4
<1> QED BY <1>2, <1>3, <1>5, <1>6, <1>7, <1>8, <1>9

\* The blocks of one request are given back at once.
LEMMA FreeOneKeeps ==
  ASSUME BlocksInv, NEW v \in Req, pool' = FreeRows(pool, <<v>>), ForgetRows({v}),
         deferred' = deferred
  PROVE  /\ BlocksInv' /\ rows'[v] = << >> /\ numCached'[v] = 0
         /\ \A q \in Req \ {v} : rows'[q] = rows[q] /\ numCached'[q] = numCached[q]
         /\ \A b \in Blocks : pool'.hash[b] = pool.hash[b]
<1> DEFINE s == <<v>>
           calls == [i \in DOMAIN s |-> Freeing(rows[s[i]])]
<1>1. s \in Seq(Req) /\ Distinct(s) /\ Elements(s) = {v}
  BY DEF Distinct, Elements
<1>2. BlocksOf(pool, rows, numCached, deferred)
  BY BlocksInvIs
<1>3. pool' = Calls(pool, calls)
  BY DEF FreeRows
<1> HIDE DEF s, calls
<1>4. /\ BlocksOf(Calls(pool, calls), Forgotten(rows, Elements(s)),
                  Uncached(numCached, Elements(s)), deferred)
      /\ SameHashes(Calls(pool, calls), pool)
  <2>1. calls = FreedRows(rows, s)
    BY DEF calls, FreedRows
  <2> QED BY <1>1, <1>2, <2>1, FreeStage
<1>5. rows' = Forgotten(rows, {v}) /\ numCached' = Uncached(numCached, {v})
  BY DEF ForgetRows, Forgotten, Uncached
<1>6. BlocksOf(pool', rows', numCached', deferred')
  BY <1>1, <1>3, <1>4, <1>5
<1>7. BlocksInv'
  BY <1>6, BlocksInvIs
<1> QED BY <1>3, <1>4, <1>5, <1>7 DEF Forgotten, Uncached, SameHashes

LEMMA PreemptKeeps ==
  ASSUME SplitInv, Preempt
  PROVE  SplitInv'
<1> DEFINE v == Last(running)
<1>1. /\ Looping /\ pool' = FreeRows(pool, <<v>>) /\ ForgetRows({v})
      /\ running' = Front(running)
      /\ now' = [now EXCEPT !.preempted = Append(@, v)]
  BY DEF Preempt
<1>2. /\ deferred' = deferred
      /\ content' = content /\ loads' = loads /\ received' = received /\ steps' = steps
      /\ status' = status /\ numTokens' = numTokens /\ computed' = computed
      /\ placeholders' = placeholders /\ waiting' = waiting
      /\ skipped' = skipped /\ prefills' = prefills /\ turn' = turn
  BY DEF Preempt, reqVars, deviceVars
<1>3. BlocksInv /\ Typed /\ Turns /\ Sizes /\ Owed /\ Queues /\ Phases /\ Probes
      /\ Steps /\ Transfers
  BY DEF SplitInv, Control
<1>4. /\ now.pos \in DOMAIN running /\ now.at = "running" /\ now \in NowType
      /\ StepQueues /\ running \in Seq(Req) /\ now.parked = << >>
      /\ Elements(now.parked) = {}
  BY <1>1, LoopFacts
<1>5. running # << >> /\ Distinct(running)
  BY <1>4 DEF StepQueues
<1>6. /\ v \in Req /\ running' \in Seq(Req) /\ Distinct(running')
      /\ Len(running') = Len(running) - 1 /\ v = running[Len(running)]
      /\ Len(running) \in DOMAIN running
      /\ \A i \in DOMAIN running' : running'[i] = running[i] /\ i \in DOMAIN running
      /\ v \in Elements(running) /\ Elements(running') = Elements(running) \ {v}
  BY <1>1, <1>4, <1>5, FrontElements
<1> HIDE DEF v
<1>7. /\ status[v] = "running" /\ now.plan[v] = 0 /\ v \notin Elements(now.preempted)
      /\ v \notin Elements(now.cand) /\ v \notin Elements(now.skips)
      /\ v \notin Elements(now.stale)
  <2>1. Len(running) >= now.pos
    BY <1>3, <1>4, TypedFacts
  <2> QED BY <1>3, <1>4, <1>6, <2>1 DEF Phases, StepQueues, Apart
<1>8. /\ BlocksInv' /\ rows'[v] = << >> /\ numCached'[v] = 0
      /\ \A q \in Req \ {v} : rows'[q] = rows[q] /\ numCached'[q] = numCached[q]
  BY <1>1, <1>2, <1>3, <1>6, FreeOneKeeps
<1>9. /\ now.preempted \in Seq(Req) /\ Append(now.preempted, v) \in Seq(Req)
      /\ Elements(Append(now.preempted, v)) = Elements(now.preempted) \cup {v}
      /\ Distinct(now.preempted) => Distinct(Append(now.preempted, v))
  <2>1. now.preempted \in Seq(Req)
    BY <1>3, TypedFacts
  <2>2. v \in Req /\ v \notin Elements(now.preempted)
    BY <1>6, <1>7
  <2> QED BY <2>1, <2>2, AppendElements
<1>10. /\ now' \in NowType /\ now'.at = now.at /\ now'.plan = now.plan
       /\ now'.preempted = Append(now.preempted, v) /\ now'.parked = now.parked
       /\ now'.cand = now.cand /\ now'.skips = now.skips /\ now'.stale = now.stale
       /\ now'.ext = now.ext /\ now'.probed = now.probed /\ now'.probe = now.probe
       /\ now'.pos = now.pos
  BY <1>1, <1>4, <1>9 DEF NowType
<1>11. Steps'
  BY <1>2, <1>3, StepsSame
<1>12. Owed'
  BY <1>2, <1>3, <1>9, <1>10 DEF Owed, OwedTo, Sampling
<1>13. Typed' /\ Turns'
  BY <1>2, <1>3, <1>4, <1>6, <1>10 DEF Typed, Turns
<1>14. Sizes'
  <2> SUFFICES ASSUME NEW q \in Req
               PROVE  SizeOf(q)'
    BY DEF Sizes
  <2>1. SizeOf(q)
    BY <1>3 DEF Sizes
  <2>2. CASE q = v
    BY <1>2, <1>6, <1>7, <1>8, <1>9, <1>10, <2>1, <2>2 DEF SizeOf
  <2>3. CASE q # v
    BY <1>2, <1>6, <1>8, <1>9, <1>10, <2>1, <2>3 DEF SizeOf
  <2> QED BY <2>2, <2>3
<1>15. StepQueues'
  <2>1. \A q \in Elements(now.preempted) : rows'[q] = rows[q]
    <3>1. \A q \in Elements(now.preempted) : q \in Req /\ q # v
      BY <1>7, <1>9 DEF Elements
    <3> QED BY <1>8, <3>1
  <2>2. Elements(now'.preempted) = Elements(now.preempted) \cup {v} /\ Distinct(now'.preempted)
    BY <1>4, <1>9, <1>10 DEF StepQueues
  <2>3. \A q \in Elements(now'.preempted) : rows'[q] = << >>
    BY <1>4, <1>8, <2>1, <2>2 DEF StepQueues
  <2> QED BY <1>2, <1>4, <1>6, <1>7, <1>10, <2>2, <2>3 DEF StepQueues, InStatus, Apart
<1>16. Queues'
  BY <1>4, <1>10, <1>15 DEF Queues
<1>17. Phases'
  <2>1. \A r \in Elements(running') : status'[r] = "running"
    BY <1>2, <1>3, <1>4, <1>6 DEF Phases
  <2>2. \A j \in DOMAIN running' : j >= now'.pos => now'.plan[running'[j]] = 0
    BY <1>3, <1>4, <1>6, <1>10 DEF Phases
  <2> QED BY <1>3, <1>4, <1>10, <2>1, <2>2 DEF Phases
<1>18. Probes'
  <2> SUFFICES ASSUME NEW q \in Req
               PROVE  ProbeOf(q)'
    BY DEF Probes
  <2>1. ProbeOf(q)
    BY <1>3 DEF Probes
  <2> QED BY <1>2, <1>4, <1>10, <2>1 DEF ProbeOf
<1>19. Transfers'
  <2> SUFFICES ASSUME NEW q \in Req
               PROVE  TransferOf(q)'
    BY DEF Transfers
  <2>1. TransferOf(q)
    BY <1>3 DEF Transfers
  <2>2. CASE q = v
    BY <1>2, <1>7, <2>1, <2>2 DEF TransferOf
  <2>3. CASE q # v
    BY <1>2, <1>8, <2>1, <2>3 DEF TransferOf
  <2> QED BY <2>2, <2>3
<1> QED BY <1>8, <1>11, <1>12, <1>13, <1>14, <1>16, <1>17, <1>18, <1>19 DEF SplitInv, Control
\* The hit a candidate is installed with.
LEMMA LocalHitIs ==
  ASSUME SplitInv, WaitingArm, NEW r, r = Candidate
  PROVE  /\ IsHit(r, LocalHit(r)) /\ LocalHit(r) \in Seq(Blocks)
         /\ Len(LocalHit(r)) \in Nat /\ Len(LocalHit(r)) < numTokens[r]
         /\ (r \in now.probed /\ computed[r] = 0 /\ ~ Stale(r)) => LocalHit(r) = now.probe[r]
<1>1. CandidateIs(r) /\ BlocksInv /\ Typed /\ Sizes /\ Probes
  BY CandidateFacts DEF SplitInv, Control
<1>2. /\ r \in Req /\ numTokens[r] \in Nat /\ numTokens[r] >= 2 /\ numTokens[r] < MaxLen
      /\ MaxLen \in Nat /\ computed[r] \in Nat /\ now.probe[r] \in Seq(Blocks)
      /\ computed[r] = 0 => rows[r] = << >>
  <2>1. r \in Req
    BY <1>1 DEF CandidateIs
  <2>2. numTokens[r] \in Nat /\ computed[r] \in Nat /\ now.probe[r] \in Seq(Blocks)
    BY <1>1, <2>1, TypedFacts
  <2>3. PromptLen[r] \in Nat /\ PromptLen[r] >= 2 /\ MaxLen \in Nat
    BY <2>1, Constants
  <2>4. PromptLen[r] <= numTokens[r] /\ numTokens[r] < MaxLen
    BY <1>1, <2>1 DEF Sizes, SizeOf
  <2>5. computed[r] = 0 => rows[r] = << >>
    BY <1>1, <2>1 DEF CandidateIs, Sizes, SizeOf
  <2> QED BY <2>1, <2>2, <2>3, <2>4, <2>5
<1>3. CASE computed[r] # 0
  <2>1. LocalHit(r) = << >> /\ << >> \in Seq(Blocks) /\ Len(<< >>) = 0
    BY <1>3 DEF LocalHit
  <2> QED BY <1>2, <1>3, <2>1, NoHit
<1>4. CASE computed[r] = 0 /\ r \in now.probed /\ ~ Stale(r)
  <2>1. LocalHit(r) = now.probe[r]
    BY <1>4 DEF LocalHit
  <2>2. Len(now.probe[r]) < numTokens[r] /\ Len(now.probe[r]) \in Nat
    BY <1>1, <1>2, <1>4 DEF Probes, ProbeOf
  <2>3. \A i \in 1 .. Len(now.probe[r]) : pool.hash[now.probe[r][i]] = BlockHash[r][i]
    BY <1>2, <1>4 DEF Stale, BlockStillCachedAs
  <2>4. IsHit(r, now.probe[r])
    BY <1>2, <1>4, <2>2, <2>3 DEF IsHit
  <2> QED BY <1>2, <2>1, <2>2, <2>4
<1>5. CASE computed[r] = 0 /\ ~ (r \in now.probed /\ ~ Stale(r))
  <2>1. LocalHit(r) = HitBlocks(r)
    BY <1>5 DEF LocalHit
  <2> QED BY <1>1, <1>2, <1>5, <2>1, HitsAreHits
<1> QED BY <1>3, <1>4, <1>5

LEMMA AdmissionType == Admission \in Nat
BY Constants DEF Admission

\* A load is parked.
LEMMA ParkKeeps ==
  ASSUME SplitInv, Park
  PROVE  SplitInv'
<1> DEFINE r == Candidate
           hit == LocalHit(r)
           target == ParkedTarget(r)
           more == ReservedBy(r)
<1>1. /\ WaitingArm /\ Asked(r) /\ ~ TurnedAway(r) /\ now.ext[r] > 0
      /\ Fits(r, hit, target, Admission, now.reserved)
      /\ AllocateSlots(r, hit, target, TRUE)
      /\ now' = [now EXCEPT !.cand = Tail(@), !.parked = Append(@, r),
                            !.reserved = @ + more]
  BY DEF Park
<1>2. /\ deferred' = deferred
      /\ content' = content /\ loads' = loads /\ received' = received /\ steps' = steps
      /\ status' = status /\ numTokens' = numTokens /\ computed' = computed
      /\ placeholders' = placeholders /\ running' = running /\ waiting' = waiting
      /\ skipped' = skipped /\ prefills' = prefills /\ turn' = turn
  BY DEF Park, reqVars, queueVars, deviceVars
<1>3. BlocksInv /\ Typed /\ Turns /\ Sizes /\ Owed /\ Queues /\ Phases /\ Probes
      /\ Steps /\ Transfers
  BY DEF SplitInv, Control
<1>4. CandidateIs(r)
  BY <1>1, CandidateFacts
<1>5. ~ Stale(r)
  BY <1>1 DEF TurnedAway
<1>6. /\ r \in Req /\ r \in now.probed /\ computed[r] = 0 /\ rows[r] = << >>
      /\ now.ext[r] \in Nat /\ now.reserved \in Nat /\ now.parked \in Seq(Req)
      /\ numTokens[r] \in Nat /\ numTokens[r] < MaxLen
      /\ now.ext[r] + Len(now.probe[r]) <= numTokens[r]
  BY <1>1, <1>3, <1>4, TypedFacts DEF CandidateIs, Probes, ProbeOf, Sizes, SizeOf
<1>7. /\ IsHit(r, hit) /\ Len(hit) \in Nat /\ hit = now.probe[r]
  BY <1>1, <1>5, <1>6, LocalHitIs
<1>8. target = Len(hit) + now.ext[r]
  BY DEF ParkedTarget
<1>9. more \in Nat
  <2>1. more = Greater(numTokens[r] - (Len(hit) + now.ext[r]), 0)
    BY DEF ReservedBy
  <2> QED BY <1>6, <1>7, <2>1 DEF Greater
<1> HIDE DEF r, hit, target, more
<1>10. target \in Nat /\ target < MaxLen
  <2> DEFINE l == Len(hit)
             e == now.ext[r]
             t == numTokens[r]
  <2>1. /\ l \in Nat /\ e \in Nat /\ t \in Nat /\ t < MaxLen /\ e + l <= t
        /\ target = l + e
    BY <1>6, <1>7, <1>8
  <2> HIDE DEF l, e, t
  <2> QED BY <2>1, Constants
<1>11. /\ BlocksInv'
       /\ \A q \in Req \ {r} : rows'[q] = rows[q] /\ numCached'[q] = numCached[q]
       /\ Len(rows'[r]) \in Nat
       /\ numCached'[r] = Greater(numCached[r] + Len(hit), CacheUpTo(r, target, TRUE))
  BY <1>1, <1>2, <1>3, <1>6, <1>7, <1>10, AdmissionType, AllocateKeeps
<1>12. numCached'[r] = Len(now.probe[r])
  <2>1. numCached[r] = 0
    <3>1. numCached[r] <= Len(rows[r]) /\ Len(rows[r]) = 0 /\ numCached[r] \in Nat
      BY <1>3, <1>6 DEF BlocksInv, BlocksTyped, Lengths
    <3> QED BY <3>1
  <2>2. CacheUpTo(r, target, TRUE) = 0
    BY DEF CacheUpTo
  <2> DEFINE l == Len(hit)
  <2>3. l \in Nat /\ numCached'[r] = Greater(0 + l, 0) /\ l = Len(now.probe[r])
    BY <1>7, <1>11, <2>1, <2>2
  <2> HIDE DEF l
  <2>4. numCached'[r] = l
    BY <2>3 DEF Greater
  <2> QED BY <2>3, <2>4
<1>13. /\ Append(now.parked, r) \in Seq(Req)
       /\ Elements(Append(now.parked, r)) = Elements(now.parked) \cup {r}
       /\ Distinct(now.parked) => Distinct(Append(now.parked, r))
  BY <1>4, <1>6, AppendElements DEF CandidateIs
<1>14. /\ now' \in NowType /\ now'.at = "waiting" /\ now'.preempted = now.preempted
       /\ now'.plan = now.plan /\ now'.parked = Append(now.parked, r)
       /\ now'.cand = Tail(now.cand) /\ now'.skips = now.skips /\ now'.stale = now.stale
       /\ now'.ext = now.ext /\ now'.probed = now.probed /\ now'.probe = now.probe
  <2>1. now.reserved + more \in Nat
    BY <1>6, <1>9
  <2> QED BY <1>1, <1>4, <1>13, <2>1 DEF NowType, CandidateIs
<1>15. Owed' /\ Steps'
  BY <1>2, <1>3, <1>14, OwedSame, StepsSame
<1>16. Typed' /\ Turns'
  BY <1>2, <1>3, <1>4, <1>14 DEF Typed, Turns, CandidateIs
<1>17. Sizes'
  <2> SUFFICES ASSUME NEW q \in Req
               PROVE  SizeOf(q)'
    BY DEF Sizes
  <2>1. SizeOf(q)
    BY <1>3 DEF Sizes
  <2>2. CASE q = r
    BY <1>2, <1>4, <1>6, <1>11, <1>13, <1>14, <2>1, <2>2 DEF SizeOf, CandidateIs
  <2>3. CASE q # r
    BY <1>2, <1>11, <1>13, <1>14, <2>1, <2>3 DEF SizeOf
  <2> QED BY <2>2, <2>3
<1>18. StepQueues'
  <2>1. Elements(now.preempted) = {}
    BY <1>4 DEF CandidateIs, Elements
  <2> QED BY <1>2, <1>4, <1>13, <1>14, <2>1 DEF StepQueues, InStatus, CandidateIs, Apart
<1>19. Queues' /\ Phases'
  BY <1>4, <1>14, <1>18 DEF Queues, Phases, CandidateIs
<1>20. Probes'
  <2> SUFFICES ASSUME NEW q \in Req
               PROVE  ProbeOf(q)'
    BY DEF Probes
  <2>1. ProbeOf(q)
    BY <1>3 DEF Probes
  <2>2. CASE q = r
    BY <1>2, <1>4, <1>6, <1>12, <1>13, <1>14, <2>1, <2>2 DEF ProbeOf, CandidateIs
  <2>3. CASE q # r
    BY <1>2, <1>4, <1>11, <1>13, <1>14, <2>1, <2>3 DEF ProbeOf, CandidateIs
  <2> QED BY <2>2, <2>3
<1>21. Transfers'
  <2> SUFFICES ASSUME NEW q \in Req
               PROVE  TransferOf(q)'
    BY DEF Transfers
  <2>1. TransferOf(q)
    BY <1>3 DEF Transfers
  <2>2. CASE q = r
    BY <1>2, <1>4, <2>1, <2>2 DEF TransferOf, CandidateIs
  <2>3. CASE q # r
    BY <1>2, <1>11, <2>1, <2>3 DEF TransferOf
  <2> QED BY <2>2, <2>3
<1> QED BY <1>11, <1>15, <1>16, <1>17, <1>19, <1>20, <1>21 DEF SplitInv, Control

\* A candidate is admitted.
LEMMA AdmitKeeps ==
  ASSUME SplitInv, Admit
  PROVE  SplitInv'
<1> DEFINE r == Candidate
           hit == LocalHit(r)
           base == Base(r)
           n == Chunk(numTokens[r] - Base(r))
<1>1. /\ WaitingArm /\ Asked(r) /\ now.ext[r] = 0
      /\ Fits(r, hit, base + n, Admission, 0)
      /\ AllocateSlots(r, hit, base + n, FALSE)
      /\ computed' = [computed EXCEPT ![r] = base]
      /\ running' = Append(running, r)
      /\ now' = [now EXCEPT !.cand = Tail(@), !.plan[r] = n, !.budget = @ - n]
  BY DEF Admit
<1>2. /\ deferred' = deferred
      /\ content' = content /\ loads' = loads /\ received' = received /\ steps' = steps
      /\ status' = status /\ numTokens' = numTokens
      /\ placeholders' = placeholders /\ waiting' = waiting
      /\ skipped' = skipped /\ prefills' = prefills /\ turn' = turn
  BY DEF Admit, deviceVars
<1>3. BlocksInv /\ Typed /\ Turns /\ Sizes /\ Owed /\ Queues /\ Phases /\ Probes
      /\ Steps /\ Transfers
  BY DEF SplitInv, Control
<1>4. CandidateIs(r)
  BY <1>1, CandidateFacts
<1>5. /\ r \in Req /\ now.budget \in Nat /\ now.plan \in [Req -> Nat]
      /\ numTokens[r] \in Nat /\ numTokens[r] < MaxLen /\ computed[r] \in Nat
      /\ MaxLen \in Nat /\ running \in Seq(Req) /\ computed \in [Req -> Nat]
  BY <1>3, <1>4, TypedFacts, Constants DEF CandidateIs, Sizes, SizeOf, Typed
<1>6. IsHit(r, hit) /\ Len(hit) \in Nat /\ Len(hit) < numTokens[r]
  BY <1>1, LocalHitIs
<1>7. base \in Nat /\ base < numTokens[r]
  BY <1>4, <1>5, <1>6 DEF Base, CandidateIs
<1> HIDE DEF r, hit, base
<1>8. n \in Nat /\ n <= now.budget /\ base + n <= numTokens[r]
  <2>1. n = Chunk(numTokens[r] - base)
    BY DEF base, r
  <2>2. numTokens[r] - base \in Int /\ numTokens[r] - base >= 0
    BY <1>5, <1>7
  <2> HIDE DEF n
  <2>3. n \in Int /\ n <= numTokens[r] - base /\ n <= now.budget /\ n >= 0
    BY <1>3, <2>1, <2>2, ChunkType
  <2> QED BY <1>5, <1>7, <2>3
<1> HIDE DEF n
<1>9. base + n \in Nat /\ base + n < MaxLen
  BY <1>5, <1>7, <1>8
<1>10. /\ BlocksInv'
       /\ \A q \in Req \ {r} : rows'[q] = rows[q] /\ numCached'[q] = numCached[q]
       /\ Len(rows'[r]) \in Nat /\ Len(rows'[r]) >= base + n
  <2> DEFINE target == base + n
  <2>1. target \in Nat /\ target < MaxLen /\ r \in Req /\ numTokens[r] \in Nat
    BY <1>5, <1>9
  <2>2. IsHit(r, hit) /\ BlocksInv /\ deferred' = deferred
    BY <1>2, <1>3, <1>6
  <2>3. Fits(r, hit, target, Admission, 0) /\ AllocateSlots(r, hit, target, FALSE)
    BY <1>1
  <2> HIDE DEF target
  <2>4. /\ BlocksInv' /\ Len(rows'[r]) \in Nat /\ Len(rows'[r]) >= target
        /\ \A q \in Req \ {r} : rows'[q] = rows[q] /\ numCached'[q] = numCached[q]
    BY <2>1, <2>2, <2>3, AdmissionType, AllocateKeeps
  <2> QED BY <2>4 DEF target
<1>11. /\ running' \in Seq(Req) /\ Elements(running') = Elements(running) \cup {r}
       /\ Distinct(running) => Distinct(running')
  BY <1>1, <1>4, <1>5, AppendElements DEF CandidateIs
<1>12. /\ now' \in NowType /\ now'.at = "waiting" /\ now'.preempted = now.preempted
       /\ now'.plan = [now.plan EXCEPT ![r] = n] /\ now'.parked = now.parked
       /\ now'.cand = Tail(now.cand) /\ now'.skips = now.skips /\ now'.stale = now.stale
       /\ now'.ext = now.ext /\ now'.probed = now.probed /\ now'.probe = now.probe
  <2>1. now.budget - n \in Nat /\ [now.plan EXCEPT ![r] = n] \in [Req -> Nat]
    BY <1>5, <1>8
  <2> QED BY <1>1, <1>4, <2>1 DEF NowType, CandidateIs
<1>13. /\ now'.plan[r] = n /\ \A q \in Req \ {r} : now'.plan[q] = now.plan[q]
       /\ computed'[r] = base /\ computed' \in [Req -> Nat]
       /\ \A q \in Req \ {r} : computed'[q] = computed[q]
  BY <1>1, <1>5, <1>7, <1>12
<1>14. Steps'
  BY <1>2, <1>3, StepsSame
<1>15. Owed'
  <2> SUFFICES ASSUME NEW q \in Req
               PROVE  OwedTo(q)'
    BY DEF Owed
  <2>1. OwedTo(q)
    BY <1>3 DEF Owed
  <2>2. CASE q = r
    BY <1>2, <1>4, <1>7, <1>12, <1>13, <2>1, <2>2 DEF OwedTo, Sampling, CandidateIs
  <2>3. CASE q # r
    BY <1>2, <1>12, <1>13, <2>1, <2>3 DEF OwedTo, Sampling
  <2> QED BY <2>2, <2>3
<1>16. Typed' /\ Turns'
  BY <1>2, <1>3, <1>4, <1>11, <1>12, <1>13 DEF Typed, Turns, CandidateIs
<1>17. Sizes'
  <2> SUFFICES ASSUME NEW q \in Req
               PROVE  SizeOf(q)'
    BY DEF Sizes
  <2>1. SizeOf(q)
    BY <1>3 DEF Sizes
  <2>2. CASE q = r
    <3>1. base < MaxLen
      BY <1>5, <1>7
    <3> QED BY <1>2, <1>4, <1>7, <1>10, <1>11, <1>12, <1>13, <2>1, <2>2, <3>1
            DEF SizeOf, CandidateIs
  <2>3. CASE q # r
    BY <1>2, <1>10, <1>11, <1>12, <1>13, <2>1, <2>3 DEF SizeOf
  <2> QED BY <2>2, <2>3
<1>18. StepQueues'
  <2>1. Elements(now.preempted) = {}
    BY <1>4 DEF CandidateIs, Elements
  <2> QED BY <1>2, <1>4, <1>11, <1>12, <2>1 DEF StepQueues, InStatus, CandidateIs, Apart
<1>19. Queues' /\ Phases'
  BY <1>4, <1>12, <1>18 DEF Queues, Phases, CandidateIs
<1>20. Probes'
  <2> SUFFICES ASSUME NEW q \in Req
               PROVE  ProbeOf(q)'
    BY DEF Probes
  <2>1. ProbeOf(q)
    BY <1>3 DEF Probes
  <2>2. CASE q = r
    BY <1>2, <1>4, <1>12, <2>1, <2>2 DEF ProbeOf, CandidateIs
  <2>3. CASE q # r
    BY <1>2, <1>4, <1>10, <1>12, <1>13, <2>1, <2>3 DEF ProbeOf, CandidateIs
  <2> QED BY <2>2, <2>3
<1>21. Transfers'
  <2> SUFFICES ASSUME NEW q \in Req
               PROVE  TransferOf(q)'
    BY DEF Transfers
  <2>1. TransferOf(q)
    BY <1>3 DEF Transfers
  <2>2. CASE q = r
    BY <1>2, <1>4, <2>1, <2>2 DEF TransferOf, CandidateIs
  <2>3. CASE q # r
    BY <1>2, <1>10, <2>1, <2>3 DEF TransferOf
  <2> QED BY <2>2, <2>3
<1> QED BY <1>10, <1>14, <1>15, <1>16, <1>17, <1>19, <1>20, <1>21 DEF SplitInv, Control
------------------------------------------------------------------------------
(***************************************************************************)
(* The beginning and the end of schedule().                                *)
(***************************************************************************)

LEMMA ScheduleKeeps ==
  ASSUME SplitInv, Schedule
  PROVE  SplitInv'
<1> DEFINE blocked == {r \in Elements(skipped) : status[r] = "loading"} \ Promotable
           cand == Drop(skipped, blocked) \o waiting
           skips == Keep(skipped, blocked)
<1>1. /\ now.at = "idle" /\ ~ turn /\ pool' = Promoted(pool)
      /\ numCached' = [r \in Req |-> IF r \in Promotable THEN computed[r] ELSE numCached[r]]
      /\ status' = [r \in Req |-> IF r \in Promotable THEN "waiting" ELSE status[r]]
      /\ computed' = [r \in Req |-> IF r \in Promotable
                                    THEN Lesser(computed[r], numTokens[r] - 1)
                                    ELSE computed[r]]
      /\ received' = received \ Promotable
      /\ now' = [Idle EXCEPT
                   !.at = "running", !.stock = Bails, !.budget = TokenBudget,
                   !.seats = MaxRunning - Len(running), !.cand = cand, !.skips = skips]
  BY DEF Schedule
<1>2. /\ rows' = rows /\ numTokens' = numTokens /\ placeholders' = placeholders
      /\ running' = running /\ waiting' = waiting /\ skipped' = skipped
      /\ prefills' = prefills /\ content' = content /\ loads' = loads /\ steps' = steps
      /\ deferred' = deferred /\ turn' = turn
  BY DEF Schedule, queueVars
<1>3. BlocksInv /\ Typed /\ Turns /\ Sizes /\ Owed /\ Queues /\ Phases /\ Probes
      /\ Steps /\ Transfers
  BY DEF SplitInv, Control
<1>4. /\ now = Idle /\ IdleQueues /\ running \in Seq(Req) /\ waiting \in Seq(Req)
      /\ skipped \in Seq(Req) /\ received \in SUBSET Req
  BY <1>1, <1>3 DEF Turns, Queues, Typed
<1>5. /\ Elements(skipped) \subseteq Req /\ Promotable \subseteq Elements(skipped)
      /\ Promotable \subseteq received
      /\ \A r \in Promotable : r \in Req /\ status[r] = "loading" /\ r \in received
      /\ \A r \in Elements(skipped) : r \in received => r \in Promotable
  <2>1. Elements(skipped) \subseteq Req
    BY <1>4 DEF Elements
  <2> QED BY <1>3, <2>1 DEF Promotable, Transfers, TransferOf
<1>6. \A r \in Req : /\ SizeOf(r) /\ computed[r] \in Nat /\ numTokens[r] \in Nat
                     /\ numTokens[r] >= 2 /\ numCached[r] \in Nat /\ Len(rows[r]) \in Nat
                     /\ numCached[r] <= Len(rows[r]) /\ rows[r] \in Seq(Blocks)
                     /\ OwedTo(r) /\ TransferOf(r) /\ placeholders[r] \in Nat
  <2> TAKE r \in Req
  <2>1. SizeOf(r) /\ OwedTo(r) /\ TransferOf(r)
    BY <1>3 DEF Sizes, Owed, Transfers
  <2>2. PromptLen[r] \in Nat /\ PromptLen[r] >= 2
    BY Constants
  <2>3. numTokens[r] >= 2 /\ computed[r] \in Nat /\ numTokens[r] \in Nat
        /\ placeholders[r] \in Nat
    BY <1>3, <2>1, <2>2, TypedFacts DEF SizeOf
  <2> QED BY <1>3, <2>1, <2>3 DEF BlocksInv, BlocksTyped, Lengths
<1>7. /\ status' \in [Req -> Statuses] /\ computed' \in [Req -> Nat]
      /\ \A r \in Req : r \in Promotable =>
           /\ status'[r] = "waiting" /\ computed'[r] = Lesser(computed[r], numTokens[r] - 1)
           /\ computed'[r] <= computed[r] /\ computed'[r] < numTokens[r]
           /\ computed'[r] = 0 => computed[r] = 0
      /\ \A r \in Req : r \notin Promotable =>
           status'[r] = status[r] /\ computed'[r] = computed[r]
  <2>1. \A r \in Req : /\ Lesser(computed[r], numTokens[r] - 1) \in Nat
                       /\ Lesser(computed[r], numTokens[r] - 1) <= computed[r]
                       /\ Lesser(computed[r], numTokens[r] - 1) < numTokens[r]
                       /\ Lesser(computed[r], numTokens[r] - 1) = 0 => computed[r] = 0
    BY <1>6 DEF Lesser
  <2>2. status' \in [Req -> Statuses]
    BY <1>1, <1>3 DEF Typed, Statuses
  <2> QED BY <1>1, <1>6, <2>1, <2>2
<1>8. BlocksInv'
  <2> DEFINE s == Keep(skipped, Promotable)
             calls == [i \in DOMAIN s |-> Publishing(s[i], computed[s[i]])]
             nc == Recorded(s, computed)
  <2>1. s \in Seq(Req) /\ Distinct(s) /\ Elements(s) = Promotable
    <3>1. Distinct(skipped)
      BY <1>4 DEF IdleQueues
    <3>2. s \in Seq(Req) /\ Distinct(s) /\ Elements(s) = Elements(skipped) \cap Promotable
      BY <1>4, <3>1, KeepElements
    <3> QED BY <1>5, <3>2
  <2>2. \A r \in Elements(s) : computed[r] \in Nat /\ computed[r] <= Len(rows[r])
    <3>1. \A r \in Promotable : computed[r] = Len(rows[r])
      BY <1>5, <1>6 DEF SizeOf
    <3> QED BY <1>5, <1>6, <2>1, <3>1
  <2>3. pool' = Calls(pool, calls)
    BY <1>1 DEF Promoted
  <2> HIDE DEF s
  <2>4. BlocksOf(pool, rows, numCached, deferred)
    BY <1>3, BlocksInvIs
  <2>5. BlocksOf(Calls(pool, calls), rows, nc, deferred)
    <3>1. calls = PublishedRows(s, computed)
      BY DEF PublishedRows
    <3>2. InTable(s, computed)
      BY <2>2 DEF InTable
    <3> HIDE DEF calls
    <3> QED BY <2>1, <2>4, <3>1, <3>2, PublishStage
  <2>6. nc = numCached'
    <3>1. \A r \in Promotable : Greater(numCached[r], computed[r]) = computed[r]
      BY <1>5, <1>6 DEF SizeOf, Greater
    <3> QED BY <1>1, <2>1, <3>1 DEF Recorded
  <2> HIDE DEF calls, nc
  <2>7. BlocksOf(pool', rows', numCached', deferred')
    BY <1>2, <2>3, <2>5, <2>6
  <2> QED BY <2>7, BlocksInvIs
<1>9. /\ cand \in Seq(Req) /\ skips \in Seq(Req) /\ Distinct(cand) /\ Distinct(skips)
      /\ Elements(skips) = Elements(skipped) \cap blocked
      /\ Elements(cand) = (Elements(skipped) \ blocked) \cup Elements(waiting)
  <2>1. Distinct(skipped) /\ Distinct(waiting) /\ Elements(waiting) \cap Elements(skipped) = {}
    BY <1>4 DEF IdleQueues
  <2>2. /\ Drop(skipped, blocked) \in Seq(Req) /\ Distinct(Drop(skipped, blocked))
        /\ Elements(Drop(skipped, blocked)) = Elements(skipped) \ blocked
    BY <1>4, <2>1, DropElements
  <2>3. /\ skips \in Seq(Req) /\ Distinct(skips)
        /\ Elements(skips) = Elements(skipped) \cap blocked
    BY <1>4, <2>1, KeepElements
  <2>4. Elements(Drop(skipped, blocked)) \cap Elements(waiting) = {}
    BY <2>1, <2>2
  <2>5. /\ cand \in Seq(Req) /\ Distinct(cand)
        /\ Elements(cand) = Elements(Drop(skipped, blocked)) \cup Elements(waiting)
    <3> DEFINE d == Drop(skipped, blocked)
    <3>1. /\ d \in Seq(Req) /\ waiting \in Seq(Req) /\ Distinct(d) /\ Distinct(waiting)
          /\ Elements(d) \cap Elements(waiting) = {}
      BY <1>4, <2>1, <2>2, <2>4
    <3>2. cand = d \o waiting
      OBVIOUS
    <3> HIDE DEF cand, d
    <3>3. cand \in Seq(Req) /\ Distinct(cand) /\ Elements(cand) = Elements(d) \cup Elements(waiting)
      BY <3>1, <3>2, ConcatElements
    <3> QED BY <3>3 DEF d
  <2> QED BY <2>2, <2>3, <2>5
<1>10. \A r \in Elements(skipped) : r \in blocked <=> status[r] = "loading" /\ r \notin Promotable
  OBVIOUS
<1> HIDE DEF cand, skips, blocked
<1>11. /\ now' \in NowType /\ now'.at = "running" /\ now'.preempted = << >>
       /\ now'.plan = Idle.plan /\ now'.parked = << >> /\ now'.stale = << >>
       /\ now'.cand = cand /\ now'.skips = skips /\ now'.ext = Idle.ext
       /\ now'.probed = {} /\ Elements(now'.preempted) = {} /\ Elements(now'.parked) = {}
       /\ Elements(now'.stale) = {}
  <2>1. Bails \in BOOLEAN
    BY DEF Bails
  <2>2. MaxRunning - Len(running) \in Int /\ TokenBudget \in Nat
    BY <1>4, Constants
  <2>3. Idle \in NowType
    BY IdleFacts
  <2>4. now' \in NowType
    BY <1>1, <1>9, <2>1, <2>2, <2>3 DEF NowType
  <2>5. /\ now'.at = "running" /\ now'.preempted = Idle.preempted
        /\ now'.plan = Idle.plan /\ now'.parked = Idle.parked /\ now'.stale = Idle.stale
        /\ now'.cand = cand /\ now'.skips = skips /\ now'.ext = Idle.ext
        /\ now'.probed = Idle.probed
    BY <1>1, <2>3 DEF NowType
  <2>6. /\ Idle.preempted = << >> /\ Idle.parked = << >> /\ Idle.probed = {}
        /\ Elements(Idle.preempted) = {} /\ Elements(Idle.parked) = {}
        /\ Elements(Idle.stale) = {} /\ Idle.stale = << >>
    BY IdleFacts DEF Idle
  <2> QED BY <2>4, <2>5, <2>6
<1>12. Typed' /\ Turns' /\ Steps'
  <2>1. Typed'
    BY <1>1, <1>2, <1>3, <1>7, <1>11 DEF Typed
  <2>2. Turns'
    BY <1>1, <1>2, <1>3, <1>11 DEF Turns
  <2> QED BY <1>2, <1>3, <2>1, <2>2, StepsSame
<1>13. Sizes'
  <2> SUFFICES ASSUME NEW q \in Req
               PROVE  SizeOf(q)'
    BY DEF Sizes
  <2>1. SizeOf(q) /\ now.plan[q] = 0 /\ now'.plan[q] = 0 /\ q \notin Elements(now.preempted)
    BY <1>4, <1>6, <1>11, IdleFacts
  <2>2. CASE q \in Promotable
    <3>1. /\ status[q] = "loading" /\ computed[q] = Len(rows[q])
          /\ placeholders[q] = 0
      BY <1>5, <2>1, <2>2 DEF SizeOf
    <3>2. Len(rows[q]) = 0 => rows[q] = << >>
      BY <1>6, EmptySeq
    <3>3. /\ status'[q] = "waiting" /\ computed'[q] = Lesser(computed[q], numTokens[q] - 1)
          /\ computed'[q] <= computed[q] /\ computed'[q] < numTokens[q]
          /\ computed'[q] = 0 => computed[q] = 0
      BY <1>6, <1>7, <2>2 DEF Lesser
    <3>4. computed'[q] = 0 => rows[q] = << >>
      BY <3>1, <3>2, <3>3
    <3>5. /\ rows'[q] = rows[q] /\ numTokens'[q] = numTokens[q]
          /\ placeholders'[q] = placeholders[q]
      BY <1>2
    <3>6. computed'[q] \in Nat /\ computed'[q] + 0 <= Len(rows[q]) /\ computed'[q] < MaxLen
      <4>1. computed'[q] \in Nat /\ computed[q] \in Nat /\ MaxLen \in Nat
        BY <1>6, <1>7, Constants
      <4>2. computed[q] < MaxLen
        BY <2>1 DEF SizeOf
      <4> QED BY <3>1, <3>3, <4>1, <4>2
    <3> QED BY <2>1, <3>1, <3>3, <3>4, <3>5, <3>6 DEF SizeOf
  <2>3. CASE q \notin Promotable
    <3>1. q \notin Elements(now.parked)
      BY <1>4, IdleFacts
    <3> QED BY <1>2, <1>7, <1>11, <2>1, <2>3, <3>1 DEF SizeOf
  <2> QED BY <2>2, <2>3
<1>14. Owed'
  <2> SUFFICES ASSUME NEW q \in Req
               PROVE  OwedTo(q)'
    BY DEF Owed
  <2>1. OwedTo(q) /\ SizeOf(q) /\ q \notin Elements(now.preempted)
    BY <1>4, <1>6, IdleFacts
  <2>2. CASE q \in Promotable
    <3>1. placeholders[q] = 0 /\ computed'[q] \in Nat
      BY <1>5, <1>7, <2>1, <2>2 DEF SizeOf
    <3> QED BY <1>2, <2>1, <3>1 DEF OwedTo, Sampling
  <2>3. CASE q \notin Promotable
    BY <1>2, <1>7, <2>1, <2>3 DEF OwedTo, Sampling
  <2> QED BY <2>2, <2>3
<1>15. StepQueues'
  <2> DEFINE R == Elements(running)
             W == Elements(waiting)
             K == Elements(skipped)
  <2>1. /\ Distinct(running) /\ W \cap K = {} /\ R = InStatus("running")
        /\ W \cup K = InStatus("waiting") \cup InStatus("loading")
        /\ W \cap InStatus("loading") = {}
    BY <1>4 DEF IdleQueues
  <2>2. \A r \in Req : status[r] \in Statuses
    BY <1>3, TypedFacts
  <2> HIDE DEF R, W, K
  <2>3. /\ R \cap Elements(cand) = {} /\ (R \cup Elements(cand)) \cap Elements(skips) = {}
        /\ R \cup Elements(cand) \cup Elements(skips) = R \cup W \cup K
    BY <1>9, <2>1 DEF InStatus, W, K
  <2>4. R \cup W \cup K = Req \ InStatus("new")
    BY <2>1, <2>2 DEF InStatus, Statuses
  <2>5. InStatus("new")' = InStatus("new")
    BY <1>5, <1>7 DEF InStatus
  <2>6. \A r \in R : status'[r] = "running"
    BY <1>5, <1>7, <2>1 DEF InStatus
  <2>7. \A r \in Elements(cand) : status'[r] = "waiting"
    <3> SUFFICES ASSUME NEW r \in Elements(cand)
                 PROVE  status'[r] = "waiting"
      OBVIOUS
    <3>1. r \in Req /\ status[r] \in {"waiting", "loading"}
      BY <1>9, <2>1 DEF InStatus, W, K
    <3>2. CASE r \in Promotable
      BY <1>7, <3>1, <3>2
    <3>3. CASE r \notin Promotable
      <4>1. status[r] = "waiting"
        BY <1>9, <1>10, <2>1, <3>1, <3>3 DEF InStatus, W, K
      <4> QED BY <1>7, <3>1, <3>3, <4>1
    <3> QED BY <3>2, <3>3
  <2>8. \A r \in Elements(skips) : status'[r] = "loading"
    BY <1>5, <1>7, <1>9, <1>10
  <2> QED BY <1>2, <1>9, <1>11, <2>1, <2>3, <2>4, <2>5, <2>6, <2>7, <2>8
          DEF StepQueues, Apart, Distinct, R
<1>16. Queues' /\ Phases'
  <2>1. \A r \in Elements(running) : status'[r] = "running"
    BY <1>4, <1>5, <1>7 DEF IdleQueues, InStatus
  <2>2. \A j \in DOMAIN running : now'.plan[running[j]] = 0
    BY <1>4, <1>11, IdleFacts
  <2> QED BY <1>2, <1>11, <1>15, <2>1, <2>2 DEF Queues, Phases
<1>17. Probes'
  BY <1>11, IdleFacts DEF Probes, ProbeOf
<1>18. Transfers'
  <2> SUFFICES ASSUME NEW q \in Req
               PROVE  TransferOf(q)'
    BY DEF Transfers
  <2>1. TransferOf(q)
    BY <1>6
  <2>2. CASE q \in Promotable
    BY <1>1, <1>2, <1>5, <2>1, <2>2 DEF TransferOf
  <2>3. CASE q \notin Promotable
    BY <1>1, <1>2, <1>7, <2>1, <2>3 DEF TransferOf
  <2> QED BY <2>2, <2>3
<1> QED BY <1>8, <1>12, <1>13, <1>14, <1>16, <1>17, <1>18 DEF SplitInv, Control
\* What a request has computed when the step is over.
LEMMA AdvancedFacts ==
  ASSUME SplitInv, now.at # "idle", NEW r \in Req
  PROVE  /\ r \in Elements(now.preempted) => Advanced(r) = 0
         /\ r \in Elements(now.parked) => Advanced(r) = Len(rows[r])
         /\ r \notin Elements(now.preempted) \cup Elements(now.parked) =>
              Advanced(r) = computed[r] + now.plan[r]
         /\ Advanced(r) \in Nat /\ Advanced(r) <= Len(rows[r]) /\ Len(rows[r]) \in Nat
         /\ Advanced(r) < MaxLen
<1>1. BlocksInv /\ Typed /\ Sizes /\ Queues
  BY DEF SplitInv, Control
<1>2. /\ SizeOf(r) /\ computed[r] \in Nat /\ now.plan[r] \in Nat /\ Len(rows[r]) \in Nat
      /\ Len(rows[r]) < MaxLen /\ MaxLen \in Nat
  BY <1>1, TypedFacts, Constants DEF Sizes, BlocksInv, BlocksTyped, Lengths
<1>3. Elements(now.preempted) \cap Elements(now.parked) = {}
  BY <1>1 DEF Queues, StepQueues, Apart
<1> QED BY <1>2, <1>3 DEF Advanced, SizeOf

\* Who is in a step, and the step.
LEMMA ScheduledFacts ==
  ASSUME SplitInv, now.at # "idle"
  PROVE  /\ Scheduled \subseteq Elements(running) /\ Scheduled \subseteq Req
         /\ \A r \in Scheduled :
              /\ r \notin Elements(now.preempted) /\ r \notin Elements(now.parked)
              /\ now.plan[r] > 0 /\ Advanced(r) = computed[r] + now.plan[r]
         /\ \A r \in Req : r \in Elements(running) /\ r \notin Scheduled => now.plan[r] = 0
<1>1. Typed /\ StepQueues
  BY DEF SplitInv, Control, Queues
<1>2. running \in Seq(Req)
  BY <1>1 DEF Typed
<1>3. Scheduled \subseteq Elements(running) /\ Scheduled \subseteq Req
  BY <1>2 DEF Scheduled, Elements
<1>4. \A r \in Scheduled : /\ r \notin Elements(now.preempted) /\ r \notin Elements(now.parked)
                           /\ now.plan[r] > 0
  BY <1>1, <1>3 DEF Scheduled, StepQueues, Apart
<1>5. \A r \in Scheduled : Advanced(r) = computed[r] + now.plan[r]
  BY <1>3, <1>4, AdvancedFacts
<1>6. \A r \in Req : r \in Elements(running) /\ r \notin Scheduled => now.plan[r] = 0
  BY <1>1, TypedFacts DEF Scheduled
<1> QED BY <1>3, <1>4, <1>5, <1>6

LEMMA ThisStepIsStep ==
  ASSUME SplitInv, now.at # "idle"
  PROVE  ThisStep \in StepType /\ IsStep(ThisStep)
<1>1. /\ BlocksInv /\ Typed /\ StepQueues
  BY DEF SplitInv, Control, Queues
<1>2. /\ running \in Seq(Req) /\ Distinct(running) /\ rows \in [Req -> Seq(Blocks)]
      /\ \A r \in Req : computed[r] \in Nat /\ now.plan[r] \in Nat /\ Advanced(r) \in Nat
                        /\ Advanced(r) <= Len(rows[r])
  BY <1>1, TypedFacts, AdvancedFacts DEF Typed, StepQueues, BlocksInv, BlocksTyped
<1>3. /\ Scheduled \subseteq Elements(running) /\ Scheduled \subseteq Req
      /\ \A r \in Scheduled : Advanced(r) = computed[r] + now.plan[r] /\ now.plan[r] > 0
  BY ScheduledFacts
<1>4. /\ Keep(running, Scheduled) \in Seq(Req) /\ Distinct(Keep(running, Scheduled))
      /\ Elements(Keep(running, Scheduled)) = Scheduled
  <2>1. Elements(Keep(running, Scheduled)) = Elements(running) \cap Scheduled
    BY <1>2, KeepElements
  <2> QED BY <1>2, <1>3, <2>1, KeepElements
<1> DEFINE from == [r \in Req |-> IF r \in Scheduled THEN computed[r] ELSE 0]
           to   == [r \in Req |-> IF r \in Scheduled THEN Advanced(r) ELSE 0]
           row  == [r \in Req |-> IF r \in Scheduled THEN rows[r] ELSE << >>]
           samples == {r \in Scheduled : Advanced(r) >= Known(r)}
<1>5. /\ from \in [Req -> Nat] /\ to \in [Req -> Nat] /\ row \in [Req -> Seq(Blocks)]
      /\ samples \in SUBSET Req /\ samples \subseteq Scheduled
  <2>1. << >> \in Seq(Blocks)
    OBVIOUS
  <2> QED BY <1>2, <1>3, <2>1
<1>6. \A r \in Req : /\ to[r] # 0 <=> r \in Scheduled
                     /\ to[r] <= Len(row[r]) /\ (to[r] = 0 => row[r] = << >>)
  <2>1. Len(<< >>) = 0
    OBVIOUS
  <2>2. \A r \in Scheduled : Advanced(r) # 0
    <3> TAKE r \in Scheduled
    <3>1. computed[r] \in Nat /\ now.plan[r] \in Nat
      BY <1>2, <1>3
    <3>2. Advanced(r) = computed[r] + now.plan[r] /\ now.plan[r] > 0
      BY <1>3
    <3> QED BY <3>1, <3>2
  <2> QED BY <1>2, <1>3, <2>1, <2>2
<1>7. ThisStep = [order |-> Keep(running, Scheduled), from |-> from, to |-> to,
                  row |-> row, samples |-> samples]
  BY DEF ThisStep
<1> HIDE DEF from, to, row, samples
<1>8. ThisStep \in StepType
  BY <1>4, <1>5, <1>7 DEF StepType
<1>9. IsStep(ThisStep)
  <2>1. {r \in Req : to[r] # 0} = Scheduled
    BY <1>3, <1>6
  <2> QED BY <1>4, <1>5, <1>6, <1>7, <2>1 DEF IsStep
<1> QED BY <1>8, <1>9

\* The queues schedule() leaves.
LEMMA QueuesRebuilt ==
  ASSUME SplitInv, now.at # "idle"
  PROVE  LET w == Reverse(now.preempted) \o Leftover
             k == StepSkipped \o KeptSkipped
         IN  /\ w \in Seq(Req) /\ k \in Seq(Req) /\ Distinct(w) /\ Distinct(k)
             /\ Elements(w) \cap Elements(k) = {}
             /\ Elements(w) \cup Elements(k) =
                  Elements(now.preempted) \cup Elements(now.cand) \cup Elements(now.skips)
                    \cup Elements(now.parked) \cup Elements(now.stale)
             /\ Elements(w) \subseteq Elements(now.preempted) \cup Elements(now.cand)
<1> DEFINE P == Elements(now.preempted)
           C == Elements(now.cand)
           K == Elements(now.skips)
           A == Elements(now.parked)
           S == Elements(now.stale)
           X == Elements(Leftover)
           Y == Elements(KeptSkipped)
           w == Reverse(now.preempted) \o Leftover
           k == StepSkipped \o KeptSkipped
<1>1. /\ Typed /\ StepQueues
  BY DEF SplitInv, Control, Queues
<1>2. /\ now.preempted \in Seq(Req) /\ now.cand \in Seq(Req) /\ now.skips \in Seq(Req)
      /\ now.parked \in Seq(Req) /\ now.stale \in Seq(Req)
      /\ Distinct(now.preempted) /\ Distinct(now.cand) /\ Distinct(now.skips)
      /\ Distinct(now.parked) /\ Distinct(now.stale)
      /\ P \cap C = {} /\ P \cap K = {} /\ P \cap A = {} /\ P \cap S = {}
      /\ C \cap K = {} /\ C \cap A = {} /\ C \cap S = {}
      /\ K \cap A = {} /\ K \cap S = {} /\ A \cap S = {}
  BY <1>1, TypedFacts DEF StepQueues, Apart
<1>3. /\ Leftover \in Seq(Req) /\ KeptSkipped \in Seq(Req) /\ Distinct(Leftover)
      /\ Distinct(KeptSkipped) /\ X \cup Y = C /\ X \cap Y = {}
  <2> DEFINE T == Elements(skipped)
  <2>1. /\ Drop(now.cand, T) \in Seq(Req) /\ Distinct(Drop(now.cand, T))
        /\ Elements(Drop(now.cand, T)) = C \ T
        /\ Keep(now.cand, T) \in Seq(Req) /\ Distinct(Keep(now.cand, T))
        /\ Elements(Keep(now.cand, T)) = C \cap T
    BY <1>2, DropElements, KeepElements
  <2>2. << >> \in Seq(Req) /\ Distinct(<< >>) /\ Elements(<< >>) = {}
    BY DEF Distinct, Elements
  <2>3. CASE now.stock
    <3>1. Leftover = Drop(now.cand, T) /\ KeptSkipped = Keep(now.cand, T)
      BY <2>3 DEF Leftover, KeptSkipped
    <3> HIDE DEF C, T
    <3> QED BY <2>1, <3>1
  <2>4. CASE ~ now.stock
    <3>1. Leftover = now.cand /\ KeptSkipped = << >>
      BY <2>4 DEF Leftover, KeptSkipped
    <3> QED BY <1>2, <2>2, <3>1
  <2> QED BY <2>3, <2>4
<1> HIDE DEF P, C, K, A, S, X, Y
<1>4. /\ Reverse(now.preempted) \in Seq(Req) /\ Elements(Reverse(now.preempted)) = P
      /\ Distinct(Reverse(now.preempted))
  BY <1>2, ReverseElements DEF P
<1>5. w \in Seq(Req) /\ Distinct(w) /\ Elements(w) = P \cup X
  <2>1. P \cap X = {}
    BY <1>2, <1>3
  <2> QED BY <1>3, <1>4, <2>1, ConcatElements DEF X
<1>6. /\ now.skips \o now.parked \in Seq(Req) /\ Distinct(now.skips \o now.parked)
      /\ Elements(now.skips \o now.parked) = K \cup A
  BY <1>2, ConcatElements DEF K, A
<1>7. StepSkipped \in Seq(Req) /\ Distinct(StepSkipped) /\ Elements(StepSkipped) = K \cup A \cup S
  <2>1. (K \cup A) \cap S = {}
    BY <1>2
  <2>2. StepSkipped = (now.skips \o now.parked) \o now.stale
    BY DEF StepSkipped
  <2> DEFINE u == now.skips \o now.parked
             v == now.stale
  <2>3. u \in Seq(Req) /\ v \in Seq(Req) /\ Distinct(u) /\ Distinct(v) /\ Elements(v) = S
        /\ Elements(u) = K \cup A /\ Elements(u) \cap Elements(v) = {}
    BY <1>2, <1>6, <2>1 DEF S
  <2>4. StepSkipped = u \o v
    BY <2>2
  <2> HIDE DEF u, v
  <2> QED BY <2>3, <2>4, ConcatElements
<1>8. k \in Seq(Req) /\ Distinct(k) /\ Elements(k) = K \cup A \cup S \cup Y
  <2>1. (K \cup A \cup S) \cap Y = {}
    BY <1>2, <1>3
  <2> QED BY <1>3, <1>7, <2>1, ConcatElements DEF Y
<1> HIDE DEF w, k
<1>9. /\ Elements(w) \cap Elements(k) = {}
      /\ Elements(w) \cup Elements(k) = P \cup C \cup K \cup A \cup S
      /\ Elements(w) \subseteq P \cup C
  BY <1>2, <1>3, <1>5, <1>8
<1> QED BY <1>5, <1>8, <1>9 DEF w, k, P, C, K, A, S
LEMMA FinishKeeps ==
  ASSUME SplitInv, Finish
  PROVE  SplitInv'
<1> DEFINE gone == Elements(now.preempted)
           parked == Elements(now.parked)
           s == ThisStep
           samples == ThisStep.samples
<1>1. /\ now.at = "waiting" /\ now.at # "idle"
      /\ status' = [r \in Req |->
                      IF r \in gone THEN "waiting"
                      ELSE IF r \in parked THEN "loading"
                      ELSE IF r \in Elements(running) THEN "running"
                      ELSE status[r]]
      /\ computed' = [r \in Req |-> Advanced(r)]
      /\ placeholders' = [r \in Req |->
                            IF r \in gone THEN 0
                            ELSE IF r \in samples
                                 THEN placeholders[r] + 1 ELSE placeholders[r]]
      /\ waiting' = Reverse(now.preempted) \o Leftover
      /\ skipped' = StepSkipped \o KeptSkipped
      /\ prefills' = (prefills \cup parked \cup StartedPrefills) \ (gone \cup samples)
      /\ loads' = [r \in Req |->
                     IF r \in parked
                     THEN [from   |-> Len(now.probe[r]) + 1,
                           blocks |-> SubSeq(rows[r], Len(now.probe[r]) + 1, Len(rows[r]))]
                     ELSE loads[r]]
      /\ steps' = Append(steps, s)
      /\ turn' = (Scheduled = {} \/ Len(steps) + 1 = Depth)
      /\ now' = Idle
  BY DEF Finish
<1>2. /\ pool' = pool /\ rows' = rows /\ numCached' = numCached /\ deferred' = deferred
      /\ numTokens' = numTokens /\ running' = running /\ content' = content
      /\ received' = received
  BY DEF Finish, kvVars
<1>3. BlocksInv /\ Typed /\ Turns /\ Sizes /\ Owed /\ StepQueues /\ Phases /\ Probes
      /\ Steps /\ Transfers
  BY <1>1 DEF SplitInv, Control, Queues
<1>4. BlocksInv'
  BY <1>2, <1>3, BlocksSame
<1>5. s \in StepType /\ IsStep(s)
  BY <1>1, ThisStepIsStep
<1>6. /\ samples \subseteq Scheduled /\ samples \subseteq Req
      /\ Scheduled \subseteq Elements(running) /\ Scheduled \subseteq Req
      /\ \A r \in Scheduled : /\ r \notin gone /\ r \notin parked
                              /\ now.plan[r] > 0 /\ Advanced(r) = computed[r] + now.plan[r]
  <2>1. samples = {r \in Scheduled : Advanced(r) >= Known(r)}
    BY DEF ThisStep
  <2> HIDE DEF samples, gone, parked
  <2> QED BY <1>1, <2>1, ScheduledFacts DEF gone, parked
<1>7. \A r \in Req :
        /\ SizeOf(r) /\ OwedTo(r) /\ ProbeOf(r) /\ TransferOf(r)
        /\ r \in gone => Advanced(r) = 0
        /\ r \in parked => Advanced(r) = Len(rows[r])
        /\ r \notin gone /\ r \notin parked => Advanced(r) = computed[r] + now.plan[r]
        /\ Advanced(r) \in Nat /\ Advanced(r) <= Len(rows[r]) /\ Len(rows[r]) \in Nat
        /\ Advanced(r) < MaxLen
  BY <1>1, <1>3, AdvancedFacts DEF Sizes, Owed, Probes, Transfers
<1>8. \A r \in Req :
        /\ status[r] \in Statuses /\ placeholders[r] \in Nat /\ computed[r] \in Nat
        /\ now.plan[r] \in Nat /\ numTokens[r] \in Nat /\ numTokens[r] >= 2
        /\ Len(now.probe[r]) \in Nat /\ rows[r] \in Seq(Blocks)
  <2> TAKE r \in Req
  <2>1. PromptLen[r] >= 2 /\ PromptLen[r] \in Nat /\ PromptLen[r] <= numTokens[r]
    BY <1>7, Constants DEF SizeOf
  <2>2. now.probe[r] \in Seq(Blocks) /\ rows[r] \in Seq(Blocks)
    BY <1>3, TypedFacts DEF BlocksInv, BlocksTyped
  <2>3. /\ status[r] \in Statuses /\ placeholders[r] \in Nat /\ computed[r] \in Nat
        /\ now.plan[r] \in Nat /\ numTokens[r] \in Nat
    BY <1>3, TypedFacts
  <2>4. Len(now.probe[r]) \in Nat
    BY <2>2
  <2>5. numTokens[r] >= 2
    BY <2>1, <2>3
  <2> QED BY <2>2, <2>3, <2>4, <2>5
\* Where a request is, and its status.
<1>9. /\ gone \cap Elements(running) = {} /\ gone \cap parked = {}
      /\ parked \cap Elements(running) = {}
      /\ \A r \in gone : r \in Req /\ status[r] = "running" /\ rows[r] = << >>
      /\ \A r \in parked : r \in Req /\ status[r] = "waiting"
      /\ \A r \in Elements(running) : r \in Req /\ status[r] \in {"running", "waiting"}
      /\ \A r \in Req : status[r] = "running" => r \in gone \/ r \in Elements(running)
  <2>1. /\ now.preempted \in Seq(Req) /\ now.parked \in Seq(Req) /\ running \in Seq(Req)
    BY <1>3, TypedFacts DEF Typed
  <2>2. gone \subseteq Req /\ parked \subseteq Req /\ Elements(running) \subseteq Req
    BY <2>1 DEF Elements
  <2>3. \A r \in Req : status[r] = "running" => r \in gone \/ r \in Elements(running)
    <3> SUFFICES ASSUME NEW r \in Req, status[r] = "running"
                 PROVE  r \in gone \/ r \in Elements(running)
      OBVIOUS
    <3>1. r \in Req \ InStatus("new")
      BY DEF InStatus
    <3>2. /\ r \notin Elements(now.cand) /\ r \notin parked /\ r \notin Elements(now.stale)
          /\ r \notin Elements(now.skips)
      BY <1>3 DEF StepQueues
    <3> QED BY <1>3, <3>1, <3>2 DEF StepQueues
  <2> QED BY <1>3, <2>2, <2>3 DEF StepQueues, Apart
<1> HIDE DEF gone, parked, s, samples
<1>10. /\ status' \in [Req -> Statuses]
       /\ \A r \in Req :
            /\ r \in gone => status'[r] = "waiting"
            /\ r \in parked => status'[r] = "loading"
            /\ r \in Elements(running) => status'[r] = "running"
            /\ r \notin gone /\ r \notin parked /\ r \notin Elements(running) =>
                 status'[r] = status[r] /\ status[r] # "running"
  BY <1>1, <1>8, <1>9 DEF Statuses
<1>11. /\ computed' \in [Req -> Nat] /\ \A r \in Req : computed'[r] = Advanced(r)
       /\ placeholders' \in [Req -> Nat]
       /\ \A r \in Req :
            /\ r \in gone => placeholders'[r] = 0
            /\ r \in samples => placeholders'[r] = placeholders[r] + 1
            /\ r \notin gone /\ r \notin samples => placeholders'[r] = placeholders[r]
  BY <1>1, <1>6, <1>7, <1>8
<1>12. /\ loads' \in [Req -> LoadType]
       /\ \A r \in Req :
            /\ r \in parked =>
                 loads'[r] = [from |-> Len(now.probe[r]) + 1,
                              blocks |-> SubSeq(rows[r], Len(now.probe[r]) + 1, Len(rows[r]))]
            /\ r \notin parked => loads'[r] = loads[r]
  <2>1. \A r \in Req : [from |-> Len(now.probe[r]) + 1,
                        blocks |-> SubSeq(rows[r], Len(now.probe[r]) + 1, Len(rows[r]))] \in LoadType
    <3> TAKE r \in Req
    <3>1. SubSeq(rows[r], Len(now.probe[r]) + 1, Len(rows[r])) \in Seq(Blocks)
      <4>1. \A i \in Len(now.probe[r]) + 1 .. Len(rows[r]) : rows[r][i] \in Blocks
        BY <1>8
      <4>2. Len(now.probe[r]) + 1 \in Int /\ Len(rows[r]) \in Int
        BY <1>7, <1>8
      <4> QED BY <4>1, <4>2, SubSeqProperties
    <3>2. Len(now.probe[r]) + 1 \in Nat
      BY <1>8
    <3> QED BY <3>1, <3>2 DEF LoadType
  <2> QED BY <1>1, <1>3, <2>1 DEF Typed
<1>13. /\ waiting' \in Seq(Req) /\ skipped' \in Seq(Req) /\ Distinct(waiting')
       /\ Distinct(skipped') /\ Elements(waiting') \cap Elements(skipped') = {}
       /\ Elements(waiting') \cup Elements(skipped') =
            gone \cup Elements(now.cand) \cup Elements(now.skips) \cup parked
              \cup Elements(now.stale)
       /\ Elements(waiting') \subseteq gone \cup Elements(now.cand)
  BY <1>1, QueuesRebuilt DEF gone, parked
<1>14. /\ steps' \in Seq(StepType) /\ Len(steps') = Len(steps) + 1 /\ Len(steps) \in Nat
       /\ \A i \in 1 .. Len(steps) : steps'[i] = steps[i]
       /\ steps'[Len(steps) + 1] = s
       /\ DOMAIN steps' = 1 .. Len(steps) + 1 /\ DOMAIN steps = 1 .. Len(steps)
  <2>1. steps \in Seq(StepType)
    BY <1>3 DEF Typed
  <2> QED BY <1>1, <1>5, <2>1, AppendProperties
<1>15. Len(steps) < Depth /\ Depth \in 1 .. 2 /\ ~ turn
  BY <1>1, <1>3, Constants DEF Turns
<1>16. Typed'
  <2>1. prefills' \in SUBSET Req
    <3>1. StartedPrefills \subseteq Req
      BY <1>9 DEF StartedPrefills
    <3> QED BY <1>1, <1>3, <1>9, <3>1 DEF Typed
  <2>2. turn' \in BOOLEAN
    BY <1>1
  <2> QED BY <1>1, <1>2, <1>3, <1>10, <1>11, <1>12, <1>13, <1>14, <2>1, <2>2, IdleFacts
          DEF Typed
<1>17. Turns'
  <2>1. now'.at = "idle"
    BY <1>1, IdleFacts
  <2>2. turn' = (Scheduled = {} \/ Len(steps') = Depth)
    BY <1>1, <1>14
  <2> DEFINE n == Len(steps)
             m == Len(steps')
  <2>3. n \in Nat /\ n < Depth /\ Depth \in 1 .. 2 /\ m = n + 1
    BY <1>14, <1>15
  <2> HIDE DEF n, m
  <2>4. m <= Depth /\ (m = Depth \/ m < Depth)
    BY <2>3
  <2>5. turn' = (Scheduled = {} \/ m = Depth)
    BY <2>2 DEF m
  <2>6. ~ turn' => m < Depth
    BY <2>4, <2>5
  <2>7. now' = Idle
    BY <1>1
  <2> QED BY <2>1, <2>4, <2>6, <2>7 DEF Turns, m
<1>18. Steps'
  <2> SUFFICES ASSUME NEW i \in 1 .. Len(steps) + 1
               PROVE  IsStep(steps'[i])
    BY <1>14 DEF Steps, IsStep
  <2>1. CASE i = Len(steps) + 1
    BY <1>5, <1>14, <2>1
  <2>2. CASE i # Len(steps) + 1
    <3>1. i \in 1 .. Len(steps)
      BY <1>14, <2>2
    <3> QED BY <1>3, <1>14, <3>1 DEF Steps
  <2> QED BY <2>1, <2>2
<1>19. Sizes'
  <2> SUFFICES ASSUME NEW q \in Req
               PROVE  SizeOf(q)'
    BY DEF Sizes
  <2>1. SizeOf(q) /\ computed'[q] = Advanced(q) /\ Advanced(q) <= Len(rows[q])
        /\ Advanced(q) < MaxLen /\ now'.plan[q] = 0 /\ Elements(now'.preempted) = {}
        /\ Elements(now'.parked) = {} /\ Advanced(q) \in Nat
    BY <1>1, <1>7, <1>11, IdleFacts
  <2>2. CASE q \in gone
    BY <1>2, <1>7, <1>8, <1>9, <1>10, <1>11, <2>1, <2>2 DEF SizeOf
  <2>3. CASE q \in parked
    <3>1. /\ q \notin samples /\ q \notin gone /\ placeholders[q] = 0
          /\ Advanced(q) = Len(rows[q]) /\ status'[q] = "loading"
      BY <1>6, <1>7, <1>9, <1>10, <2>1, <2>3 DEF SizeOf
    <3> QED BY <1>2, <1>8, <1>9, <1>11, <2>1, <2>3, <3>1 DEF SizeOf
  <2>4. CASE q \in Elements(running)
    BY <1>2, <1>8, <1>10, <2>1, <2>4 DEF SizeOf
  <2>5. CASE q \notin gone /\ q \notin parked /\ q \notin Elements(running)
    <3>1. /\ status'[q] = status[q] /\ status[q] # "running" /\ q \notin samples
          /\ now.plan[q] = 0 /\ Advanced(q) = computed[q] + now.plan[q]
      BY <1>6, <1>7, <1>10, <2>1, <2>5 DEF SizeOf
    <3>2. Advanced(q) = computed[q]
      BY <1>8, <3>1
    <3> HIDE DEF SizeOf
    <3>3. placeholders'[q] = placeholders[q]
      BY <1>11, <2>5, <3>1
    <3> QED BY <1>2, <1>8, <2>1, <2>5, <3>1, <3>2, <3>3 DEF SizeOf, gone, parked
  <2> QED BY <2>2, <2>3, <2>4, <2>5
<1>20. Owed'
  <2> SUFFICES ASSUME NEW q \in Req
               PROVE  OwedTo(q)'
    BY DEF Owed
  <2>1. OwedTo(q) /\ placeholders[q] \in Nat /\ computed[q] \in Nat /\ now.plan[q] \in Nat
        /\ computed'[q] = Advanced(q) /\ Advanced(q) \in Nat
    BY <1>7, <1>8, <1>11
  <2>2. placeholders'[q] <= Sampling(1, q)' + Sampling(2, q)'
    <3>1. CASE Len(steps) = 0
      <4>1. /\ 1 \in DOMAIN steps' /\ 2 \notin DOMAIN steps' /\ steps'[1] = s
            /\ 1 \notin DOMAIN steps /\ 2 \notin DOMAIN steps
        BY <1>14, <3>1
      <4>2. placeholders[q] = 0
        BY <2>1, <4>1 DEF OwedTo, Sampling
      <4>3. /\ Sampling(1, q)' = IF q \in samples THEN 1 ELSE 0
            /\ Sampling(2, q)' = 0
        BY <4>1 DEF Sampling, samples, s
      <4> QED BY <1>6, <1>11, <4>2, <4>3
    <3>2. CASE Len(steps) = 1
      <4>1. /\ 1 \in DOMAIN steps' /\ 2 \in DOMAIN steps' /\ steps'[1] = steps[1]
            /\ steps'[2] = s /\ 1 \in DOMAIN steps /\ 2 \notin DOMAIN steps
        BY <1>14, <3>2
      <4>2. /\ Sampling(1, q)' = Sampling(1, q) /\ Sampling(2, q) = 0
            /\ Sampling(2, q)' = IF q \in samples THEN 1 ELSE 0
            /\ Sampling(1, q) \in Nat
        BY <4>1 DEF Sampling, samples, s
      <4> QED BY <1>6, <1>11, <2>1, <4>2 DEF OwedTo
    <3> QED BY <1>14, <1>15, <3>1, <3>2
  <2>3. placeholders'[q] <= computed'[q] + 1
    <3>1. CASE q \in gone
      BY <1>11, <2>1, <3>1
    <3>2. CASE q \in samples
      <4>1. Advanced(q) = computed[q] + now.plan[q] /\ now.plan[q] > 0 /\ q \notin gone
        BY <1>6, <3>2
      <4> QED BY <1>11, <2>1, <3>2, <4>1 DEF OwedTo, gone
    <3>3. CASE q \notin gone /\ q \notin samples
      <4>1. placeholders'[q] = placeholders[q] /\ placeholders[q] <= computed[q] + 1
        BY <1>11, <2>1, <3>3 DEF OwedTo, gone
      <4>2. CASE q \in parked
        <5>1. placeholders[q] = 0
          BY <1>7, <1>9, <4>2 DEF SizeOf
        <5> QED BY <2>1, <4>1, <5>1
      <4>3. CASE q \notin parked
        BY <1>7, <2>1, <3>3, <4>1, <4>3
      <4> QED BY <4>2, <4>3
    <3> QED BY <3>1, <3>2, <3>3
  <2> QED BY <2>2, <2>3 DEF OwedTo
<1>21. IdleQueues'
  <2> DEFINE R == Elements(running)
             W == Elements(waiting')
             K == Elements(skipped')
  <2>1. /\ Distinct(running) /\ \A r \in Elements(now.cand) : status[r] = "waiting"
        /\ \A r \in Elements(now.stale) : status[r] = "waiting"
        /\ \A r \in Elements(now.skips) : status[r] \in {"waiting", "loading"}
        /\ R \cup gone \cup Elements(now.cand) \cup Elements(now.skips) \cup parked
             \cup Elements(now.stale) = Req \ InStatus("new")
        /\ R \cap (W \cup K) = {} /\ Elements(now.cand) \cap parked = {}
    BY <1>3, <1>13 DEF StepQueues, Apart, gone, parked
  <2> HIDE DEF R, W, K
  <2>2. W \cup K = (Req \ InStatus("new")) \ R
    BY <1>13, <2>1 DEF W, K
  <2>3. R = InStatus("running")'
    <3>1. \A r \in R : r \in Req /\ status'[r] = "running"
      BY <1>9, <1>10 DEF R
    <3>2. ASSUME NEW r \in Req, status'[r] = "running"
          PROVE  r \in R
      BY <1>10, <3>2 DEF R
    <3> QED BY <3>1, <3>2 DEF InStatus
  <2>4. InStatus("new")' = InStatus("new")
    <3>1. \A r \in Req : status'[r] = "new" <=> status[r] = "new"
      BY <1>9, <1>10
    <3> QED BY <3>1 DEF InStatus
  <2>5. W \cup K = InStatus("waiting")' \cup InStatus("loading")'
    <3>1. \A r \in Req : status'[r] \in Statuses
      BY <1>10
    <3>2. W \cup K = Req \ (InStatus("new")' \cup InStatus("running")')
      BY <2>2, <2>3, <2>4
    <3> QED BY <3>1, <3>2 DEF InStatus, Statuses
  <2>6. W \cap InStatus("loading")' = {}
    <3> SUFFICES ASSUME NEW r \in W
                 PROVE  ~ (r \in Req /\ status'[r] = "loading")
      BY DEF InStatus
    <3>1. r \in gone \/ r \in Elements(now.cand)
      BY <1>13 DEF W
    <3>2. CASE r \in gone
      BY <1>9, <1>10, <3>2
    <3>3. CASE r \notin gone
      <4>1. status[r] = "waiting" /\ r \notin parked /\ r \notin R
        BY <2>1, <3>1, <3>3 DEF W
      <4> QED BY <1>10, <3>3, <4>1 DEF R
    <3> QED BY <3>2, <3>3
  <2> QED BY <1>2, <1>13, <2>1, <2>3, <2>5, <2>6 DEF IdleQueues, R, W, K
<1>22. Queues' /\ Phases'
  BY <1>1, <1>21, IdleFacts DEF Queues, Phases
<1>23. Probes'
  BY <1>1, IdleFacts DEF Probes, ProbeOf
<1>24. Transfers'
  <2> SUFFICES ASSUME NEW q \in Req
               PROVE  TransferOf(q)'
    BY DEF Transfers
  <2>1. TransferOf(q) /\ ProbeOf(q)
    BY <1>7
  <2>2. CASE q \in parked
    <3>1. /\ numCached[q] = Len(now.probe[q]) /\ status[q] = "waiting"
          /\ status'[q] = "loading"
      BY <1>9, <1>10, <2>1, <2>2 DEF ProbeOf, parked
    <3>2. /\ loads'[q].from = Len(now.probe[q]) + 1
          /\ loads'[q].blocks = SubSeq(rows[q], Len(now.probe[q]) + 1, Len(rows[q]))
      <4> DEFINE f == Len(now.probe[q]) + 1
                 b == SubSeq(rows[q], Len(now.probe[q]) + 1, Len(rows[q]))
      <4>1. loads'[q] = [from |-> f, blocks |-> b]
        BY <1>12, <2>2
      <4> HIDE DEF f, b
      <4>2. loads'[q].from = f /\ loads'[q].blocks = b
        BY <4>1
      <4> QED BY <4>2 DEF f, b
    <3>3. numCached'[q] = Len(now.probe[q]) /\ rows'[q] = rows[q] /\ received' = received
      BY <1>2, <3>1
    <3>4. q \notin received
      BY <2>1, <3>1 DEF TransferOf
    <3> QED BY <3>1, <3>2, <3>3, <3>4 DEF TransferOf
  <2>3. CASE q \notin parked
    <3>1. status[q] = "loading" => status'[q] = "loading"
      BY <1>9, <1>10, <2>3
    <3> QED BY <1>2, <1>12, <2>1, <2>3, <3>1 DEF TransferOf
  <2> QED BY <2>2, <2>3
<1> QED BY <1>4, <1>16, <1>17, <1>18, <1>19, <1>20, <1>22, <1>23, <1>24
        DEF SplitInv, Control
------------------------------------------------------------------------------
(***************************************************************************)
(* The result of a step, and the end of a request.                         *)
(***************************************************************************)

\* Who is in a step in flight runs or has ended, unless it was preempted by
\* the step behind it.
Flying ==
  \A i \in DOMAIN steps : \A r \in Req : steps[i].to[r] # 0 =>
    \/ status[r] \in {"running", "new"}
    \/ status[r] = "waiting" /\ turn /\ i = 1

LEMMA FlyingSame ==
  ASSUME Flying, steps' = steps, status' = status, turn' = turn
  PROVE  Flying'
BY DEF Flying

\* The oldest step and the others.
LEMMA OldestFacts ==
  ASSUME SplitInv, now.at = "idle", steps # << >>
  PROVE  LET s == Head(steps)
             rest == Tail(steps)
         IN  /\ s = steps[1] /\ 1 \in DOMAIN steps /\ s \in StepType /\ IsStep(s)
             /\ rest \in Seq(StepType) /\ Len(rest) = Len(steps) - 1 /\ Len(steps) \in 1 .. 2
             /\ DOMAIN rest = 1 .. Len(steps) - 1
             /\ \A i \in DOMAIN rest : rest[i] = steps[i + 1] /\ i + 1 \in DOMAIN steps /\ i = 1
             /\ s.order \in Seq(Req) /\ Distinct(s.order) /\ s.samples \subseteq Elements(s.order)
             /\ Elements(s.order) \subseteq Req
<1>1. steps \in Seq(StepType) /\ Steps /\ Len(steps) <= Depth /\ Depth \in 1 .. 2
  BY Constants DEF SplitInv, Control, Typed, Turns
<1>2. Len(steps) \in 1 .. 2 /\ DOMAIN steps = 1 .. Len(steps)
  <2> DEFINE n == Len(steps)
  <2>1. n \in Nat /\ n # 0 /\ DOMAIN steps = 1 .. n
    BY <1>1, EmptySeq
  <2>2. n <= Depth
    BY <1>1
  <2> HIDE DEF n
  <2>3. n \in 1 .. 2
    BY <1>1, <2>1, <2>2
  <2> QED BY <2>1, <2>3 DEF n
<1>3. /\ Head(steps) = steps[1] /\ steps[1] \in StepType /\ Tail(steps) \in Seq(StepType)
      /\ Len(Tail(steps)) = Len(steps) - 1
      /\ \A i \in 1 .. Len(Tail(steps)) : Tail(steps)[i] = steps[i + 1]
  BY <1>1, <1>2, HeadTailProperties
<1>4. DOMAIN Tail(steps) = 1 .. Len(steps) - 1
  BY <1>3
<1>5. IsStep(steps[1]) /\ 1 \in DOMAIN steps
  BY <1>1, <1>2 DEF Steps
<1>6. \A i \in DOMAIN Tail(steps) :
        Tail(steps)[i] = steps[i + 1] /\ i + 1 \in DOMAIN steps /\ i = 1
  BY <1>2, <1>3, <1>4
<1>7. steps[1].order \in Seq(Req) /\ Elements(steps[1].order) \subseteq Req
  BY <1>3 DEF StepType, Elements
<1> QED BY <1>2, <1>3, <1>4, <1>5, <1>6, <1>7 DEF IsStep

\* Due entries are some of the deferred ones.
LEMMA EntriesCount ==
  ASSUME BlocksTyped, NEW left
  PROVE  Cardinality(Entries(left)) \in 0 .. Len(deferred) /\ Len(deferred) \in Nat
<1>1. Len(deferred) \in Nat /\ DOMAIN deferred = 1 .. Len(deferred)
  BY DEF BlocksTyped
<1>2. Entries(left) \subseteq 1 .. Len(deferred)
  BY <1>1 DEF Entries
<1>3. IsFiniteSet(1 .. Len(deferred)) /\ Cardinality(1 .. Len(deferred)) = Len(deferred)
  <2> DEFINE n == Len(deferred)
  <2>1. n \in Nat
    BY <1>1
  <2> HIDE DEF n
  <2>2. 1 \in Int /\ n \in Int
    BY <2>1
  <2>3. /\ IsFiniteSet(1 .. n)
        /\ Cardinality(1 .. n) = IF 1 > n THEN 0 ELSE n - 1 + 1
    BY <2>2, FS_Interval
  <2> QED BY <2>1, <2>3 DEF n
<1>4. /\ IsFiniteSet(Entries(left))
      /\ Cardinality(Entries(left)) <= Cardinality(1 .. Len(deferred))
  BY <1>2, <1>3, FS_Subset
<1> QED BY <1>1, <1>3, <1>4, FS_CardinalityType

\* What is final of a request's table is part of it.
LEMMA FinalTokensType ==
  ASSUME SplitInv, now.at = "idle", NEW r \in Req
  PROVE  FinalTokens(r) \in Nat /\ FinalTokens(r) <= computed[r]
         /\ FinalTokens(r) <= Len(rows[r]) /\ computed[r] <= Len(rows[r])
<1>1. BlocksInv /\ Typed /\ Sizes /\ Owed /\ now = Idle
  BY DEF SplitInv, Control, Turns
<1>2. r \notin Elements(now.preempted) /\ now.plan[r] = 0
  BY <1>1, IdleFacts
<1>3. /\ computed[r] \in Nat /\ placeholders[r] \in Nat /\ Len(rows[r]) \in Nat
      /\ SizeOf(r) /\ OwedTo(r)
  BY <1>1, TypedFacts DEF BlocksInv, BlocksTyped, Sizes, Owed
<1>4. placeholders[r] <= computed[r] + 1 /\ computed[r] <= Len(rows[r])
  BY <1>2, <1>3 DEF SizeOf, OwedTo
<1> QED BY <1>3, <1>4 DEF FinalTokens, Greater

\* The result of a step: due entries are drained, decided text is published,
\* and the tables of those that end are freed or deferred.
ProcessedHashes(decided) ==
  \A b \in Blocks :
    \/ pool'.hash[b] = pool.hash[b]
    \/ \E r \in decided : \E i \in numCached[r] + 1 .. FinalTokens(r) :
         /\ i \in DOMAIN rows[r] /\ rows[r][i] = b
         /\ pool'.hash[b] = BlockHash[r][i]

LEMMA ProcessBlocks ==
  ASSUME SplitInv, NEW stop \in SUBSET Req, Process(stop)
  PROVE  /\ BlocksInv'
         /\ ProcessedHashes({r \in Head(steps).samples : status[r] = "running"})
         /\ \A r \in Req : r \notin stop => rows'[r] = rows[r]
         /\ \A r \in stop : rows'[r] = << >> /\ numCached'[r] = 0
<1> DEFINE s       == Head(steps)
           rest    == Tail(steps)
           counted == IF s.order = << >> THEN 0 ELSE 1
           due     == Cardinality(Entries(counted))
           sampled == {r \in s.samples : status[r] # "new"}
           ended   == Keep(s.order, stop)
           defers  == {r \in stop : \E i \in DOMAIN rest : rest[i].to[r] # 0}
           fence   == Cardinality({i \in DOMAIN rest : rest[i].order # << >>})
           parking == Keep(ended, defers)
           decided == {r \in sampled : status[r] = "running"}
           published == Keep(s.order, decided)
           freed   == Drop(ended, defers)
           left    == [i \in 1 .. Len(deferred) - due |->
                         [deferred[due + i] EXCEPT !.fence = @ - counted]]
           parked  == [i \in DOMAIN parking |->
                         [fence |-> fence, blocks |-> rows[parking[i]]]]
<1>1. /\ now.at = "idle" /\ steps # << >> /\ stop \subseteq sampled
      /\ pool' = FreeRows(Folded(Drained(pool, due), published), freed)
      /\ deferred' = left \o parked
      /\ rows' = [r \in Req |-> IF r \in stop THEN << >> ELSE rows[r]]
      /\ numCached' = [r \in Req |->
                         IF r \in stop THEN 0
                         ELSE IF r \in decided THEN Greater(numCached[r], FinalTokens(r))
                         ELSE numCached[r]]
  BY DEF Process
<1>2. BlocksInv /\ BlocksTyped
  BY DEF SplitInv, BlocksInv
<1>3. /\ s.order \in Seq(Req) /\ Distinct(s.order) /\ s.samples \subseteq Elements(s.order)
      /\ Elements(s.order) \subseteq Req
  BY <1>1, OldestFacts
<1>4. due \in 0 .. Len(deferred) /\ Len(deferred) \in Nat
  BY <1>2, EntriesCount
<1>5. counted \in {0, 1}
  OBVIOUS
<1>6. fence \in Nat
  <2>1. IsFiniteSet({i \in DOMAIN rest : rest[i].order # << >>})
    <3>1. DOMAIN rest = 1 .. Len(steps) - 1 /\ Len(steps) \in 1 .. 2
      BY <1>1, OldestFacts
    <3>2. IsFiniteSet(1 .. Len(steps) - 1)
      BY <3>1, FS_Interval
    <3> QED BY <3>1, <3>2, FS_Subset
  <2> QED BY <2>1, FS_CardinalityType
<1>7. stop \subseteq Elements(s.order) /\ decided \subseteq Elements(s.order)
      /\ decided \subseteq s.samples
  BY <1>1, <1>3
<1>8. decided = {r \in s.samples : status[r] = "running"}
  OBVIOUS
<1>9. defers \subseteq stop
  OBVIOUS
<1> HIDE DEF s, rest, counted, due, fence, defers, decided
<1>10. /\ ended \in Seq(Req) /\ Distinct(ended) /\ Elements(ended) = stop
  <2>1. /\ ended \in Seq(Req) /\ Distinct(ended)
        /\ Elements(ended) = Elements(s.order) \cap stop
    BY <1>3, KeepElements
  <2> HIDE DEF ended
  <2> QED BY <1>7, <2>1
<1>11. /\ published \in Seq(Req) /\ Distinct(published) /\ Elements(published) = decided
  <2>1. /\ published \in Seq(Req) /\ Distinct(published)
        /\ Elements(published) = Elements(s.order) \cap decided
    BY <1>3, KeepElements
  <2> HIDE DEF published
  <2> QED BY <1>7, <2>1
<1> HIDE DEF ended, published
<1>12. /\ parking \in Seq(Req) /\ Distinct(parking) /\ Elements(parking) = defers
  <2>1. /\ parking \in Seq(Req) /\ Distinct(parking)
        /\ Elements(parking) = Elements(ended) \cap defers
    BY <1>10, KeepElements
  <2> HIDE DEF parking
  <2> QED BY <1>9, <1>10, <2>1
<1>13. /\ freed \in Seq(Req) /\ Distinct(freed) /\ Elements(freed) = stop \ defers
  BY <1>10, DropElements
<1> HIDE DEF parking, freed
<1>14. deferred \in Seq(EntryType) /\ DOMAIN deferred = 1 .. Len(deferred)
  BY <1>2 DEF BlocksTyped
<1>15. /\ left \in Seq(EntryType) /\ Len(left) = Len(deferred) - due
       /\ \A i \in 1 .. Len(left) : left[i].blocks = deferred[due + i].blocks
  <2>1. ASSUME NEW i \in 1 .. Len(deferred) - due
        PROVE  /\ [deferred[due + i] EXCEPT !.fence = @ - counted] \in EntryType
               /\ [deferred[due + i] EXCEPT !.fence = @ - counted].blocks
                    = deferred[due + i].blocks
    <3>1. due + i \in DOMAIN deferred
      BY <1>4, <1>14
    <3>2. deferred[due + i] \in EntryType
      BY <1>14, <3>1
    <3> QED BY <1>5, <3>2 DEF EntryType
  <2>2. Len(deferred) - due \in Nat
    BY <1>4
  <2> DEFINE k == Len(deferred) - due
             e == [i \in 1 .. k |-> [deferred[due + i] EXCEPT !.fence = @ - counted]]
  <2>3. left = e /\ k \in Nat /\ e \in [1 .. k -> EntryType]
        /\ \A i \in 1 .. k : e[i].blocks = deferred[due + i].blocks
    BY <2>1, <2>2
  <2>4. k = Len(deferred) - due
    OBVIOUS
  <2> HIDE DEF left, e, k
  <2>5. left \in Seq(EntryType) /\ Len(left) = k
    BY <2>3
  <2> QED BY <2>3, <2>4, <2>5
<1>16. Remaining(deferred, due, left)
  BY <1>15 DEF Remaining
<1> DEFINE drain == [i \in 1 .. due |-> Freeing(deferred[i].blocks)]
           p1 == Calls(pool, drain)
<1>17. BlocksOf(p1, rows, numCached, left) /\ SameHashes(p1, pool)
  <2>1. BlocksOf(pool, rows, numCached, deferred)
    BY <1>2, BlocksInvIs
  <2>2. drain = FreedEntries(deferred, due)
    BY DEF FreedEntries
  <2> HIDE DEF left, drain
  <2> QED BY <1>4, <1>16, <2>1, <2>2, DrainStage
<1>18. Drained(pool, due) = p1
  BY DEF Drained
<1> DEFINE tokens == [r \in Req |-> FinalTokens(r)]
           publish == [i \in DOMAIN published |->
                         Publishing(published[i], tokens[published[i]])]
           p2 == Calls(p1, publish)
           nc == Recorded(published, tokens)
<1>19. Folded(p1, published) = p2
  <2>1. \A i \in DOMAIN published : tokens[published[i]] = FinalTokens(published[i])
    BY <1>11
  <2> HIDE DEF tokens
  <2>2. publish = [i \in DOMAIN published |->
                     Publishing(published[i], FinalTokens(published[i]))]
    BY <2>1
  <2> HIDE DEF publish
  <2> QED BY <2>2 DEF Folded
<1>20. InTable(published, tokens)
  BY <1>1, <1>3, <1>7, <1>11, FinalTokensType DEF InTable
<1>21. \A r \in Req : tokens[r] = FinalTokens(r)
  OBVIOUS
<1> HIDE DEF left, drain, p1, tokens
<1>22. BlocksOf(p2, rows, nc, left) /\ HashesFrom(p2, p1, published, tokens)
  <2>1. publish = PublishedRows(published, tokens)
    BY DEF PublishedRows
  <2> HIDE DEF publish
  <2> QED BY <1>11, <1>17, <1>20, <2>1, PublishStage
<1> HIDE DEF publish, p2
<1> DEFINE free == [i \in DOMAIN freed |-> Freeing(rows[freed[i]])]
<1>23. pool' = Calls(p2, free)
  BY <1>1, <1>18, <1>19 DEF FreeRows
<1>24. \A r \in Req : nc[r] = IF r \in decided THEN Greater(numCached[r], FinalTokens(r))
                              ELSE numCached[r]
  BY <1>11, <1>21 DEF Recorded
<1> HIDE DEF nc
<1> DEFINE rw3 == Forgotten(rows, Elements(freed))
           nc3 == Uncached(nc, Elements(freed))
<1>25. BlocksOf(pool', rw3, nc3, left) /\ SameHashes(pool', p2)
  <2>1. free = FreedRows(rows, freed)
    BY DEF FreedRows
  <2> HIDE DEF free
  <2> QED BY <1>13, <1>22, <1>23, <2>1, FreeStage
<1> HIDE DEF free
<1>26. Deferred(left, rw3, parking, deferred')
  <2>1. DOMAIN parking = 1 .. Len(parking) /\ Len(parking) \in Nat
    BY <1>12
  <2>2. \A i \in 1 .. Len(parking) : parking[i] \in Req /\ parking[i] \in defers
    BY <1>12, <2>1 DEF Elements
  <2>3. parked \in Seq(EntryType) /\ Len(parked) = Len(parking)
    <3>1. \A i \in 1 .. Len(parking) :
            [fence |-> fence, blocks |-> rows[parking[i]]] \in EntryType
      BY <1>2, <1>6, <2>2 DEF EntryType, BlocksTyped
    <3> QED BY <2>1, <3>1
  <2>4. \A i \in 1 .. Len(parking) : parked[i].blocks = rw3[parking[i]]
    BY <1>9, <1>13, <2>1, <2>2 DEF Forgotten
  <2> HIDE DEF parked, rw3
  <2>5. left \in Seq(EntryType)
    BY <1>15
  <2>6. /\ deferred' \in Seq(EntryType) /\ Len(deferred') = Len(left) + Len(parked)
        /\ \A i \in 1 .. Len(left) + Len(parked) : deferred'[i] =
             IF i <= Len(left) THEN left[i] ELSE parked[i - Len(left)]
    <3>1. deferred' = left \o parked /\ parked \in Seq(EntryType)
      BY <1>1, <2>3 DEF parked
    <3> QED BY <2>5, <3>1, ConcatProperties
  <2>7. \A i \in 1 .. Len(left) : deferred'[i].blocks = left[i].blocks
    BY <2>3, <2>5, <2>6
  <2>8. \A i \in 1 .. Len(parking) : deferred'[Len(left) + i].blocks = rw3[parking[i]]
    <3> TAKE i \in 1 .. Len(parking)
    <3>1. /\ Len(left) + i \in 1 .. Len(left) + Len(parked)
          /\ ~ (Len(left) + i <= Len(left)) /\ (Len(left) + i) - Len(left) = i
      BY <2>1, <2>3, <2>5
    <3> QED BY <2>4, <2>6, <3>1
  <2> QED BY <2>3, <2>6, <2>7, <2>8 DEF Deferred
<1>27. BlocksOf(pool', Forgotten(rw3, defers), Uncached(nc3, defers), deferred')
  BY <1>12, <1>25, <1>26, DeferStage
<1>28. rows' = Forgotten(rw3, defers) /\ numCached' = Uncached(nc3, defers)
  <2>1. \A r \in Req : rw3[r] = IF r \in stop \ defers THEN << >> ELSE rows[r]
    BY <1>13 DEF Forgotten
  <2>2. \A r \in Req : nc3[r] = IF r \in stop \ defers THEN 0 ELSE nc[r]
    BY <1>13 DEF Uncached
  <2> HIDE DEF rw3, nc3
  <2>3. \A r \in Req : rows'[r] = IF r \in defers THEN << >> ELSE rw3[r]
    BY <1>1, <1>9, <2>1
  <2>4. \A r \in Req : numCached'[r] = IF r \in defers THEN 0 ELSE nc3[r]
    BY <1>1, <1>9, <1>24, <2>2
  <2> QED BY <1>1, <2>3, <2>4 DEF Forgotten, Uncached
<1>29. BlocksInv'
  BY <1>27, <1>28, BlocksInvIs
<1>30. ProcessedHashes(decided)
  <2> HIDE DEF rw3, nc3
  <2> SUFFICES ASSUME NEW b \in Blocks, pool'.hash[b] # pool.hash[b]
               PROVE  \E r \in decided : \E i \in numCached[r] + 1 .. FinalTokens(r) :
                        /\ i \in DOMAIN rows[r] /\ rows[r][i] = b
                        /\ pool'.hash[b] = BlockHash[r][i]
    BY DEF ProcessedHashes
  <2>1. p2.hash[b] # p1.hash[b] /\ pool'.hash[b] = p2.hash[b]
    BY <1>17, <1>25 DEF SameHashes
  <2>2. PICK r \in decided : \E i \in numCached[r] + 1 .. tokens[r] :
          i \in DOMAIN rows[r] /\ rows[r][i] = b /\ p2.hash[b] = BlockHash[r][i]
    BY <1>11, <1>22, <2>1 DEF HashesFrom
  <2>3. tokens[r] = FinalTokens(r)
    BY <1>3, <1>7, <1>21
  <2> QED BY <2>1, <2>2, <2>3
<1> QED BY <1>1, <1>8, <1>29, <1>30 DEF s

\* What a step writes is text.
LEMMA WrittenIsText ==
  ASSUME NEW s, NEW b, NEW before \in Texts
  PROVE  WrittenBy(s, b, before) \in Texts
<1> DEFINE at == {w \in Req \X (1 .. MaxLen) :
                    /\ s.from[w[1]] < w[2] /\ w[2] <= s.to[w[1]]
                    /\ s.row[w[1]][w[2]] = b}
           x == CHOOSE w \in at : TRUE
<1>1. WrittenBy(s, b, before) = IF at = {} THEN before ELSE BlockHash[x[1]][x[2]]
  BY DEF WrittenBy
<1>2. ASSUME at # {}
      PROVE  BlockHash[x[1]][x[2]] \in Keys
  <2>1. x \in at
    BY <1>2
  <2>2. x \in Req \X (1 .. MaxLen)
    BY <2>1
  <2> HIDE DEF x
  <2>3. x[1] \in Req /\ x[2] \in 1 .. MaxLen
    BY <2>2
  <2> QED BY <2>3, TextHashes
<1> HIDE DEF at, x
<1> QED BY <1>1, <1>2 DEF Texts

\* The queues without the requests that end.
LEMMA EndedQueues ==
  ASSUME Typed, IdleQueues, NEW S \in SUBSET Req,
         \A r \in Req : status'[r] = IF r \in S THEN "new" ELSE status[r],
         running' = Drop(running, S), waiting' = Drop(waiting, S),
         skipped' = Drop(skipped, S)
  PROVE  /\ running' \in Seq(Req) /\ waiting' \in Seq(Req) /\ skipped' \in Seq(Req)
         /\ IdleQueues'
<1>1. running \in Seq(Req) /\ waiting \in Seq(Req) /\ skipped \in Seq(Req)
  BY DEF Typed
<1>2. /\ Distinct(running) /\ Distinct(waiting) /\ Distinct(skipped)
      /\ Elements(waiting) \cap Elements(skipped) = {}
      /\ Elements(running) = InStatus("running")
      /\ Elements(waiting) \cup Elements(skipped) = InStatus("waiting") \cup InStatus("loading")
      /\ Elements(waiting) \cap InStatus("loading") = {}
  BY DEF IdleQueues
<1>3. /\ running' \in Seq(Req) /\ Distinct(running')
      /\ Elements(running') = Elements(running) \ S
      /\ waiting' \in Seq(Req) /\ Distinct(waiting')
      /\ Elements(waiting') = Elements(waiting) \ S
      /\ skipped' \in Seq(Req) /\ Distinct(skipped')
      /\ Elements(skipped') = Elements(skipped) \ S
  BY <1>1, <1>2, DropElements
<1>4. /\ InStatus("running")' = InStatus("running") \ S
      /\ InStatus("waiting")' = InStatus("waiting") \ S
      /\ InStatus("loading")' = InStatus("loading") \ S
  BY DEF InStatus
<1> QED BY <1>2, <1>3, <1>4 DEF IdleQueues

LEMMA ProcessKeeps ==
  ASSUME SplitInv, Flying, NEW stop \in SUBSET Req, Process(stop)
  PROVE  SplitInv'
<1> DEFINE s       == Head(steps)
           rest    == Tail(steps)
           sampled == {r \in s.samples : status[r] # "new"}
           decided == {r \in sampled : status[r] = "running"}
<1>1. /\ now.at = "idle" /\ steps # << >> /\ stop \subseteq sampled
      /\ \A r \in sampled : numTokens[r] + 1 >= MaxLen => r \in stop
      /\ content' = [b \in Blocks |-> WrittenBy(s, b, content[b])]
      /\ steps' = rest /\ turn' = FALSE
      /\ numCached' = [r \in Req |->
                         IF r \in stop THEN 0
                         ELSE IF r \in decided THEN Greater(numCached[r], FinalTokens(r))
                         ELSE numCached[r]]
      /\ status' = [r \in Req |-> IF r \in stop THEN "new" ELSE status[r]]
      /\ numTokens' = [r \in Req |-> IF r \in stop THEN PromptLen[r]
                                     ELSE IF r \in sampled THEN numTokens[r] + 1
                                     ELSE numTokens[r]]
      /\ placeholders' = [r \in Req |->
                            IF r \in stop THEN 0
                            ELSE IF r \in sampled THEN Greater(placeholders[r] - 1, 0)
                            ELSE placeholders[r]]
      /\ computed' = [r \in Req |-> IF r \in stop THEN 0 ELSE computed[r]]
      /\ running' = Drop(running, stop) /\ waiting' = Drop(waiting, stop)
      /\ skipped' = Drop(skipped, stop) /\ prefills' = prefills \ stop
  BY DEF Process
<1>2. loads' = loads /\ received' = received /\ now' = now
  BY DEF Process
<1>3. BlocksInv /\ Typed /\ Turns /\ Sizes /\ Owed /\ IdleQueues /\ Steps /\ Transfers
  BY <1>1 DEF SplitInv, Control, Queues
<1>4. /\ BlocksInv' /\ \A r \in Req : r \notin stop => rows'[r] = rows[r]
      /\ \A r \in stop : rows'[r] = << >> /\ numCached'[r] = 0
  BY ProcessBlocks
<1>5. now = Idle /\ now' = Idle
  BY <1>1, <1>2, <1>3 DEF Turns
<1>6. /\ s = steps[1] /\ 1 \in DOMAIN steps /\ IsStep(s)
      /\ rest \in Seq(StepType) /\ Len(rest) = Len(steps) - 1 /\ Len(steps) \in 1 .. 2
      /\ DOMAIN rest = 1 .. Len(steps) - 1
      /\ \A i \in DOMAIN rest : rest[i] = steps[i + 1] /\ i + 1 \in DOMAIN steps /\ i = 1
      /\ s.samples \subseteq Elements(s.order) /\ Elements(s.order) \subseteq Req
  BY <1>1, OldestFacts
\* Who sampled is not loading.
<1>7. \A r \in s.samples : r \in Req /\ status[r] \in {"running", "new", "waiting"}
  <2> TAKE r \in s.samples
  <2>1. r \in Req /\ steps[1].to[r] # 0
    BY <1>6 DEF IsStep
  <2> QED BY <1>6, <2>1 DEF Flying
<1> HIDE DEF s, rest
<1>8. /\ sampled \subseteq Req /\ stop \subseteq sampled
      /\ \A r \in sampled : r \in s.samples /\ status[r] \in {"running", "waiting"}
      /\ \A r \in Req : r \in s.samples /\ r \notin sampled => status[r] = "new"
      /\ decided = {r \in sampled : status[r] = "running"}
  BY <1>1, <1>7
<1> HIDE DEF sampled, decided
<1>9. \A r \in Req :
        /\ SizeOf(r) /\ OwedTo(r) /\ TransferOf(r)
        /\ numTokens[r] \in Nat /\ computed[r] \in Nat /\ placeholders[r] \in Nat
        /\ status[r] \in Statuses /\ PromptLen[r] \in Nat /\ PromptLen[r] >= 2
        /\ PromptLen[r] < MaxLen /\ MaxLen \in Nat
  BY <1>3, TypedFacts, Constants DEF Sizes, Owed, Transfers
<1>10. /\ status' \in [Req -> Statuses] /\ numTokens' \in [Req -> Nat]
       /\ computed' \in [Req -> Nat] /\ placeholders' \in [Req -> Nat]
       /\ content' \in [Blocks -> Texts]
  <2>1. \A b \in Blocks : WrittenBy(s, b, content[b]) \in Texts
    BY <1>3, WrittenIsText DEF Typed
  <2>2. status' \in [Req -> Statuses]
    BY <1>1, <1>9 DEF Statuses
  <2>3. numTokens' \in [Req -> Nat] /\ computed' \in [Req -> Nat]
    BY <1>1, <1>9
  <2>4. placeholders' \in [Req -> Nat]
    BY <1>1, <1>9 DEF Greater
  <2> QED BY <1>1, <2>1, <2>2, <2>3, <2>4
<1>11. /\ running' \in Seq(Req) /\ waiting' \in Seq(Req) /\ skipped' \in Seq(Req)
       /\ IdleQueues'
  <2>1. \A r \in Req : status'[r] = IF r \in stop THEN "new" ELSE status[r]
    BY <1>1
  <2> QED BY <1>1, <1>3, <2>1, EndedQueues
<1>12. Typed'
  <2>1. prefills' \in SUBSET Req /\ turn' \in BOOLEAN
    BY <1>1, <1>3 DEF Typed
  <2> QED BY <1>1, <1>2, <1>3, <1>6, <1>10, <1>11, <2>1 DEF Typed
<1>13. Turns'
  <2>1. Len(steps') < Depth /\ Len(steps') <= Depth
    BY <1>1, <1>3, <1>6, Constants DEF Turns
  <2> QED BY <1>1, <1>5, <2>1, IdleFacts DEF Turns
<1>14. Sizes'
  <2> SUFFICES ASSUME NEW q \in Req
               PROVE  SizeOf(q)'
    BY DEF Sizes
  <2>1. /\ SizeOf(q) /\ now.plan[q] = 0 /\ now'.plan[q] = 0 /\ Elements(now.preempted) = {}
        /\ Elements(now'.preempted) = {} /\ Elements(now.parked) = {}
        /\ Elements(now'.parked) = {}
    BY <1>5, <1>9, IdleFacts
  <2>2. CASE q \in stop
    <3>1. /\ rows'[q] = << >> /\ status'[q] = "new" /\ numTokens'[q] = PromptLen[q]
          /\ computed'[q] = 0 /\ placeholders'[q] = 0 /\ Len(rows'[q]) = 0
      <4>1. status'[q] = "new" /\ numTokens'[q] = PromptLen[q] /\ computed'[q] = 0
            /\ placeholders'[q] = 0
        BY <1>1, <2>2
      <4>2. rows'[q] = << >> /\ Len(<< >>) = 0
        BY <1>4, <2>2
      <4> QED BY <4>1, <4>2
    <3> QED BY <1>9, <2>1, <3>1 DEF SizeOf
  <2>3. CASE q \notin stop
    <3>1. /\ rows'[q] = rows[q] /\ status'[q] = status[q] /\ computed'[q] = computed[q]
          /\ numTokens[q] <= numTokens'[q] /\ numTokens'[q] < MaxLen
          /\ numTokens'[q] \in Nat
      BY <1>1, <1>4, <1>9, <2>1, <2>3 DEF SizeOf
    <3>2. status[q] # "running" => placeholders'[q] = 0
      BY <1>1, <1>9, <2>1, <2>3 DEF SizeOf, Greater
    <3>3. q \in Elements(running') <=> q \in Elements(running)
      BY <1>3, <1>11, <3>1 DEF IdleQueues, InStatus
    <3> QED BY <1>9, <2>1, <3>1, <3>2, <3>3 DEF SizeOf
  <2> QED BY <2>2, <2>3
<1>15. Owed'
  <2> SUFFICES ASSUME NEW q \in Req
               PROVE  OwedTo(q)'
    BY DEF Owed
  <2>1. /\ OwedTo(q) /\ Elements(now.preempted) = {} /\ placeholders[q] \in Nat
        /\ computed[q] \in Nat
    BY <1>5, <1>9, IdleFacts
  <2>2. placeholders[q] <= Sampling(1, q) + Sampling(2, q)
        /\ placeholders[q] <= computed[q] + 1
    BY <2>1 DEF OwedTo
  <2>3. /\ Sampling(1, q)' = Sampling(2, q) /\ Sampling(2, q)' = 0
        /\ Sampling(2, q) \in {0, 1}
        /\ Sampling(1, q) = IF q \in s.samples THEN 1 ELSE 0
    <3>1. 2 \notin DOMAIN steps' /\ (1 \in DOMAIN steps' <=> 2 \in DOMAIN steps)
      BY <1>1, <1>6
    <3>2. 1 \in DOMAIN steps' => steps'[1] = steps[2]
      BY <1>1, <1>6
    <3> QED BY <1>6, <3>1, <3>2 DEF Sampling
  <2>4. q \in s.samples /\ q \notin sampled => placeholders[q] = 0
    BY <1>8, <1>9 DEF SizeOf
  <2>5. CASE q \in stop
    <3>1. placeholders'[q] = 0 /\ computed'[q] = 0
      BY <1>1, <2>5
    <3> QED BY <2>3, <3>1 DEF OwedTo
  <2>6. CASE q \notin stop /\ q \in sampled
    <3>1. placeholders'[q] = Greater(placeholders[q] - 1, 0) /\ computed'[q] = computed[q]
      BY <1>1, <2>6
    <3>2. Sampling(1, q) = 1
      BY <1>8, <2>3, <2>6
    <3> QED BY <2>1, <2>2, <2>3, <3>1, <3>2 DEF OwedTo, Greater
  <2>7. CASE q \notin stop /\ q \notin sampled
    <3>1. placeholders'[q] = placeholders[q] /\ computed'[q] = computed[q]
      BY <1>1, <2>7
    <3> QED BY <2>1, <2>2, <2>3, <2>4, <2>7, <3>1 DEF OwedTo
  <2> QED BY <2>5, <2>6, <2>7
<1>16. Steps'
  <2>1. \A i \in DOMAIN steps' : steps'[i] = steps[i + 1] /\ i + 1 \in DOMAIN steps
    BY <1>1, <1>6
  <2> QED BY <1>3, <2>1 DEF Steps, IsStep
<1>17. Queues' /\ Phases' /\ Probes'
  BY <1>5, <1>11, IdleFacts DEF Queues, Phases, Probes, ProbeOf
<1>18. Transfers'
  <2> SUFFICES ASSUME NEW q \in Req
               PROVE  TransferOf(q)'
    BY DEF Transfers
  <2>1. TransferOf(q) /\ loads'[q] = loads[q] /\ received' = received
    BY <1>2, <1>9
  <2>2. CASE status[q] = "loading"
    <3>1. q \notin sampled /\ q \notin stop
      BY <1>8, <2>2
    <3>2. q \notin decided
      BY <1>8, <3>1
    <3>3. rows'[q] = rows[q] /\ numCached'[q] = numCached[q] /\ status'[q] = status[q]
      BY <1>1, <1>4, <3>1, <3>2
    <3> QED BY <2>1, <3>3 DEF TransferOf
  <2>3. CASE status[q] # "loading"
    BY <2>1, <2>3 DEF TransferOf
  <2> QED BY <2>2, <2>3
<1> QED BY <1>4, <1>12, <1>13, <1>14, <1>15, <1>16, <1>17, <1>18 DEF SplitInv, Control

\* An abort gives the blocks back at once, or defers them behind the steps in
\* flight.
LEMMA AbortBlocks ==
  ASSUME SplitInv, NEW r \in Req, Abort(r)
  PROVE  /\ BlocksInv' /\ rows'[r] = << >> /\ numCached'[r] = 0
         /\ \A q \in Req \ {r} : rows'[q] = rows[q] /\ numCached'[q] = numCached[q]
         /\ \A b \in Blocks : pool'.hash[b] = pool.hash[b]
<1> DEFINE fence == Cardinality({i \in DOMAIN steps : steps[i].order # << >>})
<1>1. /\ ForgetRows({r})
      /\ IF InFlight(r)
         THEN /\ deferred' = Append(deferred, [fence |-> fence, blocks |-> rows[r]])
              /\ pool' = pool
         ELSE pool' = FreeRows(pool, <<r>>) /\ deferred' = deferred
  BY DEF Abort
<1>2. BlocksInv /\ BlocksTyped /\ Typed
  BY DEF SplitInv, Control, BlocksInv
<1>3. fence \in Nat
  <2>1. DOMAIN steps = 1 .. Len(steps) /\ Len(steps) \in Nat
    BY <1>2 DEF Typed
  <2>2. IsFiniteSet(1 .. Len(steps))
    BY <2>1, FS_Interval
  <2>3. IsFiniteSet({i \in DOMAIN steps : steps[i].order # << >>})
    BY <2>1, <2>2, FS_Subset
  <2> QED BY <2>3, FS_CardinalityType
<1> HIDE DEF fence
<1>4. CASE InFlight(r)
  <2> DEFINE t == <<r>>
             e == [fence |-> fence, blocks |-> rows[r]]
  <2>1. t \in Seq(Req) /\ Distinct(t) /\ Elements(t) = {r} /\ Len(t) = 1 /\ t[1] = r
    BY DEF Distinct, Elements
  <2>2. e \in EntryType /\ e.blocks = rows[r]
    BY <1>2, <1>3 DEF EntryType, BlocksTyped
  <2> HIDE DEF t, e
  <2>3. deferred \in Seq(EntryType) /\ deferred' = Append(deferred, e)
    BY <1>1, <1>2, <1>4 DEF BlocksTyped, e
  <2>4. Deferred(deferred, rows, t, deferred')
    <3>1. /\ deferred' \in Seq(EntryType) /\ Len(deferred') = Len(deferred) + 1
          /\ Len(deferred) \in Nat
          /\ \A i \in 1 .. Len(deferred) : deferred'[i] = deferred[i]
          /\ deferred'[Len(deferred) + 1] = e
      BY <2>2, <2>3, AppendProperties
    <3>2. \A i \in 1 .. Len(t) : i = 1
      BY <2>1
    <3>3. Len(deferred') = Len(deferred) + Len(t)
      BY <2>1, <3>1
    <3> QED BY <2>1, <2>2, <3>1, <3>2, <3>3 DEF Deferred
  <2>5. BlocksOf(pool, rows, numCached, deferred)
    BY <1>2, BlocksInvIs
  <2>6. BlocksOf(pool, Forgotten(rows, {r}), Uncached(numCached, {r}), deferred')
    BY <2>1, <2>4, <2>5, DeferStage
  <2>7. rows' = Forgotten(rows, {r}) /\ numCached' = Uncached(numCached, {r})
    BY <1>1 DEF ForgetRows, Forgotten, Uncached
  <2>8. BlocksInv'
    BY <1>1, <1>4, <2>6, <2>7, BlocksInvIs
  <2> QED BY <1>1, <1>4, <2>7, <2>8 DEF Forgotten, Uncached
<1>5. CASE ~ InFlight(r)
  BY <1>1, <1>2, <1>5, FreeOneKeeps
<1> QED BY <1>4, <1>5

LEMMA AbortKeeps ==
  ASSUME SplitInv, NEW r \in Req, Abort(r)
  PROVE  SplitInv'
<1>1. /\ now.at = "idle" /\ status[r] \in {"waiting", "running"}
      /\ status' = [status EXCEPT ![r] = "new"]
      /\ numTokens' = [numTokens EXCEPT ![r] = PromptLen[r]]
      /\ computed' = [computed EXCEPT ![r] = 0]
      /\ placeholders' = [placeholders EXCEPT ![r] = 0]
      /\ running' = Drop(running, {r}) /\ waiting' = Drop(waiting, {r})
      /\ skipped' = Drop(skipped, {r}) /\ prefills' = prefills \ {r}
  BY DEF Abort
<1>2. /\ content' = content /\ loads' = loads /\ received' = received /\ steps' = steps
      /\ turn' = turn /\ now' = now
  BY DEF Abort, deviceVars
<1>3. BlocksInv /\ Typed /\ Turns /\ Sizes /\ Owed /\ IdleQueues /\ Steps /\ Transfers
  BY <1>1 DEF SplitInv, Control, Queues
<1>4. /\ BlocksInv' /\ rows'[r] = << >> /\ numCached'[r] = 0
      /\ \A q \in Req \ {r} : rows'[q] = rows[q] /\ numCached'[q] = numCached[q]
  BY AbortBlocks
<1>5. now = Idle /\ now' = Idle
  BY <1>1, <1>2, <1>3 DEF Turns
<1>6. /\ status'[r] = "new" /\ numTokens'[r] = PromptLen[r] /\ computed'[r] = 0
      /\ placeholders'[r] = 0
      /\ \A q \in Req \ {r} : /\ status'[q] = status[q] /\ numTokens'[q] = numTokens[q]
                              /\ computed'[q] = computed[q]
                              /\ placeholders'[q] = placeholders[q]
  BY <1>1, <1>3 DEF Typed
<1>7. /\ status' \in [Req -> Statuses] /\ numTokens' \in [Req -> Nat]
      /\ computed' \in [Req -> Nat] /\ placeholders' \in [Req -> Nat]
  <2>1. PromptLen[r] \in Nat /\ "new" \in Statuses /\ 0 \in Nat
    BY Constants DEF Statuses
  <2> QED BY <1>1, <1>3, <2>1 DEF Typed
<1>8. /\ running' \in Seq(Req) /\ waiting' \in Seq(Req) /\ skipped' \in Seq(Req)
      /\ IdleQueues'
  <2>1. \A q \in Req : status'[q] = IF q \in {r} THEN "new" ELSE status[q]
    BY <1>6
  <2> QED BY <1>1, <1>3, <2>1, EndedQueues
<1>9. Typed'
  <2>1. prefills' \in SUBSET Req
    BY <1>1, <1>3 DEF Typed
  <2> QED BY <1>2, <1>3, <1>7, <1>8, <2>1 DEF Typed
<1>10. Turns' /\ Steps'
  BY <1>2, <1>3, StepsSame DEF Turns
<1>11. Sizes'
  <2> SUFFICES ASSUME NEW q \in Req
               PROVE  SizeOf(q)'
    BY DEF Sizes
  <2>1. /\ SizeOf(q) /\ now.plan[q] = 0 /\ Elements(now.preempted) = {}
        /\ Elements(now.parked) = {}
    BY <1>3, <1>5, IdleFacts DEF Sizes
  <2>2. CASE q = r
    <3>1. PromptLen[r] \in Nat /\ PromptLen[r] < MaxLen /\ PromptLen[r] >= 2
          /\ MaxLen \in Nat /\ Len(rows'[r]) = 0
      BY <1>4, Constants
    <3> QED BY <1>2, <1>4, <1>6, <2>1, <2>2, <3>1 DEF SizeOf
  <2>3. CASE q # r
    <3>1. /\ rows'[q] = rows[q] /\ status'[q] = status[q] /\ computed'[q] = computed[q]
          /\ numTokens'[q] = numTokens[q] /\ placeholders'[q] = placeholders[q]
      BY <1>4, <1>6, <2>3
    <3>2. q \in Elements(running') <=> q \in Elements(running)
      BY <1>3, <1>8, <3>1 DEF IdleQueues, InStatus
    <3> QED BY <1>2, <2>1, <3>1, <3>2 DEF SizeOf
  <2> QED BY <2>2, <2>3
<1>12. Owed'
  <2> SUFFICES ASSUME NEW q \in Req
               PROVE  OwedTo(q)'
    BY DEF Owed
  <2>1. OwedTo(q) /\ Sampling(1, q)' = Sampling(1, q) /\ Sampling(2, q)' = Sampling(2, q)
    BY <1>2, <1>3 DEF Owed, Sampling
  <2>2. Sampling(1, q) \in {0, 1} /\ Sampling(2, q) \in {0, 1}
    BY DEF Sampling
  <2>3. CASE q = r
    BY <1>6, <2>1, <2>2, <2>3 DEF OwedTo
  <2>4. CASE q # r
    BY <1>2, <1>6, <2>1, <2>4 DEF OwedTo
  <2> QED BY <2>3, <2>4
<1>13. Queues' /\ Phases' /\ Probes'
  BY <1>5, <1>8, IdleFacts DEF Queues, Phases, Probes, ProbeOf
<1>14. Transfers'
  <2> SUFFICES ASSUME NEW q \in Req
               PROVE  TransferOf(q)'
    BY DEF Transfers
  <2>1. TransferOf(q)
    BY <1>3 DEF Transfers
  <2>2. CASE q = r
    BY <1>1, <1>2, <2>1, <2>2 DEF TransferOf
  <2>3. CASE q # r
    BY <1>2, <1>4, <1>6, <2>1, <2>3 DEF TransferOf
  <2> QED BY <2>2, <2>3
<1> QED BY <1>4, <1>9, <1>10, <1>11, <1>12, <1>13, <1>14 DEF SplitInv, Control
------------------------------------------------------------------------------
(***************************************************************************)
(* Every step of the specification keeps the invariant.                    *)
(***************************************************************************)

LEMMA ArriveFlies ==
  ASSUME SplitInv, Flying, NEW r \in Req, Arrive(r)
  PROVE  Flying'
<1>1. /\ ~ InFlight(r) /\ status' = [status EXCEPT ![r] = "waiting"]
      /\ steps' = steps /\ turn' = turn
  BY DEF Arrive, deviceVars
<1>2. status \in [Req -> Statuses]
  BY DEF SplitInv, Control, Typed
<1>3. \A q \in Req \ {r} : status'[q] = status[q]
  BY <1>1, <1>2
<1> QED BY <1>1, <1>3 DEF Flying, InFlight

LEMMA ScheduleFlies ==
  ASSUME SplitInv, Flying, Schedule
  PROVE  Flying'
<1>1. /\ status' = [r \in Req |-> IF r \in Promotable THEN "waiting" ELSE status[r]]
      /\ steps' = steps /\ turn' = turn
  BY DEF Schedule
<1>2. \A r \in Promotable : r \in received
  BY DEF Promotable
<1>3. \A r \in Req : r \in received => status[r] = "loading"
  BY DEF SplitInv, Control, Transfers, TransferOf
<1>4. ASSUME NEW i \in DOMAIN steps, NEW r \in Req, steps[i].to[r] # 0
      PROVE  status'[r] = status[r]
  <2>1. status[r] # "loading"
    BY <1>4 DEF Flying
  <2> QED BY <1>1, <1>2, <1>3, <2>1
<1> QED BY <1>1, <1>4 DEF Flying

LEMMA FinishFlies ==
  ASSUME SplitInv, Flying, Finish
  PROVE  Flying'
<1> DEFINE gone == Elements(now.preempted)
           parked == Elements(now.parked)
<1>1. /\ now.at = "waiting" /\ now.at # "idle"
      /\ status' = [r \in Req |->
                      IF r \in gone THEN "waiting"
                      ELSE IF r \in parked THEN "loading"
                      ELSE IF r \in Elements(running) THEN "running"
                      ELSE status[r]]
      /\ steps' = Append(steps, ThisStep)
      /\ turn' = (Scheduled = {} \/ Len(steps) + 1 = Depth)
  BY DEF Finish
<1>2. Typed /\ Turns /\ StepQueues
  BY <1>1 DEF SplitInv, Control, Queues
<1>3. ~ turn /\ Len(steps) < Depth /\ Depth \in 1 .. 2 /\ steps \in Seq(StepType)
  BY <1>1, <1>2, Constants DEF Turns, Typed
<1>4. ThisStep \in StepType /\ \A r \in Req : ThisStep.to[r] # 0 => r \in Elements(running)
  <2>1. Scheduled \subseteq Elements(running)
    BY <1>1, ScheduledFacts
  <2>2. \A r \in Req : ThisStep.to[r] # 0 => r \in Scheduled
    BY DEF ThisStep
  <2> QED BY <1>1, <2>1, <2>2, ThisStepIsStep
<1>5. /\ Len(steps') = Len(steps) + 1 /\ Len(steps) \in Nat
      /\ \A i \in 1 .. Len(steps) : steps'[i] = steps[i]
      /\ steps'[Len(steps) + 1] = ThisStep
      /\ DOMAIN steps' = 1 .. Len(steps) + 1 /\ DOMAIN steps = 1 .. Len(steps)
  BY <1>1, <1>3, <1>4, AppendProperties
<1>6. /\ gone \cap Elements(running) = {} /\ parked \cap Elements(running) = {}
      /\ \A r \in gone : r \in Req /\ status[r] = "running"
      /\ \A r \in parked : r \in Req /\ status[r] = "waiting"
      /\ \A r \in Elements(running) : r \in Req /\ status[r] \in {"running", "waiting"}
  <2>1. now.preempted \in Seq(Req) /\ now.parked \in Seq(Req) /\ running \in Seq(Req)
    BY <1>2, TypedFacts DEF Typed
  <2>2. gone \subseteq Req /\ parked \subseteq Req /\ Elements(running) \subseteq Req
    BY <2>1 DEF Elements
  <2> QED BY <1>2, <2>2 DEF StepQueues, Apart
<1> HIDE DEF gone, parked
<1>7. SUFFICES ASSUME NEW i \in DOMAIN steps', NEW r \in Req, steps'[i].to[r] # 0
               PROVE  \/ status'[r] \in {"running", "new"}
                      \/ status'[r] = "waiting" /\ turn' /\ i = 1
  BY DEF Flying
<1>8. CASE i = Len(steps) + 1
  <2>1. r \in Elements(running)
    BY <1>4, <1>5, <1>7, <1>8
  <2> QED BY <1>1, <1>6, <2>1
<1>9. CASE i # Len(steps) + 1
  <2>1. i \in 1 .. Len(steps) /\ i \in DOMAIN steps /\ steps'[i] = steps[i]
    BY <1>5, <1>9
  <2>2. status[r] \in {"running", "new"}
    BY <1>3, <1>7, <2>1 DEF Flying
  <2>3. Len(steps) = 1 /\ Depth = 2 /\ i = 1
    BY <1>3, <1>5, <2>1
  <2>4. turn'
    <3>1. turn' = (Scheduled = {} \/ Len(steps) + 1 = Depth)
      BY <1>1
    <3>2. Len(steps) + 1 = Depth
      BY <2>3
    <3> QED BY <3>1, <3>2
  <2> QED BY <1>1, <1>6, <2>2, <2>3, <2>4
<1> QED BY <1>5, <1>8, <1>9

LEMMA ProcessFlies ==
  ASSUME SplitInv, Flying, NEW stop \in SUBSET Req, Process(stop)
  PROVE  Flying'
<1>1. /\ now.at = "idle" /\ steps # << >> /\ steps' = Tail(steps)
      /\ status' = [r \in Req |-> IF r \in stop THEN "new" ELSE status[r]]
  BY DEF Process
<1>2. \A i \in DOMAIN steps' : steps'[i] = steps[i + 1] /\ i + 1 \in DOMAIN steps /\ i = 1
  BY <1>1, OldestFacts
<1>3. ASSUME NEW i \in DOMAIN steps', NEW r \in Req, steps'[i].to[r] # 0
      PROVE  status'[r] \in {"running", "new"}
  <2>1. i + 1 \in DOMAIN steps /\ steps[i + 1].to[r] # 0 /\ i + 1 # 1
    BY <1>2, <1>3
  <2>2. status[r] \in {"running", "new"}
    BY <2>1 DEF Flying
  <2> QED BY <1>1, <2>2
<1> QED BY <1>3 DEF Flying

LEMMA AbortFlies ==
  ASSUME SplitInv, Flying, NEW r \in Req, Abort(r)
  PROVE  Flying'
<1>1. /\ status' = [status EXCEPT ![r] = "new"] /\ steps' = steps /\ turn' = turn
  BY DEF Abort, deviceVars
<1>2. status \in [Req -> Statuses]
  BY DEF SplitInv, Control, Typed
<1>3. status'[r] = "new" /\ \A q \in Req \ {r} : status'[q] = status[q]
  BY <1>1, <1>2
<1> QED BY <1>1, <1>3 DEF Flying

\* A step of nobody.
LEMMA NothingKeeps ==
  ASSUME SplitInv, Flying, UNCHANGED vars
  PROVE  SplitInv' /\ Flying'
<1>1. /\ pool' = pool /\ rows' = rows /\ numCached' = numCached /\ deferred' = deferred
      /\ content' = content /\ loads' = loads /\ received' = received /\ steps' = steps
      /\ status' = status /\ numTokens' = numTokens /\ computed' = computed
      /\ placeholders' = placeholders /\ running' = running /\ waiting' = waiting
      /\ skipped' = skipped /\ prefills' = prefills /\ turn' = turn /\ now' = now
  BY DEF vars, kvVars, reqVars, queueVars, deviceVars
<1>2. BlocksInv /\ Typed /\ Turns /\ Sizes /\ Owed /\ Queues /\ Phases /\ Probes
      /\ Steps /\ Transfers
  BY DEF SplitInv, Control
<1>3. BlocksInv' /\ Steps' /\ Owed' /\ Transfers' /\ Flying'
  BY <1>1, <1>2, BlocksSame, StepsSame, OwedSame, TransfersSame, FlyingSame
<1>4. Typed' /\ Turns'
  BY <1>1, <1>2 DEF Typed, Turns
<1>5. Sizes'
  BY <1>1, <1>2 DEF Sizes, SizeOf
<1>6. Queues' /\ Phases' /\ Probes'
  BY <1>1, <1>2 DEF Queues, IdleQueues, StepQueues, InStatus, Phases, Probes, ProbeOf
<1> QED BY <1>3, <1>4, <1>5, <1>6 DEF SplitInv, Control

\* One action after the other.
LEMMA SplitInvInit == Init => SplitInv /\ Flying
<1> SUFFICES ASSUME Init
             PROVE  SplitInv /\ Flying
  OBVIOUS
<1>1. SplitInv
  BY InitHolds
<1>2. steps = << >>
  BY DEF Init
<1>3. DOMAIN steps = {}
  BY <1>2
<1> QED BY <1>1, <1>3 DEF Flying

LEMMA SplitInvStep == SplitInv /\ Flying /\ [Next]_vars => SplitInv' /\ Flying'
<1> SUFFICES ASSUME SplitInv, Flying, [Next]_vars
             PROVE  SplitInv' /\ Flying'
  OBVIOUS
<1>1. CASE Schedule
  BY <1>1, ScheduleKeeps, ScheduleFlies
<1>2. CASE ScheduleRunning
  <2>1. steps' = steps /\ status' = status /\ turn' = turn
    BY <1>2 DEF ScheduleRunning, reqVars, deviceVars
  <2> QED BY <1>2, <2>1, ScheduleRunningKeeps, FlyingSame
<1>3. CASE Preempt
  <2>1. steps' = steps /\ status' = status /\ turn' = turn
    BY <1>3 DEF Preempt, reqVars, deviceVars
  <2> QED BY <1>3, <2>1, PreemptKeeps, FlyingSame
<1>4. CASE AskConnector
  <2>1. steps' = steps /\ status' = status /\ turn' = turn
    BY <1>4 DEF AskConnector, reqVars, deviceVars
  <2> QED BY <1>4, <2>1, AskConnectorKeeps, FlyingSame
<1>5. CASE SkipProbe
  <2>1. steps' = steps /\ status' = status /\ turn' = turn
    BY <1>5 DEF SkipProbe, reqVars, deviceVars
  <2> QED BY <1>5, <2>1, SkipProbeKeeps, FlyingSame
<1>6. CASE AskForOne
  <2>1. steps' = steps /\ status' = status /\ turn' = turn
    BY <1>6 DEF AskForOne, reqVars, deviceVars
  <2> QED BY <1>6, <2>1, AskForOneKeeps, FlyingSame
<1>7. CASE TurnAway
  <2>1. steps' = steps /\ status' = status /\ turn' = turn
    BY <1>7 DEF TurnAway, reqVars, deviceVars
  <2> QED BY <1>7, <2>1, TurnAwayKeeps, FlyingSame
<1>8. CASE Park
  <2>1. steps' = steps /\ status' = status /\ turn' = turn
    BY <1>8 DEF Park, reqVars, deviceVars
  <2> QED BY <1>8, <2>1, ParkKeeps, FlyingSame
<1>9. CASE Admit
  <2>1. steps' = steps /\ status' = status /\ turn' = turn
    BY <1>9 DEF Admit, deviceVars
  <2> QED BY <1>9, <2>1, AdmitKeeps, FlyingSame
<1>10. CASE Finish
  BY <1>10, FinishKeeps, FinishFlies
<1>11. ASSUME NEW stop \in SUBSET Req, Process(stop)
       PROVE  SplitInv' /\ Flying'
  BY <1>11, ProcessKeeps, ProcessFlies
<1>12. ASSUME NEW r \in Req, Arrive(r)
       PROVE  SplitInv' /\ Flying'
  BY <1>12, ArriveKeeps, ArriveFlies
<1>13. ASSUME NEW r \in Req, Land(r)
       PROVE  SplitInv' /\ Flying'
  <2>1. steps' = steps /\ status' = status /\ turn' = turn
    BY <1>13 DEF Land, reqVars
  <2> QED BY <1>13, <2>1, LandKeeps, FlyingSame
<1>14. ASSUME NEW r \in Req, Abort(r)
       PROVE  SplitInv' /\ Flying'
  BY <1>14, AbortKeeps, AbortFlies
<1>15. CASE UNCHANGED vars
  BY <1>15, NothingKeeps
<1> QED BY <1>1, <1>2, <1>3, <1>4, <1>5, <1>6, <1>7, <1>8, <1>9, <1>10, <1>11, <1>12,
           <1>13, <1>14, <1>15 DEF Next, Engine

\* The invariant holds in every state of the specification.
THEOREM SplitInvHolds == Spec => [](SplitInv /\ Flying)
<1>1. Init => SplitInv /\ Flying
  BY SplitInvInit
<1>2. SplitInv /\ Flying /\ [Next]_vars => (SplitInv /\ Flying)'
  BY SplitInvStep
<1> QED BY <1>1, <1>2, PTL DEF Spec
------------------------------------------------------------------------------
(***************************************************************************)
(* What the invariant gives.                                               *)
(***************************************************************************)

LEMMA InvTypeOK ==
  ASSUME SplitInv
  PROVE  TypeOK
<1>1. BlocksInv /\ BlocksTyped /\ Lengths /\ Typed /\ Turns /\ Sizes /\ Owed /\ Transfers
  BY DEF SplitInv, Control, BlocksInv
<1>2. /\ Len(steps) \in Nat /\ Len(steps) <= Depth /\ DOMAIN steps = 1 .. Len(steps)
      /\ Depth \in 1 .. 2
  BY <1>1, Constants DEF Typed, Turns
<1>3. ASSUME NEW r \in Req
      PROVE  /\ numTokens[r] \in PromptLen[r] .. MaxLen
             /\ numCached[r] \in 0 .. Len(rows[r])
             /\ computed[r] \in 0 .. MaxLen
             /\ placeholders[r] \in 0 .. Depth
             /\ loads[r].from \in 0 .. MaxLen
  <2>1. /\ SizeOf(r) /\ OwedTo(r) /\ TransferOf(r) /\ numTokens[r] \in Nat
        /\ computed[r] \in Nat /\ placeholders[r] \in Nat /\ PromptLen[r] \in Nat
        /\ MaxLen \in Nat /\ numCached[r] \in Nat /\ Len(rows[r]) \in Nat
        /\ numCached[r] <= Len(rows[r]) /\ Len(rows[r]) < MaxLen
    BY <1>1, TypedFacts, Constants
       DEF Sizes, Owed, Transfers, BlocksTyped, Lengths
  <2>2. Sampling(1, r) + Sampling(2, r) <= Len(steps)
    <3>1. Sampling(1, r) \in {0, 1} /\ Sampling(2, r) \in {0, 1}
      BY DEF Sampling
    <3>2. Len(steps) < 1 => Sampling(1, r) = 0
      BY <1>2 DEF Sampling
    <3>3. Len(steps) < 2 => Sampling(2, r) = 0
      BY <1>2 DEF Sampling
    <3> QED BY <1>2, <3>1, <3>2, <3>3
  <2>3. placeholders[r] \in 0 .. Depth
    <3>1. Sampling(1, r) \in {0, 1} /\ Sampling(2, r) \in {0, 1}
      BY DEF Sampling
    <3> QED BY <1>2, <2>1, <2>2, <3>1 DEF OwedTo
  <2>4. loads[r].from \in 0 .. MaxLen
    <3>1. loads[r] # NoLoad => loads[r].from = numCached[r] + 1
      BY <2>1 DEF TransferOf
    <3>2. NoLoad.from = 0
      BY DEF NoLoad
    <3> QED BY <2>1, <3>1, <3>2
  <2> QED BY <2>1, <2>3, <2>4 DEF SizeOf
<1>4. now.at \in {"idle", "running", "waiting"}
  BY <1>1 DEF Typed, NowType
<1> QED BY <1>1, <1>2, <1>3, <1>4 DEF TypeOK, Typed, BlocksTyped, Statuses

LEMMA InvQueued ==
  ASSUME SplitInv
  PROVE  EveryRequestQueued
<1> SUFFICES ASSUME now.at = "idle"
             PROVE  /\ Distinct(running \o waiting \o skipped)
                    /\ Elements(running) = {r \in Req : status[r] = "running"}
                    /\ \A r \in Req : /\ status[r] = "waiting" =>
                                           r \in Elements(waiting) \cup Elements(skipped)
                                      /\ status[r] = "loading" => r \in Elements(skipped)
  BY DEF EveryRequestQueued
<1>1. IdleQueues /\ running \in Seq(Req) /\ waiting \in Seq(Req) /\ skipped \in Seq(Req)
  BY DEF SplitInv, Control, Queues, Typed
<1>2. /\ Distinct(running) /\ Distinct(waiting) /\ Distinct(skipped)
      /\ Elements(waiting) \cap Elements(skipped) = {}
      /\ Elements(running) \cap (Elements(waiting) \cup Elements(skipped)) = {}
  BY <1>1 DEF IdleQueues, InStatus
<1>3. /\ running \o waiting \in Seq(Req) /\ Distinct(running \o waiting)
      /\ Elements(running \o waiting) = Elements(running) \cup Elements(waiting)
  BY <1>1, <1>2, ConcatElements
<1>4. Distinct((running \o waiting) \o skipped)
  <2>1. Elements(running \o waiting) \cap Elements(skipped) = {}
    BY <1>2, <1>3
  <2> HIDE DEF Elements, Distinct
  <2> QED BY <1>1, <1>2, <1>3, <2>1, ConcatElements
<1> QED BY <1>1, <1>4 DEF IdleQueues, InStatus

\* A table without a block twice counts a block once or not at all.
LEMMA CountInRow ==
  ASSUME NEW row \in Seq(Blocks), Distinct(row), NEW b
  PROVE  Count(row, b) = IF b \in Elements(row) THEN 1 ELSE 0
<1> DEFINE at == {i \in DOMAIN row : row[i] = b}
<1>1. CASE b \in Elements(row)
  <2>1. PICK i \in DOMAIN row : row[i] = b
    BY <1>1 DEF Elements
  <2>2. at = {i}
    BY <2>1 DEF Distinct
  <2> QED BY <1>1, <2>2, FS_Singleton DEF Count
<1>2. CASE b \notin Elements(row)
  <2>1. at = {}
    BY <1>2 DEF Elements
  <2> QED BY <1>2, <2>1, FS_EmptySet DEF Count
<1> QED BY <1>1, <1>2

LEMMA EntryFacts ==
  ASSUME BlocksTyped, NEW i \in DOMAIN deferred
  PROVE  deferred[i].fence \in Int /\ deferred[i].blocks \in Seq(Blocks)
<1>1. deferred[i] \in EntryType
  BY DEF BlocksTyped
<1>2. \A e \in EntryType : e.fence \in Int /\ e.blocks \in Seq(Blocks)
  BY DEF EntryType
<1> QED BY <1>1, <1>2

LEMMA InvAccounted ==
  ASSUME SplitInv
  PROVE  BlocksAccountedFor
<1> SUFFICES ASSUME NEW b \in RealBlocks
             PROVE  pool.ref[b] =
                      SumFunction([r \in Req |-> Count(rows[r], b)])
                        + SumFunction([i \in DOMAIN deferred |-> Count(deferred[i].blocks, b)])
  BY DEF BlocksAccountedFor
<1>1. BlocksTyped /\ Rows /\ Refs
  BY DEF SplitInv, BlocksInv
<1> DEFINE f == [r \in Req |-> Count(rows[r], b)]
           g == [i \in DOMAIN deferred |-> Count(deferred[i].blocks, b)]
<1>2. f = [r \in Req |-> IF r \in Holders(b) THEN 1 ELSE 0]
  <2>1. \A r \in Req : Count(rows[r], b) = IF r \in Holders(b) THEN 1 ELSE 0
    BY <1>1, CountInRow DEF Rows, IsRow, BlocksTyped, Holders
  <2> QED BY <2>1
<1>3. g = [i \in DOMAIN deferred |-> IF i \in Deferrers(b) THEN 1 ELSE 0]
  <2>1. \A i \in DOMAIN deferred :
          deferred[i].blocks \in Seq(Blocks) /\ Distinct(deferred[i].blocks)
    <3>1. \A i \in DOMAIN deferred : deferred[i].blocks \in Seq(Blocks)
      BY <1>1, EntryFacts
    <3>2. \A i \in DOMAIN deferred : Distinct(deferred[i].blocks)
      BY <1>1 DEF Rows, IsRow
    <3> QED BY <3>1, <3>2
  <2>2. \A i \in DOMAIN deferred :
          Count(deferred[i].blocks, b) = IF i \in Deferrers(b) THEN 1 ELSE 0
    BY <2>1, CountInRow DEF Deferrers
  <2> QED BY <2>2
<1>4. IsFiniteSet(Req) /\ IsFiniteSet(DOMAIN deferred)
  <2>1. Len(deferred) \in Nat /\ DOMAIN deferred = 1 .. Len(deferred)
    BY <1>1 DEF BlocksTyped
  <2> QED BY <2>1, Constants, FS_Interval
<1> HIDE DEF f, g
<1>5. SumFunction(f) = Cardinality({r \in Req : r \in Holders(b)})
  BY <1>2, <1>4, SumOfOnes
<1>6. SumFunction(g) = Cardinality({i \in DOMAIN deferred : i \in Deferrers(b)})
  BY <1>3, <1>4, SumOfOnes
<1>7. {r \in Req : r \in Holders(b)} = Holders(b)
      /\ {i \in DOMAIN deferred : i \in Deferrers(b)} = Deferrers(b)
  BY DEF Holders, Deferrers
<1> QED BY <1>1, <1>5, <1>6, <1>7 DEF Refs, f, g

\* Each request is in its queue, once, and each reference of a block is that
\* of a table or of an entry behind the fence, whatever is parked, handed back,
\* preempted, aborted or still in flight.
THEOREM IsConsistent == Spec => []Consistent
<1>1. SplitInv /\ Flying => Consistent
  BY InvTypeOK, InvQueued, InvAccounted DEF Consistent
<1> QED BY <1>1, SplitInvHolds, PTL

\* A transfer fills the table exactly from the end of the hit the connector was
\* told: the hit is the one the table begins with, and it is published.
LEMMA InvLoadsStart ==
  ASSUME SplitInv
  PROVE  LoadsStartAfterTheHit
<1>1. BlocksTyped /\ Lengths /\ Typed /\ Sizes /\ Transfers
  BY DEF SplitInv, Control, BlocksInv
<1> SUFFICES ASSUME NEW r \in Req, loads[r] # NoLoad
             PROVE  /\ loads[r].from = numCached[r] + 1
                    /\ Len(loads[r].blocks) = computed[r] - numCached[r]
  BY DEF LoadsStartAfterTheHit
<1>2. /\ status[r] = "loading" /\ loads[r].from = numCached[r] + 1
      /\ loads[r].blocks = SubSeq(rows[r], numCached[r] + 1, Len(rows[r]))
      /\ computed[r] = Len(rows[r])
  BY <1>1 DEF Transfers, TransferOf, Sizes, SizeOf
<1>3. /\ rows[r] \in Seq(Blocks) /\ numCached[r] \in Nat /\ numCached[r] <= Len(rows[r])
      /\ Len(rows[r]) \in Nat
  BY <1>1 DEF BlocksTyped, Lengths
<1>4. Len(SubSeq(rows[r], numCached[r] + 1, Len(rows[r]))) = Len(rows[r]) - numCached[r]
  <2>1. \A i \in numCached[r] + 1 .. Len(rows[r]) : rows[r][i] \in Blocks
    BY <1>3
  <2>2. numCached[r] + 1 \in Int /\ Len(rows[r]) \in Int
    BY <1>3
  <2>3. Len(SubSeq(rows[r], numCached[r] + 1, Len(rows[r]))) =
          IF numCached[r] + 1 <= Len(rows[r]) THEN Len(rows[r]) - (numCached[r] + 1) + 1 ELSE 0
    BY <2>1, <2>2, SubSeqProperties
  <2> QED BY <1>3, <2>3
<1> QED BY <1>2, <1>3, <1>4

\* See InvLoadsStart: for every pool, text and answer of the connector.
THEOREM LoadsStartThere == Spec => []LoadsStartAfterTheHit
<1>1. SplitInv /\ Flying => LoadsStartAfterTheHit
  BY InvLoadsStart
<1> QED BY <1>1, SplitInvHolds, PTL
------------------------------------------------------------------------------
(***************************************************************************)
(* What schedule() does to the tables, in one form for its three actions   *)
(* that allocate.                                                          *)
(***************************************************************************)

GrewBy(r, hit, upTo) ==
  IsHit(r, hit) /\ \E new : Fresh(new, hit) /\ Grows(r, hit, new, upTo)

\* Nobody's blocks are lost by it.
LEMMA GrewKeepsBlocks ==
  ASSUME BlocksInv, NEW r \in Req, NEW hit, NEW upTo, GrewBy(r, hit, upTo)
  PROVE  \A q \in Req : Elements(rows[q]) \subseteq Elements(rows'[q])
<1>1. PICK new : Fresh(new, hit) /\ Grows(r, hit, new, upTo)
  BY DEF GrewBy
<1>2. BlocksTyped /\ Rows /\ rows \in [Req -> Seq(Blocks)] /\ IsHit(r, hit)
  BY DEF BlocksInv, BlocksTyped, GrewBy
<1> DEFINE row == rows[r] \o hit \o new
<1>3. GrownRow(r, hit, new, row)
  BY <1>1, <1>2, RowGrows
<1>4. rows' = [rows EXCEPT ![r] = row]
  BY <1>1 DEF Grows
<1> HIDE DEF row
<1>5. rows'[r] = row /\ \A q \in Req \ {r} : rows'[q] = rows[q]
  BY <1>2, <1>4
<1> QED BY <1>3, <1>5 DEF GrownRow

\* The running loop: r has a plan of n tokens now.
LEMMA RunningGrew ==
  ASSUME SplitInv, ScheduleRunning
  PROVE  LET r == running[now.pos]
             n == Work(r)
         IN  /\ r \in Req /\ r \in Elements(running) /\ status[r] = "running"
             /\ r \notin Elements(now.preempted) /\ now.plan[r] = 0 /\ n \in Nat
             /\ computed[r] + n < MaxLen
             /\ now'.plan = [now.plan EXCEPT ![r] = n] /\ now'.preempted = now.preempted
             /\ \/ n = 0 /\ pool' = pool /\ rows' = rows /\ numCached' = numCached
                \/ n > 0 /\ GrewBy(r, << >>, CacheUpTo(r, computed[r] + n, FALSE))
<1> DEFINE r == running[now.pos]
           n == Work(r)
<1>1. /\ Looping /\ deferred' = deferred
      /\ now' = [now EXCEPT !.pos = @ + 1, !.budget = @ - n, !.plan[r] = n]
      /\ \/ n = 0 /\ UNCHANGED kvVars
         \/ /\ n > 0 /\ Fits(r, << >>, computed[r] + n, 0, 0)
            /\ AllocateSlots(r, << >>, computed[r] + n, FALSE)
  BY DEF ScheduleRunning
<1>2. BlocksInv /\ Typed /\ Sizes
  BY DEF SplitInv, Control
<1>3. /\ r \in Req /\ r \in Elements(running) /\ status[r] = "running"
      /\ r \notin Elements(now.preempted) /\ now.plan[r] = 0 /\ now \in NowType
  BY <1>1, LoopFacts
<1> HIDE DEF r
<1>4. computed[r] \in Nat /\ numTokens[r] \in Nat /\ computed[r] < MaxLen
  BY <1>2, <1>3, TypedFacts DEF Sizes, SizeOf
<1>5. n \in Nat /\ computed[r] + n < MaxLen
  BY <1>2, <1>3, <1>4, WorkType
<1> HIDE DEF n
<1>6. now'.plan = [now.plan EXCEPT ![r] = n] /\ now'.preempted = now.preempted
  BY <1>1, <1>3 DEF NowType
<1>7. ASSUME n > 0, Fits(r, << >>, computed[r] + n, 0, 0),
             AllocateSlots(r, << >>, computed[r] + n, FALSE)
      PROVE  GrewBy(r, << >>, CacheUpTo(r, computed[r] + n, FALSE))
  <2> DEFINE target == computed[r] + n
  <2>1. target \in Nat /\ target < MaxLen /\ r \in Req /\ numTokens[r] \in Nat
    BY <1>3, <1>4, <1>5
  <2>2. IsHit(r, << >>)
    BY <1>2, <1>3, NoHit DEF BlocksInv
  <2>3. Fits(r, << >>, target, 0, 0) /\ AllocateSlots(r, << >>, target, FALSE)
    BY <1>7
  <2> HIDE DEF target
  <2>4. \E new : Fresh(new, << >>) /\ Grows(r, << >>, new, CacheUpTo(r, target, FALSE))
    BY <1>1, <1>2, <2>1, <2>2, <2>3, AllocateKeeps
  <2>5. GrewBy(r, << >>, CacheUpTo(r, target, FALSE))
    BY <2>1, <2>2, <2>4 DEF GrewBy
  <2> QED BY <2>5 DEF target
<1> QED BY <1>1, <1>3, <1>5, <1>6, <1>7 DEF r, n, kvVars

\* The parked arm: nothing is published.
LEMMA ParkGrew ==
  ASSUME SplitInv, Park
  PROVE  /\ CandidateIs(Candidate)
         /\ \E hit : GrewBy(Candidate, hit, 0)
         /\ computed[Candidate] = 0
         /\ now'.plan = now.plan /\ now'.preempted = now.preempted
<1> DEFINE r == Candidate
           hit == LocalHit(r)
           target == ParkedTarget(r)
           more == ReservedBy(r)
<1>1. /\ WaitingArm /\ Asked(r) /\ ~ TurnedAway(r) /\ now.ext[r] > 0 /\ deferred' = deferred
      /\ Fits(r, hit, target, Admission, now.reserved)
      /\ AllocateSlots(r, hit, target, TRUE)
      /\ now' = [now EXCEPT !.cand = Tail(@), !.parked = Append(@, r),
                            !.reserved = @ + more]
  BY DEF Park
<1>2. BlocksInv /\ Typed /\ Sizes /\ Probes
  BY DEF SplitInv, Control
<1>3. CandidateIs(r)
  BY <1>1, CandidateFacts
<1>4. ~ Stale(r)
  BY <1>1 DEF TurnedAway
<1>5. /\ r \in Req /\ r \in now.probed /\ computed[r] = 0
      /\ now.ext[r] \in Nat /\ now.reserved \in Nat
      /\ numTokens[r] \in Nat /\ numTokens[r] < MaxLen
      /\ now.ext[r] + Len(now.probe[r]) <= numTokens[r]
  BY <1>1, <1>2, <1>3, TypedFacts DEF CandidateIs, Probes, ProbeOf, Sizes, SizeOf
<1>6. /\ IsHit(r, hit) /\ Len(hit) \in Nat /\ hit = now.probe[r]
  BY <1>1, <1>4, <1>5, LocalHitIs
<1>7. target = Len(hit) + now.ext[r]
  BY DEF ParkedTarget
<1> HIDE DEF r, hit, target, more
<1>8. target \in Nat /\ target < MaxLen
  BY <1>5, <1>6, <1>7, Constants
<1>9. \E new : Fresh(new, hit) /\ Grows(r, hit, new, CacheUpTo(r, target, TRUE))
  BY <1>1, <1>2, <1>5, <1>6, <1>8, AdmissionType, AllocateKeeps
<1>10. GrewBy(r, hit, 0)
  BY <1>6, <1>9 DEF GrewBy, CacheUpTo
<1>11. now'.plan = now.plan /\ now'.preempted = now.preempted
  BY <1>1, <1>3 DEF CandidateIs, NowType
<1> QED BY <1>3, <1>5, <1>10, <1>11 DEF r

\* The ordinary arm: r is planned behind what it has or hits.
LEMMA AdmitGrew ==
  ASSUME SplitInv, Admit
  PROVE  LET r == Candidate
             n == Chunk(numTokens[r] - Base(r))
         IN  /\ CandidateIs(r) /\ n \in Nat /\ Base(r) \in Nat /\ Base(r) + n < MaxLen
             /\ now'.plan = [now.plan EXCEPT ![r] = n] /\ now'.preempted = now.preempted
             /\ computed' = [computed EXCEPT ![r] = Base(r)]
             /\ running' = Append(running, r)
             /\ \E hit : /\ GrewBy(r, hit, CacheUpTo(r, Base(r) + n, FALSE))
                         /\ \/ hit = << >> /\ Base(r) = computed[r]
                            \/ rows[r] = << >> /\ Base(r) = Len(hit)
<1> DEFINE r == Candidate
           hit == LocalHit(r)
           base == Base(r)
           n == Chunk(numTokens[r] - Base(r))
<1>1. /\ WaitingArm /\ Asked(r) /\ now.ext[r] = 0 /\ deferred' = deferred
      /\ Fits(r, hit, base + n, Admission, 0)
      /\ AllocateSlots(r, hit, base + n, FALSE)
      /\ computed' = [computed EXCEPT ![r] = base]
      /\ running' = Append(running, r)
      /\ now' = [now EXCEPT !.cand = Tail(@), !.plan[r] = n, !.budget = @ - n]
  BY DEF Admit
<1>2. BlocksInv /\ Typed /\ Sizes
  BY DEF SplitInv, Control
<1>3. CandidateIs(r)
  BY <1>1, CandidateFacts
<1>4. /\ r \in Req /\ numTokens[r] \in Nat /\ numTokens[r] < MaxLen /\ computed[r] \in Nat
      /\ MaxLen \in Nat
  BY <1>2, <1>3, TypedFacts, Constants DEF CandidateIs, Sizes, SizeOf
<1>5. IsHit(r, hit) /\ Len(hit) \in Nat /\ Len(hit) < numTokens[r]
  BY <1>1, LocalHitIs
<1>6. \/ hit = << >> /\ base = computed[r]
      \/ rows[r] = << >> /\ base = Len(hit)
  <2>1. computed[r] = 0 => rows[r] = << >>
    BY <1>3 DEF CandidateIs
  <2> QED BY <2>1 DEF Base, LocalHit
<1>7. base \in Nat /\ base < numTokens[r]
  BY <1>3, <1>4, <1>5 DEF Base, CandidateIs
<1>8. base = Base(r) /\ n = Chunk(numTokens[r] - base)
  OBVIOUS
<1> HIDE DEF r, hit, base, n
<1>9. n \in Nat /\ n <= numTokens[r] - base
  <2>1. numTokens[r] - base \in Int /\ numTokens[r] - base >= 0
    BY <1>4, <1>7
  <2>2. n \in Int /\ n <= numTokens[r] - base /\ n >= 0
    BY <1>2, <1>8, <2>1, ChunkType
  <2> QED BY <2>2
<1>10. base + n \in Nat /\ base + n < MaxLen
  BY <1>4, <1>7, <1>9
<1>11. GrewBy(r, hit, CacheUpTo(r, base + n, FALSE))
  <2> DEFINE target == base + n
  <2>1. target \in Nat /\ target < MaxLen
    BY <1>10
  <2>2. Fits(r, hit, target, Admission, 0) /\ AllocateSlots(r, hit, target, FALSE)
    BY <1>1
  <2> HIDE DEF target
  <2>3. \E new : Fresh(new, hit) /\ Grows(r, hit, new, CacheUpTo(r, target, FALSE))
    <3>1. r \in Req /\ numTokens[r] \in Nat /\ IsHit(r, hit) /\ BlocksInv /\ deferred' = deferred
      BY <1>1, <1>2, <1>4, <1>5
    <3> QED BY <2>1, <2>2, <3>1, AdmissionType, AllocateKeeps
  <2>4. GrewBy(r, hit, CacheUpTo(r, target, FALSE))
    BY <1>5, <2>3 DEF GrewBy
  <2> QED BY <2>4 DEF target
<1>12. now'.plan = [now.plan EXCEPT ![r] = n] /\ now'.preempted = now.preempted
  BY <1>1, <1>3 DEF CandidateIs, NowType
<1> QED BY <1>1, <1>3, <1>6, <1>7, <1>8, <1>9, <1>10, <1>11, <1>12 DEF r, base, n
------------------------------------------------------------------------------
(***************************************************************************)
(* The blocks of a step in flight are held for it: by the table of a       *)
(* running request, or by a deferred entry whose fence is behind the step. *)
(* Only the oldest step of a request preempted since is not, and no step   *)
(* is scheduled until its result is in.                                    *)
(***************************************************************************)

Counted(i) == IF i \in DOMAIN steps /\ steps[i].order # << >> THEN 1 ELSE 0
Ahead(i) == IF i = 1 THEN Counted(1) ELSE Counted(1) + Counted(2)
Covers(e, i, r) == /\ Elements(steps[i].row[r]) \subseteq Elements(deferred[e].blocks)
                   /\ deferred[e].fence >= Ahead(i)
FlightOf(i, r) ==
  \/ status[r] = "running" /\ Elements(steps[i].row[r]) \subseteq Elements(rows[r])
  \/ status[r] = "new" /\ \E e \in DOMAIN deferred : Covers(e, i, r)
Flights ==
  \A i \in DOMAIN steps : \A r \in Req :
    steps[i].to[r] # 0 /\ ~ (turn /\ i = 1) /\ r \notin Elements(now.preempted) =>
      FlightOf(i, r)

\* No step in flight has a block of a transfer.
Exclusive ==
  \A r \in Req : \A b \in Elements(loads[r].blocks) :
    \A i \in DOMAIN steps : \A q \in Req : b \notin Elements(steps[i].row[q])

\* What keeps the steps in flight, the status of who is in them and their
\* blocks keeps this.
LEMMA FlightsSame ==
  ASSUME Flights, steps' = steps, turn' = turn, deferred' = deferred,
         Elements(now.preempted) \subseteq Elements(now'.preempted),
         \A r \in Req : InFlight(r) => status'[r] = status[r],
         \A r \in Req : r \in Elements(now'.preempted)
                          \/ Elements(rows[r]) \subseteq Elements(rows'[r])
  PROVE  Flights'
<1> SUFFICES ASSUME NEW i \in DOMAIN steps, NEW r \in Req, steps[i].to[r] # 0,
                    ~ (turn /\ i = 1), r \notin Elements(now'.preempted)
             PROVE  FlightOf(i, r)'
  BY DEF Flights
<1>1. FlightOf(i, r)
  BY DEF Flights
<1>2. status'[r] = status[r] /\ Elements(rows[r]) \subseteq Elements(rows'[r])
  BY DEF InFlight
<1>3. Ahead(i)' = Ahead(i)
  BY DEF Ahead, Counted
<1> QED BY <1>1, <1>2, <1>3 DEF FlightOf, Covers

LEMMA ExclusiveSame ==
  ASSUME Exclusive, steps' = steps,
         \A r \in Req : Elements(loads'[r].blocks) \subseteq Elements(loads[r].blocks)
  PROVE  Exclusive'
BY DEF Exclusive

\* The blocks of a transfer, and those it will fill, are in one table and in no
\* deferred entry.
LEMMA LoadedBlocks ==
  ASSUME BlocksInv, NEW r \in Req, NEW n \in Nat, numCached[r] <= n,
         NEW b \in Elements(SubSeq(rows[r], n + 1, Len(rows[r])))
  PROVE  /\ b \in RealBlocks /\ pool.ref[b] = 1 /\ pool.hash[b] = NoKey
         /\ b \in Elements(rows[r])
         /\ \E i \in n + 1 .. Len(rows[r]) : rows[r][i] = b
         /\ \A q \in Req \ {r} : b \notin Elements(rows[q])
         /\ \A i \in DOMAIN deferred : b \notin Elements(deferred[i].blocks)
<1>1. /\ BlocksTyped /\ Rows /\ Refs /\ Hashes /\ rows[r] \in Seq(Blocks)
      /\ numCached[r] \in Nat /\ Len(rows[r]) \in Nat
  BY DEF BlocksInv, BlocksTyped
<1> DEFINE s == SubSeq(rows[r], n + 1, Len(rows[r]))
<1>2. /\ DOMAIN s = 1 .. Len(s) /\ \A k \in 1 .. Len(s) : s[k] = rows[r][n + k]
      /\ Len(s) = IF n + 1 <= Len(rows[r]) THEN Len(rows[r]) - (n + 1) + 1 ELSE 0
  <2>1. \A i \in n + 1 .. Len(rows[r]) : rows[r][i] \in Blocks
    BY <1>1
  <2>2. n + 1 \in Int /\ Len(rows[r]) \in Int
    BY <1>1
  <2>3. /\ s \in Seq(Blocks)
        /\ Len(s) = IF n + 1 <= Len(rows[r]) THEN Len(rows[r]) - (n + 1) + 1 ELSE 0
        /\ \A k \in 1 .. Len(s) : s[k] = rows[r][n + 1 + k - 1]
    BY <2>1, <2>2, SubSeqProperties
  <2>4. DOMAIN s = 1 .. Len(s) /\ \A k \in 1 .. Len(s) : k \in Int
    BY <2>3
  <2> HIDE DEF s
  <2>5. \A k \in 1 .. Len(s) : n + 1 + k - 1 = n + k
    BY <2>4
  <2> QED BY <2>3, <2>4, <2>5
<1> HIDE DEF s
<1>3. PICK k \in 1 .. Len(s) : b = s[k]
  BY <1>2 DEF Elements, s
<1>4. n + k \in n + 1 .. Len(rows[r]) /\ n + k \in numCached[r] + 1 .. Len(rows[r])
      /\ n + k \in DOMAIN rows[r] /\ rows[r][n + k] = b
  BY <1>1, <1>2, <1>3
<1>5. b \in Elements(rows[r]) /\ pool.ref[b] = 1 /\ pool.hash[b] = NoKey
  BY <1>1, <1>4 DEF Elements, Hashes
<1>6. b \in RealBlocks
  BY <1>1, <1>5, HeldIsReferenced
<1> QED BY <1>1, <1>4, <1>5, <1>6, SingleHolder

\* The transfer of a request, and where its blocks are.
LEMMA TransferBlocks ==
  ASSUME SplitInv, NEW r \in Req, NEW b \in Elements(loads[r].blocks)
  PROVE  /\ loads[r] # NoLoad /\ status[r] = "loading"
         /\ b \in RealBlocks /\ pool.ref[b] = 1 /\ pool.hash[b] = NoKey
         /\ \E i \in numCached[r] + 1 .. Len(rows[r]) : rows[r][i] = b
         /\ \A q \in Req \ {r} : b \notin Elements(rows[q])
         /\ \A i \in DOMAIN deferred : b \notin Elements(deferred[i].blocks)
<1>1. BlocksInv /\ Transfers /\ numCached[r] \in Nat
  BY DEF SplitInv, Control, BlocksInv, BlocksTyped
<1>2. loads[r] # NoLoad
  BY DEF NoLoad, Elements
<1>3. /\ status[r] = "loading"
      /\ loads[r].blocks = SubSeq(rows[r], numCached[r] + 1, Len(rows[r]))
  BY <1>1, <1>2 DEF Transfers, TransferOf
<1>4. numCached[r] <= numCached[r]
  BY <1>1
<1> DEFINE n == numCached[r]
<1>5. b \in Elements(SubSeq(rows[r], n + 1, Len(rows[r])))
  BY <1>3
<1>6. n \in Nat /\ numCached[r] <= n
  BY <1>1, <1>4
<1> HIDE DEF n
<1>7. /\ b \in RealBlocks /\ pool.ref[b] = 1 /\ pool.hash[b] = NoKey
      /\ \E i \in n + 1 .. Len(rows[r]) : rows[r][i] = b
      /\ \A q \in Req \ {r} : b \notin Elements(rows[q])
      /\ \A i \in DOMAIN deferred : b \notin Elements(deferred[i].blocks)
  BY <1>1, <1>5, <1>6, LoadedBlocks
<1> QED BY <1>2, <1>3, <1>7 DEF n

LEMMA FinishFlights ==
  ASSUME SplitInv, Flights, Exclusive, Finish
  PROVE  Flights' /\ Exclusive'
<1> DEFINE gone == Elements(now.preempted)
           parked == Elements(now.parked)
           load(r) == [from   |-> Len(now.probe[r]) + 1,
                       blocks |-> SubSeq(rows[r], Len(now.probe[r]) + 1, Len(rows[r]))]
<1>1. /\ now.at = "waiting" /\ now.at # "idle"
      /\ status' = [r \in Req |->
                      IF r \in gone THEN "waiting"
                      ELSE IF r \in parked THEN "loading"
                      ELSE IF r \in Elements(running) THEN "running"
                      ELSE status[r]]
      /\ loads' = [r \in Req |-> IF r \in parked THEN load(r) ELSE loads[r]]
      /\ steps' = Append(steps, ThisStep)
      /\ turn' = (Scheduled = {} \/ Len(steps) + 1 = Depth)
      /\ rows' = rows
  BY DEF Finish, kvVars
<1>2. BlocksInv /\ Typed /\ Turns /\ StepQueues /\ Phases /\ Probes /\ Steps
  BY <1>1 DEF SplitInv, Control, Queues
<1>3. ~ turn /\ Len(steps) < Depth /\ Depth \in 1 .. 2 /\ steps \in Seq(StepType)
  BY <1>1, <1>2, Constants DEF Turns, Typed
<1>4. /\ ThisStep \in StepType
      /\ \A r \in Req : /\ ThisStep.to[r] # 0 => r \in Elements(running)
                        /\ ThisStep.row[r] = rows[r] \/ ThisStep.row[r] = << >>
                        /\ ThisStep.row[r] # << >> => r \in Elements(running)
                        /\ Elements(ThisStep.row[r]) \subseteq Elements(rows[r])
  <2>1. Scheduled \subseteq Elements(running)
    BY <1>1, ScheduledFacts
  <2>2. \A r \in Req : ThisStep.to[r] # 0 => r \in Scheduled
    BY DEF ThisStep
  <2>3. \A r \in Req : ThisStep.row[r] = IF r \in Scheduled THEN rows[r] ELSE << >>
    BY DEF ThisStep
  <2>4. Elements(<< >>) = {}
    BY DEF Elements
  <2>5. ThisStep \in StepType
    BY <1>1, ThisStepIsStep
  <2> QED BY <2>1, <2>2, <2>3, <2>4, <2>5
<1>5. /\ Len(steps') = Len(steps) + 1 /\ Len(steps) \in Nat
      /\ \A i \in 1 .. Len(steps) : steps'[i] = steps[i]
      /\ steps'[Len(steps) + 1] = ThisStep
      /\ DOMAIN steps' = 1 .. Len(steps) + 1 /\ DOMAIN steps = 1 .. Len(steps)
  BY <1>1, <1>3, <1>4, AppendProperties
<1>6. /\ gone \cap Elements(running) = {} /\ parked \cap Elements(running) = {}
      /\ \A r \in parked : r \in Req /\ status[r] = "waiting"
      /\ \A r \in Elements(running) : r \in Req /\ status[r] \in {"running", "waiting"}
      /\ parked # {} => gone = {}
  <2>1. now.parked \in Seq(Req) /\ running \in Seq(Req)
    BY <1>2, TypedFacts DEF Typed
  <2>2. parked \subseteq Req /\ Elements(running) \subseteq Req
    BY <2>1 DEF Elements
  <2>3. parked # {} => gone = {}
    BY <1>2 DEF Phases, Elements
  <2> QED BY <1>2, <2>2, <2>3 DEF StepQueues, Apart
<1> HIDE DEF gone, parked, load
<1>7. Flights'
  <2> SUFFICES ASSUME NEW i \in DOMAIN steps', NEW r \in Req, steps'[i].to[r] # 0,
                      ~ (turn' /\ i = 1)
               PROVE  FlightOf(i, r)'
    BY DEF Flights
  <2>1. CASE i = Len(steps) + 1
    <3>1. r \in Elements(running) /\ steps'[i] = ThisStep
      BY <1>4, <1>5, <2>1
    <3>2. status'[r] = "running"
      BY <1>1, <1>6, <3>1
    <3> QED BY <1>1, <1>4, <3>1, <3>2 DEF FlightOf
  <2>2. CASE i # Len(steps) + 1
    <3>1. i \in 1 .. Len(steps)
      BY <1>5, <2>2
    <3>2. Len(steps) = 1 /\ Depth = 2 /\ i = 1
      BY <1>3, <1>5, <3>1
    <3>3. Len(steps) + 1 = Depth
      BY <3>2
    <3> QED BY <1>1, <3>2, <3>3
  <2> QED BY <1>5, <2>1, <2>2
<1>8. Exclusive'
  <2> SUFFICES ASSUME NEW r \in Req, NEW b \in Elements(loads'[r].blocks),
                      NEW i \in DOMAIN steps', NEW q \in Req,
                      b \in Elements(steps'[i].row[q])
               PROVE  FALSE
    BY DEF Exclusive
  <2>1. CASE r \in parked
    <3>1. /\ numCached[r] = Len(now.probe[r]) /\ numCached[r] \in Nat
      BY <1>2, <2>1 DEF Probes, ProbeOf, parked, BlocksInv, BlocksTyped
    <3>2. b \in Elements(SubSeq(rows[r], numCached[r] + 1, Len(rows[r])))
      BY <1>1, <2>1, <3>1 DEF load
    <3>3. /\ \A p \in Req \ {r} : b \notin Elements(rows[p])
          /\ \A e \in DOMAIN deferred : b \notin Elements(deferred[e].blocks)
      <4>1. numCached[r] <= numCached[r]
        BY <3>1
      <4> QED BY <1>2, <3>1, <3>2, <4>1, LoadedBlocks
    <3>4. CASE i = Len(steps) + 1
      <4>1. b \in Elements(rows[q]) /\ q \in Elements(running)
        BY <1>4, <1>5, <3>4 DEF Elements
      <4>2. q # r
        BY <1>6, <2>1, <4>1
      <4> QED BY <3>3, <4>1, <4>2
    <3>5. CASE i # Len(steps) + 1
      <4>1. i \in 1 .. Len(steps) /\ i \in DOMAIN steps /\ steps'[i] = steps[i]
        BY <1>5, <3>5
      <4>2. steps[i].to[q] # 0
        BY <1>2, <4>1 DEF Steps, IsStep, Elements
      <4>3. q \notin gone
        BY <1>6, <2>1
      <4>4. FlightOf(i, q)
        BY <1>3, <4>1, <4>2, <4>3 DEF Flights, gone
      <4>5. q # r \/ status[q] = "waiting"
        BY <1>6, <2>1
      <4> QED BY <3>3, <4>1, <4>4, <4>5 DEF FlightOf, Covers
    <3> QED BY <1>5, <3>4, <3>5
  <2>2. CASE r \notin parked
    <3>1. b \in Elements(loads[r].blocks)
      BY <1>1, <2>2
    <3>2. status[r] = "loading" /\ \A p \in Req \ {r} : b \notin Elements(rows[p])
      BY <3>1, TransferBlocks
    <3>3. CASE i = Len(steps) + 1
      <4>1. b \in Elements(rows[q]) /\ q \in Elements(running)
        BY <1>4, <1>5, <3>3 DEF Elements
      <4>2. q # r
        BY <1>6, <3>2, <4>1
      <4> QED BY <3>2, <4>1, <4>2
    <3>4. CASE i # Len(steps) + 1
      <4>1. i \in 1 .. Len(steps) /\ i \in DOMAIN steps /\ steps'[i] = steps[i]
        BY <1>5, <3>4
      <4> QED BY <3>1, <4>1 DEF Exclusive
    <3> QED BY <1>5, <3>3, <3>4
  <2> QED BY <2>1, <2>2
<1> QED BY <1>7, <1>8

\* The entries that are due are the first ones.
LEMMA DueFirst ==
  ASSUME BlocksTyped, NEW left \in Nat, NEW e \in DOMAIN deferred, deferred[e].fence > left
  PROVE  e > Cardinality(Entries(left))
<1>1. Len(deferred) \in Nat /\ DOMAIN deferred = 1 .. Len(deferred) /\ e \in Nat /\ e >= 1
      /\ deferred[e].fence \in Int
  BY EntryFacts DEF BlocksTyped
<1>2. \A i \in Entries(left) : i \in 1 .. e - 1
  <2> SUFFICES ASSUME NEW i \in Entries(left), ~ (i < e)
               PROVE  FALSE
    BY <1>1 DEF Entries
  <2>1. e \in 1 .. i /\ i \in DOMAIN deferred
    BY <1>1 DEF Entries
  <2>2. Due(deferred[e].fence - left)
    BY <2>1 DEF Entries
  <2> QED BY <1>1, <2>2 DEF Due
<1>3. IsFiniteSet(1 .. e - 1) /\ Cardinality(1 .. e - 1) = e - 1
  <2> DEFINE n == e - 1
  <2>1. 1 \in Int /\ n \in Int /\ n >= 0
    BY <1>1
  <2> HIDE DEF n
  <2>2. /\ IsFiniteSet(1 .. n)
        /\ Cardinality(1 .. n) = IF 1 > n THEN 0 ELSE n - 1 + 1
    BY <2>1, FS_Interval
  <2>3. Cardinality(1 .. n) = n
    BY <2>1, <2>2
  <2> QED BY <2>2, <2>3 DEF n
<1>4. Cardinality(Entries(left)) <= e - 1 /\ IsFiniteSet(Entries(left))
  BY <1>2, <1>3, FS_Subset
<1> QED BY <1>1, <1>4, FS_CardinalityType

LEMMA ProcessFlights ==
  ASSUME SplitInv, Flights, NEW stop \in SUBSET Req, Process(stop)
  PROVE  Flights'
<1> DEFINE s       == Head(steps)
           rest    == Tail(steps)
           counted == IF s.order = << >> THEN 0 ELSE 1
           due     == Cardinality(Entries(counted))
           sampled == {r \in s.samples : status[r] # "new"}
           ended   == Keep(s.order, stop)
           defers  == {r \in stop : \E i \in DOMAIN rest : rest[i].to[r] # 0}
           behind  == {i \in DOMAIN rest : rest[i].order # << >>}
           fence   == Cardinality(behind)
           parking == Keep(ended, defers)
           left    == [i \in 1 .. Len(deferred) - due |->
                         [deferred[due + i] EXCEPT !.fence = @ - counted]]
           parked  == [i \in DOMAIN parking |->
                         [fence |-> fence, blocks |-> rows[parking[i]]]]
<1>1. /\ now.at = "idle" /\ steps # << >> /\ stop \subseteq sampled
      /\ deferred' = left \o parked
      /\ steps' = rest /\ turn' = FALSE
      /\ status' = [r \in Req |-> IF r \in stop THEN "new" ELSE status[r]]
  BY DEF Process
<1>2. BlocksInv /\ BlocksTyped /\ Turns /\ Steps
  BY DEF SplitInv, BlocksInv, Control
<1>3. /\ s = steps[1] /\ 1 \in DOMAIN steps
      /\ s.order \in Seq(Req) /\ Distinct(s.order) /\ s.samples \subseteq Elements(s.order)
      /\ Elements(s.order) \subseteq Req
      /\ DOMAIN rest = 1 .. Len(steps) - 1 /\ Len(steps) \in 1 .. 2
      /\ \A i \in DOMAIN rest : rest[i] = steps[i + 1] /\ i + 1 \in DOMAIN steps /\ i = 1
  BY <1>1, OldestFacts
<1>4. /\ due \in 0 .. Len(deferred) /\ Len(deferred) \in Nat /\ counted \in {0, 1}
      /\ deferred \in Seq(EntryType) /\ DOMAIN deferred = 1 .. Len(deferred)
  BY <1>2, EntriesCount DEF BlocksTyped
<1>5. \A r \in Req : r \notin stop => rows'[r] = rows[r]
  BY ProcessBlocks
<1>6. now = Idle /\ Elements(now.preempted) = {}
  BY <1>1, <1>2, IdleFacts DEF Turns
<1>7. counted = Counted(1)
  BY <1>3 DEF Counted
<1>8. parking \in Seq(Req) /\ Elements(parking) = defers
  <2>1. stop \subseteq Elements(s.order)
    BY <1>1, <1>3
  <2>2. ended \in Seq(Req) /\ Elements(ended) = Elements(s.order) \cap stop
    BY <1>3, KeepElements
  <2>3. defers \subseteq stop
    OBVIOUS
  <2> HIDE DEF ended, defers, s
  <2>4. parking \in Seq(Req) /\ Elements(parking) = Elements(ended) \cap defers
    BY <2>2, KeepElements
  <2> HIDE DEF parking
  <2> QED BY <2>1, <2>2, <2>3, <2>4
<1>9. IsFiniteSet(behind) /\ fence \in Nat
  <2>1. IsFiniteSet(1 .. Len(steps) - 1)
    BY <1>3, FS_Interval
  <2>2. behind \subseteq 1 .. Len(steps) - 1
    BY <1>3
  <2>3. IsFiniteSet(behind)
    BY <2>1, <2>2, FS_Subset
  <2> QED BY <2>3, FS_CardinalityType
<1> HIDE DEF s, counted, due, fence, parking
<1>10. /\ left \in Seq(EntryType) /\ Len(left) = Len(deferred) - due
       /\ \A i \in 1 .. Len(left) : /\ left[i].blocks = deferred[due + i].blocks
                                    /\ left[i].fence = deferred[due + i].fence - counted
  <2>1. ASSUME NEW i \in 1 .. Len(deferred) - due
        PROVE  /\ [deferred[due + i] EXCEPT !.fence = @ - counted] \in EntryType
               /\ [deferred[due + i] EXCEPT !.fence = @ - counted].blocks
                    = deferred[due + i].blocks
               /\ [deferred[due + i] EXCEPT !.fence = @ - counted].fence
                    = deferred[due + i].fence - counted
    <3>1. due + i \in DOMAIN deferred
      BY <1>4
    <3>2. deferred[due + i] \in EntryType
      BY <1>4, <3>1
    <3>3. counted \in Int
      BY <1>4
    <3> QED BY <3>2, <3>3 DEF EntryType
  <2>2. Len(deferred) - due \in Nat
    BY <1>4
  <2> DEFINE k == Len(deferred) - due
             f == [i \in 1 .. k |-> [deferred[due + i] EXCEPT !.fence = @ - counted]]
  <2>3. left = f /\ k \in Nat /\ f \in [1 .. k -> EntryType]
        /\ \A i \in 1 .. k : /\ f[i].blocks = deferred[due + i].blocks
                             /\ f[i].fence = deferred[due + i].fence - counted
    BY <2>1, <2>2
  <2>4. k = Len(deferred) - due
    OBVIOUS
  <2> HIDE DEF left, f, k
  <2>5. left \in Seq(EntryType) /\ Len(left) = k
    BY <2>3
  <2> QED BY <2>3, <2>4, <2>5
<1>11. /\ parked \in Seq(EntryType) /\ DOMAIN parking = 1 .. Len(parked)
       /\ \A k \in DOMAIN parking : parked[k].fence = fence /\ parked[k].blocks = rows[parking[k]]
  <2>1. \A k \in DOMAIN parking : parking[k] \in Req
    BY <1>8
  <2>2. \A k \in DOMAIN parking : [fence |-> fence, blocks |-> rows[parking[k]]] \in EntryType
    BY <1>2, <1>9, <2>1 DEF EntryType, BlocksTyped
  <2>3. DOMAIN parking = 1 .. Len(parking) /\ Len(parking) \in Nat
    BY <1>8
  <2> QED BY <2>2, <2>3
<1> HIDE DEF left, parked
<1>12. /\ DOMAIN deferred' = 1 .. Len(left) + Len(parked)
       /\ Len(left) \in Nat /\ Len(parked) \in Nat
       /\ \A i \in 1 .. Len(left) : deferred'[i] = left[i]
       /\ \A k \in 1 .. Len(parked) : deferred'[Len(left) + k] = parked[k]
  <2>1. /\ deferred' \in Seq(EntryType) /\ Len(deferred') = Len(left) + Len(parked)
        /\ Len(left) \in Nat /\ Len(parked) \in Nat
        /\ \A i \in 1 .. Len(left) + Len(parked) : deferred'[i] =
             IF i <= Len(left) THEN left[i] ELSE parked[i - Len(left)]
    <3>1. deferred' = left \o parked /\ parked \in Seq(EntryType) /\ left \in Seq(EntryType)
      BY <1>1, <1>10, <1>11 DEF left, parked
    <3> QED BY <3>1, ConcatProperties
  <2>2. \A i \in 1 .. Len(left) : deferred'[i] = left[i]
    BY <2>1
  <2>3. \A k \in 1 .. Len(parked) : deferred'[Len(left) + k] = parked[k]
    <3> TAKE k \in 1 .. Len(parked)
    <3>1. /\ Len(left) + k \in 1 .. Len(left) + Len(parked)
          /\ ~ (Len(left) + k <= Len(left)) /\ (Len(left) + k) - Len(left) = k
      BY <2>1
    <3> QED BY <2>1, <3>1
  <2> QED BY <2>1, <2>2, <2>3
<1>13. SUFFICES ASSUME NEW i \in DOMAIN steps', NEW r \in Req, steps'[i].to[r] # 0
                PROVE  FlightOf(i, r)'
  BY DEF Flights
<1>14. i = 1 /\ i \in DOMAIN rest /\ rest[1] = steps[2] /\ 2 \in DOMAIN steps
       /\ steps'[1] = steps[2] /\ steps[2].to[r] # 0
  BY <1>1, <1>3, <1>13
<1>15. FlightOf(2, r)
  BY <1>6, <1>14 DEF Flights
<1>16. steps[2].order # << >>
  BY <1>2, <1>14 DEF Steps, IsStep, Elements
<1>17. Ahead(1)' = 1 /\ Ahead(2) = counted + 1 /\ i = 1
  <2>1. 1 \in DOMAIN steps' /\ steps'[1].order # << >>
    BY <1>13, <1>14, <1>16
  <2> QED BY <1>7, <1>14, <1>16, <2>1 DEF Ahead, Counted
<1>18. CASE status[r] = "running" /\ r \notin stop
  <2>1. status'[r] = "running" /\ Elements(steps[2].row[r]) \subseteq Elements(rows[r])
    BY <1>1, <1>15, <1>18 DEF FlightOf
  <2> QED BY <1>5, <1>14, <1>18, <2>1 DEF FlightOf
<1>19. CASE status[r] = "running" /\ r \in stop
  <2>1. r \in defers
    BY <1>14, <1>19
  <2>2. PICK k \in DOMAIN parking : parking[k] = r
    BY <1>8, <2>1 DEF Elements
  <2>3. fence >= 1
    <3>1. 1 \in behind
      BY <1>14, <1>16
    <3>2. Cardinality(behind) # 0
      BY <1>9, <3>1, FS_EmptySet
    <3>3. fence # 0
      BY <3>2 DEF fence
    <3> QED BY <1>9, <3>3
  <2>4. PICK e \in DOMAIN deferred' :
               deferred'[e].fence = fence /\ deferred'[e].blocks = rows[r]
    <3>1. Len(left) + k \in DOMAIN deferred' /\ deferred'[Len(left) + k] = parked[k]
      BY <1>11, <1>12, <2>2
    <3> QED BY <1>11, <2>2, <3>1
  <2>5. Covers(e, 1, r)'
    BY <1>9, <1>14, <1>15, <1>17, <1>19, <2>3, <2>4 DEF Covers, FlightOf
  <2>6. status'[r] = "new"
    BY <1>1, <1>19
  <2> QED BY <1>14, <2>4, <2>5, <2>6 DEF FlightOf
<1>20. CASE status[r] = "new"
  <2>1. status'[r] = "new"
    BY <1>1, <1>20
  <2>2. PICK e \in DOMAIN deferred : Covers(e, 2, r)
    BY <1>15, <1>20 DEF FlightOf
  <2>3. e \in Nat /\ deferred[e].fence \in Int
    BY <1>2, <1>4, EntryFacts
  <2>4. deferred[e].fence > counted /\ counted \in Nat
    BY <1>4, <1>17, <2>2, <2>3 DEF Covers
  <2>5. e > due /\ e <= Len(deferred)
    BY <1>2, <1>4, <2>4, DueFirst DEF due
  <2>6. PICK j \in DOMAIN deferred' : j \in 1 .. Len(left) /\ due + j = e
    <3>1. e - due \in 1 .. Len(left) /\ due + (e - due) = e
      BY <1>4, <1>10, <2>3, <2>5
    <3>2. e - due \in DOMAIN deferred'
      BY <1>12, <3>1
    <3> QED BY <3>1, <3>2
  <2>7. /\ deferred'[j].blocks = deferred[e].blocks
        /\ deferred'[j].fence = deferred[e].fence - counted
    BY <1>10, <1>12, <2>6
  <2>8. deferred'[j].fence >= 1
    BY <1>4, <1>17, <2>2, <2>3, <2>7 DEF Covers
  <2>9. Covers(j, 1, r)'
    BY <1>14, <1>17, <2>2, <2>7, <2>8 DEF Covers
  <2> QED BY <1>14, <2>1, <2>6, <2>9 DEF FlightOf
<1> QED BY <1>15, <1>18, <1>19, <1>20 DEF FlightOf

LEMMA AbortFlights ==
  ASSUME SplitInv, Flying, Flights, NEW r \in Req, Abort(r)
  PROVE  Flights'
<1> DEFINE behind == {i \in DOMAIN steps : steps[i].order # << >>}
           fence == Cardinality(behind)
           entry == [fence |-> fence, blocks |-> rows[r]]
<1>1. /\ status' = [status EXCEPT ![r] = "new"] /\ steps' = steps /\ turn' = turn
      /\ now' = now
      /\ IF InFlight(r) THEN deferred' = Append(deferred, entry) ELSE deferred' = deferred
  BY DEF Abort, deviceVars
<1>2. BlocksTyped /\ Typed /\ Steps /\ Turns
  BY DEF SplitInv, Control, BlocksInv
<1>3. /\ status'[r] = "new" /\ \A q \in Req \ {r} : status'[q] = status[q]
      /\ \A q \in Req \ {r} : rows'[q] = rows[q]
  BY <1>1, <1>2, AbortBlocks DEF Typed
<1>4. /\ deferred \in Seq(EntryType) /\ Len(deferred) \in Nat
      /\ DOMAIN deferred = 1 .. Len(deferred)
      /\ rows[r] \in Seq(Blocks)
      /\ DOMAIN steps = 1 .. Len(steps) /\ Len(steps) \in 0 .. 2
  <2>1. /\ deferred \in Seq(EntryType) /\ rows[r] \in Seq(Blocks)
        /\ DOMAIN deferred = 1 .. Len(deferred)
    BY <1>2 DEF BlocksTyped
  <2>2. steps \in Seq(StepType) /\ Len(steps) <= Depth /\ Depth \in 1 .. 2
    BY <1>2, Constants DEF Typed, Turns
  <2>3. DOMAIN steps = 1 .. Len(steps) /\ Len(steps) \in Nat
    BY <2>2
  <2>4. Len(steps) \in 0 .. 2
    BY <2>2, <2>3
  <2> QED BY <2>1, <2>3, <2>4
<1>5. IsFiniteSet(behind) /\ fence \in Nat
  <2>1. IsFiniteSet(1 .. Len(steps))
    BY <1>4, FS_Interval
  <2>2. behind \subseteq 1 .. Len(steps)
    BY <1>4
  <2>3. IsFiniteSet(behind)
    BY <2>1, <2>2, FS_Subset
  <2> QED BY <2>3, FS_CardinalityType
<1>6. \A i \in DOMAIN steps : Ahead(i) <= fence
  <2>1. /\ Counted(1) = IF 1 \in behind THEN 1 ELSE 0
        /\ Counted(2) = IF 2 \in behind THEN 1 ELSE 0
    BY DEF Counted
  <2>2. 1 \in behind \/ 2 \in behind => fence >= 1
    <3>1. ASSUME 1 \in behind \/ 2 \in behind
          PROVE  Cardinality(behind) # 0
      BY <1>5, <3>1, FS_EmptySet
    <3> QED BY <1>5, <3>1
  <2>3. 1 \in behind /\ 2 \in behind => fence >= 2
    <3> SUFFICES ASSUME 1 \in behind, 2 \in behind
                 PROVE  fence >= 2
      OBVIOUS
    <3>1. IsFiniteSet(behind \ {1}) /\ Cardinality(behind \ {1}) = fence - 1
      BY <1>5, FS_RemoveElement
    <3>2. 2 \in behind \ {1}
      OBVIOUS
    <3> HIDE DEF behind, fence
    <3>3. Cardinality(behind \ {1}) # 0 /\ Cardinality(behind \ {1}) \in Nat
      BY <3>1, <3>2, FS_EmptySet, FS_CardinalityType
    <3> QED BY <1>5, <3>1, <3>3
  <2> HIDE DEF behind, fence
  <2> QED BY <1>5, <2>1, <2>2, <2>3 DEF Ahead
<1> HIDE DEF fence
<1>7. /\ \A e \in DOMAIN deferred : e \in DOMAIN deferred' /\ deferred'[e] = deferred[e]
      /\ InFlight(r) => /\ Len(deferred) + 1 \in DOMAIN deferred'
                        /\ deferred'[Len(deferred) + 1] = entry
  <2>1. entry \in EntryType
    BY <1>4, <1>5 DEF EntryType
  <2> HIDE DEF entry
  <2> QED BY <1>1, <1>4, <2>1, AppendProperties
<1>8. SUFFICES ASSUME NEW i \in DOMAIN steps, NEW q \in Req, steps[i].to[q] # 0,
                      ~ (turn /\ i = 1), q \notin Elements(now.preempted)
               PROVE  FlightOf(i, q)'
  BY <1>1 DEF Flights
<1>9. FlightOf(i, q) /\ Ahead(i)' = Ahead(i)
  BY <1>1, <1>8 DEF Flights, Ahead, Counted
<1>10. \A e \in DOMAIN deferred : Covers(e, i, q) => Covers(e, i, q)'
  BY <1>1, <1>7, <1>9 DEF Covers
<1>11. CASE q # r
  BY <1>1, <1>3, <1>7, <1>9, <1>10, <1>11 DEF FlightOf
<1>12. CASE q = r
  <2>1. status[r] \in {"waiting", "running"}
    BY DEF Abort
  <2>2. Elements(steps[i].row[r]) \subseteq Elements(rows[r])
    BY <1>9, <1>12, <2>1 DEF FlightOf
  <2>3. InFlight(r)
    BY <1>8, <1>12 DEF InFlight
  <2>4. PICK e \in DOMAIN deferred' :
               deferred'[e].fence = fence /\ deferred'[e].blocks = rows[r]
    BY <1>7, <2>3
  <2>5. Covers(e, i, r)'
    BY <1>1, <1>6, <1>9, <2>2, <2>4 DEF Covers
  <2> QED BY <1>3, <1>12, <2>4, <2>5 DEF FlightOf
<1> QED BY <1>11, <1>12

\* What keeps the steps and their owners' blocks, and the transfers, keeps both.
LEMMA BothSame ==
  ASSUME Flights, Exclusive, steps' = steps, turn' = turn, deferred' = deferred,
         status' = status, loads' = loads, now'.preempted = now.preempted,
         \A r \in Req : Elements(rows[r]) \subseteq Elements(rows'[r])
  PROVE  Flights' /\ Exclusive'
<1>1. \A r \in Req : Elements(loads'[r].blocks) \subseteq Elements(loads[r].blocks)
  OBVIOUS
<1>2. /\ Elements(now.preempted) \subseteq Elements(now'.preempted)
      /\ \A r \in Req : InFlight(r) => status'[r] = status[r]
      /\ \A r \in Req : r \in Elements(now'.preempted)
                          \/ Elements(rows[r]) \subseteq Elements(rows'[r])
  OBVIOUS
<1> QED BY <1>1, <1>2, FlightsSame, ExclusiveSame

LEMMA ArriveFlights ==
  ASSUME SplitInv, Flights, Exclusive, NEW r \in Req, Arrive(r)
  PROVE  Flights' /\ Exclusive'
<1>1. /\ ~ InFlight(r) /\ status' = [status EXCEPT ![r] = "waiting"]
      /\ steps' = steps /\ turn' = turn /\ deferred' = deferred /\ loads' = loads
      /\ now' = now /\ rows' = rows
  BY DEF Arrive, deviceVars, kvVars
<1>2. status \in [Req -> Statuses]
  BY DEF SplitInv, Control, Typed
<1>3. \A q \in Req : InFlight(q) => status'[q] = status[q]
  BY <1>1, <1>2
<1> QED BY <1>1, <1>3, FlightsSame, ExclusiveSame

\* No request that is promoted is in a step in flight.
LEMMA ScheduleFlights ==
  ASSUME SplitInv, Flying, Flights, Exclusive, Schedule
  PROVE  Flights' /\ Exclusive'
<1>1. /\ status' = [r \in Req |-> IF r \in Promotable THEN "waiting" ELSE status[r]]
      /\ steps' = steps /\ turn' = turn /\ deferred' = deferred /\ loads' = loads
      /\ rows' = rows /\ now.at = "idle"
  BY DEF Schedule
<1>2. \A r \in Promotable : r \in received
  BY DEF Promotable
<1>3. \A r \in Req : r \in received => status[r] = "loading"
  BY DEF SplitInv, Control, Transfers, TransferOf
<1>4. \A r \in Req : InFlight(r) => status'[r] = status[r]
  <2> TAKE r \in Req
  <2> HAVE InFlight(r)
  <2>1. PICK i \in DOMAIN steps : steps[i].to[r] # 0
    BY DEF InFlight
  <2>2. status[r] # "loading"
    BY <2>1 DEF Flying
  <2> QED BY <1>1, <1>2, <1>3, <2>2
<1>5. Elements(now.preempted) = {}
  BY <1>1, IdleFacts DEF SplitInv, Control, Turns
<1> QED BY <1>1, <1>4, <1>5, FlightsSame, ExclusiveSame

LEMMA RunningFlights ==
  ASSUME SplitInv, Flights, Exclusive, ScheduleRunning
  PROVE  Flights' /\ Exclusive'
<1>1. /\ steps' = steps /\ turn' = turn /\ deferred' = deferred /\ status' = status
      /\ loads' = loads
  BY DEF ScheduleRunning, reqVars, deviceVars
<1> DEFINE r == running[now.pos]
           upTo == CacheUpTo(r, computed[r] + Work(r), FALSE)
<1>2. /\ r \in Req /\ now'.preempted = now.preempted
      /\ rows' = rows \/ GrewBy(r, << >>, upTo)
  BY RunningGrew
<1>3. BlocksInv
  BY DEF SplitInv
<1> HIDE DEF r, upTo
<1>4. \A q \in Req : Elements(rows[q]) \subseteq Elements(rows'[q])
  BY <1>2, <1>3, GrewKeepsBlocks
<1> QED BY <1>1, <1>2, <1>4, BothSame

LEMMA PreemptFlights ==
  ASSUME SplitInv, Flights, Exclusive, Preempt
  PROVE  Flights' /\ Exclusive'
<1> DEFINE v == Last(running)
<1>1. /\ Looping /\ ForgetRows({v}) /\ now' = [now EXCEPT !.preempted = Append(@, v)]
      /\ steps' = steps /\ turn' = turn /\ deferred' = deferred /\ status' = status
      /\ loads' = loads
  BY DEF Preempt, reqVars, deviceVars
<1>2. /\ now \in NowType /\ StepQueues /\ running \in Seq(Req) /\ now.pos \in DOMAIN running
  BY <1>1, LoopFacts
<1>3. v \in Req
  <2>1. running # << >> /\ Distinct(running)
    BY <1>2 DEF StepQueues
  <2> QED BY <1>2, <2>1, FrontElements
<1> HIDE DEF v
<1>4. /\ now.preempted \in Seq(Req) /\ now'.preempted = Append(now.preempted, v)
  BY <1>1, <1>2 DEF NowType
<1>5. Elements(now'.preempted) = Elements(now.preempted) \cup {v}
  BY <1>3, <1>4, AppendElements
<1>6. \A r \in Req : r # v => rows'[r] = rows[r]
  BY <1>1 DEF ForgetRows
<1>7. \A r \in Req : r \in Elements(now'.preempted)
                       \/ Elements(rows[r]) \subseteq Elements(rows'[r])
  BY <1>5, <1>6
<1> QED BY <1>1, <1>5, <1>7, FlightsSame, ExclusiveSame

\* The connector is asked, or a candidate is handed back.
LEMMA AskFlights ==
  ASSUME SplitInv, Flights, Exclusive,
         AskConnector \/ SkipProbe \/ AskForOne \/ TurnAway
  PROVE  Flights' /\ Exclusive'
<1>1. /\ steps' = steps /\ turn' = turn /\ deferred' = deferred /\ status' = status
      /\ loads' = loads /\ rows' = rows
  BY DEF AskConnector, SkipProbe, AskForOne, TurnAway, kvVars, reqVars, deviceVars
<1>2. now \in NowType
  BY DEF SplitInv, Control, Typed
<1>3. now'.preempted = now.preempted
  <2>1. CASE AskConnector
    BY <1>2, <2>1 DEF AskConnector, NowType
  <2>2. CASE SkipProbe
    BY <1>2, <2>2 DEF SkipProbe, NowType
  <2>3. CASE AskForOne
    BY <1>2, <2>3 DEF AskForOne, NowType
  <2>4. CASE TurnAway
    BY <1>2, <2>4 DEF TurnAway, NowType
  <2> QED BY <2>1, <2>2, <2>3, <2>4
<1> QED BY <1>1, <1>3, BothSame

LEMMA ParkFlights ==
  ASSUME SplitInv, Flights, Exclusive, Park
  PROVE  Flights' /\ Exclusive'
<1>1. /\ steps' = steps /\ turn' = turn /\ deferred' = deferred /\ status' = status
      /\ loads' = loads
  BY DEF Park, reqVars, deviceVars
<1>2. PICK hit : GrewBy(Candidate, hit, 0)
  BY ParkGrew
<1>3. Candidate \in Req /\ now'.preempted = now.preempted
  BY ParkGrew DEF CandidateIs
<1>4. \A q \in Req : Elements(rows[q]) \subseteq Elements(rows'[q])
  BY <1>2, <1>3, GrewKeepsBlocks DEF SplitInv
<1> QED BY <1>1, <1>3, <1>4, BothSame

LEMMA AdmitFlights ==
  ASSUME SplitInv, Flights, Exclusive, Admit
  PROVE  Flights' /\ Exclusive'
<1>1. /\ steps' = steps /\ turn' = turn /\ deferred' = deferred /\ status' = status
      /\ loads' = loads
  BY DEF Admit, deviceVars
<1> DEFINE r == Candidate
           upTo == CacheUpTo(r, Base(r) + Chunk(numTokens[r] - Base(r)), FALSE)
<1>2. /\ r \in Req /\ now'.preempted = now.preempted
      /\ \E hit : GrewBy(r, hit, upTo)
  BY AdmitGrew DEF CandidateIs
<1>3. BlocksInv
  BY DEF SplitInv
<1> HIDE DEF r, upTo
<1>4. \A q \in Req : Elements(rows[q]) \subseteq Elements(rows'[q])
  BY <1>2, <1>3, GrewKeepsBlocks
<1> QED BY <1>1, <1>2, <1>4, BothSame

\* A step's result takes the step away.
LEMMA ProcessExclusive ==
  ASSUME SplitInv, Exclusive, NEW stop \in SUBSET Req, Process(stop)
  PROVE  Exclusive'
<1>1. /\ steps' = Tail(steps) /\ loads' = loads /\ now.at = "idle" /\ steps # << >>
  BY DEF Process
<1>2. \A i \in DOMAIN steps' : steps'[i] = steps[i + 1] /\ i + 1 \in DOMAIN steps
  BY <1>1, OldestFacts
<1> SUFFICES ASSUME NEW r \in Req, NEW b \in Elements(loads[r].blocks),
                    NEW i \in DOMAIN steps', NEW q \in Req
             PROVE  b \notin Elements(steps'[i].row[q])
  BY <1>1 DEF Exclusive
<1>3. /\ i + 1 \in DOMAIN steps /\ steps'[i] = steps[i + 1]
  BY <1>2
<1>4. b \notin Elements(steps[i + 1].row[q])
  BY <1>3 DEF Exclusive
<1> QED BY <1>3, <1>4

\* A transfer that landed has no blocks any more.
LEMMA LandFlights ==
  ASSUME SplitInv, Flights, Exclusive, NEW r \in Req, Land(r)
  PROVE  Flights' /\ Exclusive'
<1>1. /\ steps' = steps /\ turn' = turn /\ deferred' = deferred /\ status' = status
      /\ rows' = rows /\ now' = now /\ loads' = [loads EXCEPT ![r] = NoLoad]
  BY DEF Land, reqVars, kvVars
<1>2. loads \in [Req -> LoadType]
  BY DEF SplitInv, Control, Typed
<1>3. NoLoad.blocks = << >> /\ Elements(<< >>) = {}
  BY DEF NoLoad, Elements
<1>4. \A q \in Req : Elements(loads'[q].blocks) \subseteq Elements(loads[q].blocks)
  <2> TAKE q \in Req
  <2>1. loads'[q] = loads[q] \/ loads'[q] = NoLoad
    BY <1>1, <1>2
  <2> QED BY <1>3, <2>1
<1> QED BY <1>1, <1>4, FlightsSame, ExclusiveSame

LEMMA AbortExclusive ==
  ASSUME Exclusive, NEW r \in Req, Abort(r)
  PROVE  Exclusive'
<1>1. steps' = steps /\ loads' = loads
  BY DEF Abort, deviceVars
<1> QED BY <1>1, ExclusiveSame

LEMMA FlightsInit == Init => Flights /\ Exclusive
<1> SUFFICES ASSUME Init
             PROVE  Flights /\ Exclusive
  OBVIOUS
<1>1. DOMAIN steps = {}
  BY DEF Init
<1> QED BY <1>1 DEF Flights, Exclusive

LEMMA FlightsStep ==
  SplitInv /\ Flying /\ Flights /\ Exclusive /\ [Next]_vars => Flights' /\ Exclusive'
<1> SUFFICES ASSUME SplitInv, Flying, Flights, Exclusive, [Next]_vars
             PROVE  Flights' /\ Exclusive'
  OBVIOUS
<1>1. CASE Schedule
  BY <1>1, ScheduleFlights
<1>2. CASE ScheduleRunning
  BY <1>2, RunningFlights
<1>3. CASE Preempt
  BY <1>3, PreemptFlights
<1>4. CASE AskConnector \/ SkipProbe \/ AskForOne \/ TurnAway
  BY <1>4, AskFlights
<1>5. CASE Park
  BY <1>5, ParkFlights
<1>6. CASE Admit
  BY <1>6, AdmitFlights
<1>7. CASE Finish
  BY <1>7, FinishFlights
<1>8. ASSUME NEW stop \in SUBSET Req, Process(stop)
      PROVE  Flights' /\ Exclusive'
  BY <1>8, ProcessFlights, ProcessExclusive
<1>9. ASSUME NEW r \in Req, Arrive(r)
      PROVE  Flights' /\ Exclusive'
  BY <1>9, ArriveFlights
<1>10. ASSUME NEW r \in Req, Land(r)
       PROVE  Flights' /\ Exclusive'
  BY <1>10, LandFlights
<1>11. ASSUME NEW r \in Req, Abort(r)
       PROVE  Flights' /\ Exclusive'
  BY <1>11, AbortFlights, AbortExclusive
<1>12. CASE UNCHANGED vars
  <2>1. /\ steps' = steps /\ turn' = turn /\ deferred' = deferred /\ status' = status
        /\ rows' = rows /\ now' = now /\ loads' = loads
    BY <1>12 DEF vars, reqVars, kvVars, deviceVars
  <2> QED BY <2>1, BothSame
<1> QED BY <1>1, <1>2, <1>3, <1>4, <1>5, <1>6, <1>7, <1>8, <1>9, <1>10, <1>11, <1>12
        DEF Next, Engine

\* The steps in flight are covered, and apart from the transfers, in every
\* state of the specification.
THEOREM FlightsHold == Spec => [](SplitInv /\ Flying /\ Flights /\ Exclusive)
<1>1. Init => SplitInv /\ Flying /\ Flights /\ Exclusive
  BY SplitInvInit, FlightsInit
<1>2. SplitInv /\ Flying /\ Flights /\ Exclusive /\ [Next]_vars
        => (SplitInv /\ Flying /\ Flights /\ Exclusive)'
  BY SplitInvStep, FlightsStep
<1> QED BY <1>1, <1>2, PTL DEF Spec

\* A transfer in flight shares no block with a step in flight or with the table
\* of another request: whatever the device and the connector's workers write,
\* in either order, lands in different blocks.
THEOREM ExclusiveHolds == Spec => []LoadsAreExclusive
<1>1. SplitInv /\ Flying /\ Flights /\ Exclusive => LoadsAreExclusive
  <2> SUFFICES ASSUME SplitInv, Exclusive, NEW r \in Req, NEW b \in Elements(loads[r].blocks)
               PROVE  /\ \A i \in DOMAIN steps : \A q \in Req :
                           b \notin Elements(steps[i].row[q])
                      /\ \A q \in Req \ {r} : b \notin Elements(rows[q])
    BY DEF LoadsAreExclusive
  <2> QED BY TransferBlocks DEF Exclusive
<1> QED BY <1>1, FlightsHold, PTL
------------------------------------------------------------------------------
(***************************************************************************)
(* What a block holds when the device is through with the steps it has.    *)
(***************************************************************************)

\* The recursive function the fold of Held is defined by.
HeldRec(g, x, b, s, n) ==
  g = [t \in SUBSET (1 .. n) |->
         IF t = {} THEN x ELSE WrittenBy(s[Max(t)], b, g[t \ {Max(t)}])]

LEMMA HeldRecExists ==
  ASSUME NEW x, NEW b, NEW s, NEW n \in Nat
  PROVE  \E g : HeldRec(g, x, b, s, n)
<1> DEFINE bad == {k \in Nat : ~ \E g : HeldRec(g, x, b, s, k)}
<1> SUFFICES ASSUME bad # {}
             PROVE  FALSE
  OBVIOUS
<1>1. PICK k \in bad : \A j \in bad : k <= j
  <2>1. bad \subseteq Nat
    OBVIOUS
  <2> HIDE DEF bad
  <2> QED BY <2>1, LeastNatural
<1>2. k # 0
  <2>1. SUBSET (1 .. 0) = {{}}
    OBVIOUS
  <2>2. HeldRec([t \in SUBSET (1 .. 0) |-> x], x, b, s, 0)
    BY <2>1 DEF HeldRec
  <2> QED BY <2>2
<1>3. PICK f : HeldRec(f, x, b, s, k - 1)
  <2>1. k - 1 \in Nat /\ ~ (k <= k - 1)
    BY <1>2
  <2> QED BY <1>1, <2>1
<1> DEFINE g == [t \in SUBSET (1 .. k) |->
                   IF t = {} THEN x ELSE WrittenBy(s[Max(t)], b, f[t \ {Max(t)}])]
<1>4. \A t \in SUBSET (1 .. k - 1) : t \in SUBSET (1 .. k) /\ g[t] = f[t]
  <2>1. \A t \in SUBSET (1 .. k - 1) : t \in SUBSET (1 .. k)
    OBVIOUS
  <2> QED BY <1>3, <2>1 DEF HeldRec
<1>5. \A t \in SUBSET (1 .. k) : t # {} =>
        WrittenBy(s[Max(t)], b, f[t \ {Max(t)}]) = WrittenBy(s[Max(t)], b, g[t \ {Max(t)}])
  <2> TAKE t \in SUBSET (1 .. k)
  <2> HAVE t # {}
  <2>1. t \ {Max(t)} \in SUBSET (1 .. k - 1)
    BY <1>2, WithoutMax
  <2>2. g[t \ {Max(t)}] = f[t \ {Max(t)}]
    BY <1>4, <2>1
  <2> QED BY <2>2
<1>6. HeldRec(g, x, b, s, k)
  BY <1>5, Zenon DEF HeldRec
<1> QED BY <1>1, <1>6

\* There are two steps at most.
LEMMA HeldIs ==
  ASSUME NEW x, NEW b, NEW X, NEW s \in Seq(X)
  PROVE  /\ Len(s) = 0 => Held(x, b, s) = x
         /\ Len(s) = 1 => Held(x, b, s) = WrittenBy(s[1], b, x)
         /\ Len(s) = 2 => Held(x, b, s) = WrittenBy(s[2], b, WrittenBy(s[1], b, x))
<1> DEFINE n == Len(s)
           f == CHOOSE g : HeldRec(g, x, b, s, n)
<1>1. n \in Nat /\ DOMAIN s = 1 .. n
  OBVIOUS
<1>2. Held(x, b, s) = f[1 .. n]
  BY <1>1 DEF Held, FoldLeft, MapThenFoldSet, HeldRec
<1>3. HeldRec(f, x, b, s, n)
  <2> HIDE DEF n
  <2> QED BY <1>1, HeldRecExists
<1> HIDE DEF f
<1>4. f[1 .. 0] = x
  <2>1. 1 .. 0 = {} /\ {} \in SUBSET (1 .. n)
    OBVIOUS
  <2> HIDE DEF n
  <2> QED BY <1>1, <1>3, <2>1 DEF HeldRec
<1>5. ASSUME NEW k \in 1 .. n
      PROVE  f[1 .. k] = WrittenBy(s[k], b, f[1 .. k - 1])
  <2> DEFINE t == 1 .. k
  <2>1. t \in SUBSET (1 .. n) /\ t # {} /\ Max(t) = k /\ t \ {k} = 1 .. k - 1
    BY <1>1, MaxUpTo
  <2> HIDE DEF t, n
  <2>2. f[t] = WrittenBy(s[Max(t)], b, f[t \ {Max(t)}])
    BY <1>3, <2>1 DEF HeldRec
  <2> QED BY <2>1, <2>2 DEF t
<1> HIDE DEF n
<1>6. n = 0 => Held(x, b, s) = x
  BY <1>2, <1>4
<1>7. n = 1 => Held(x, b, s) = WrittenBy(s[1], b, x)
  <2> HAVE n = 1
  <2>1. 1 \in 1 .. n /\ 1 - 1 = 0
    OBVIOUS
  <2>2. f[1 .. 1] = WrittenBy(s[1], b, f[1 .. 1 - 1])
    BY <1>5, <2>1
  <2> QED BY <1>2, <1>4, <2>1, <2>2
<1>8. n = 2 => Held(x, b, s) = WrittenBy(s[2], b, WrittenBy(s[1], b, x))
  <2> HAVE n = 2
  <2>1. 1 \in 1 .. n /\ 1 - 1 = 0 /\ 2 \in 1 .. n /\ 2 - 1 = 1
    OBVIOUS
  <2>2. f[1 .. 1] = WrittenBy(s[1], b, f[1 .. 1 - 1])
    BY <1>5, <2>1
  <2>3. f[1 .. 2] = WrittenBy(s[2], b, f[1 .. 2 - 1])
    BY <1>5, <2>1
  <2> QED BY <1>2, <1>4, <2>1, <2>2, <2>3
<1> QED BY <1>6, <1>7, <1>8 DEF n

LEMMA EventuallyIs ==
  /\ \A b : Eventually(b) = Held(content[b], b, steps)
  /\ \A b : Eventually(b)' = Held(content'[b], b, steps')
BY DEF Eventually

\* A step that does not write a block leaves it, and one that does writes the
\* text of the position it computes there.
Writes(s, b) ==
  \E r \in Req : \E i \in 1 .. MaxLen :
    s.from[r] < i /\ i <= s.to[r] /\ s.row[r][i] = b

LEMMA WrittenOrNot ==
  ASSUME NEW s, NEW b, NEW x
  PROVE  /\ ~ Writes(s, b) => WrittenBy(s, b, x) = x
         /\ Writes(s, b) =>
              \E r \in Req : \E i \in 1 .. MaxLen :
                /\ s.from[r] < i /\ i <= s.to[r] /\ s.row[r][i] = b
                /\ WrittenBy(s, b, x) = BlockHash[r][i]
<1> DEFINE at == {w \in Req \X (1 .. MaxLen) :
                    /\ s.from[w[1]] < w[2] /\ w[2] <= s.to[w[1]]
                    /\ s.row[w[1]][w[2]] = b}
           v == CHOOSE w \in at : TRUE
<1>1. WrittenBy(s, b, x) = IF at = {} THEN x ELSE BlockHash[v[1]][v[2]]
  BY DEF WrittenBy
<1>2. \A r \in Req : \A i \in 1 .. MaxLen :
        s.from[r] < i /\ i <= s.to[r] /\ s.row[r][i] = b => <<r, i>> \in at
  OBVIOUS
<1>3. \A w \in at : /\ w[1] \in Req /\ w[2] \in 1 .. MaxLen
                    /\ s.from[w[1]] < w[2] /\ w[2] <= s.to[w[1]]
                    /\ s.row[w[1]][w[2]] = b
  OBVIOUS
<1>4. at # {} => v \in at
  OBVIOUS
<1> HIDE DEF at, v
<1>5. Writes(s, b) <=> at # {}
  BY <1>2, <1>3 DEF Writes
<1> QED BY <1>1, <1>3, <1>4, <1>5

------------------------------------------------------------------------------
(***************************************************************************)
(* The text of the blocks.  What the step that is being made will write is *)
(* not there yet; every other published block holds the text it is cached  *)
(* under when the steps in flight are done, and every other position a     *)
(* request counts as computed holds the request's own.                     *)
(***************************************************************************)

Written(b) ==
  \E r \in Elements(running) : \E i \in computed[r] + 1 .. computed[r] + now.plan[r] :
    rows[r][i] = b

CachedText ==
  \A b \in Blocks : ~ Written(b) /\ pool.hash[b] # NoKey => Eventually(b) = pool.hash[b]

Loaded(r, i) == loads[r] = NoLoad \/ i < loads[r].from
RowText(r) ==
  \A i \in 1 .. computed[r] :
    ~ Written(rows[r][i]) /\ Loaded(r, i) => Eventually(rows[r][i]) = BlockHash[r][i]
RowTexts == \A r \in Req : r \notin Elements(now.preempted) => RowText(r)

TextInv == CachedText /\ RowTexts

\* Outside schedule() no step is being made.
LEMMA NothingWritten ==
  ASSUME SplitInv, now.at = "idle"
  PROVE  /\ now = Idle /\ Elements(now.preempted) = {}
         /\ \A b : ~ Written(b)
<1>1. Typed /\ now = Idle /\ running \in Seq(Req)
  BY DEF SplitInv, Control, Turns, Typed
<1>2. \A r \in Elements(running) : computed[r] \in Nat /\ now.plan[r] = 0
  <2>1. \A r \in Elements(running) : r \in Req
    BY <1>1 DEF Elements
  <2> QED BY <1>1, <2>1, TypedFacts, IdleFacts
<1>3. \A b : ~ Written(b)
  BY <1>2 DEF Written
<1> QED BY <1>1, <1>3, IdleFacts

\* What a request counts as computed is in its table.
LEMMA ComputedInTable ==
  ASSUME SplitInv, NEW r \in Req, r \notin Elements(now.preempted)
  PROVE  /\ computed[r] \in Nat /\ now.plan[r] \in Nat /\ Len(rows[r]) \in Nat
         /\ rows[r] \in Seq(Blocks) /\ numCached[r] \in Nat /\ numCached[r] <= Len(rows[r])
         /\ computed[r] + now.plan[r] <= Len(rows[r]) /\ Len(rows[r]) < MaxLen
         /\ \A i \in 1 .. Len(rows[r]) : /\ rows[r][i] \in Blocks /\ i \in 1 .. MaxLen
                                         /\ rows[r][i] \in Elements(rows[r])
<1>1. /\ BlocksInv /\ Typed /\ SizeOf(r)
  BY DEF SplitInv, Control, Sizes
<1>2. /\ computed[r] \in Nat /\ now.plan[r] \in Nat /\ Len(rows[r]) \in Nat
      /\ rows[r] \in Seq(Blocks) /\ numCached[r] \in Nat /\ numCached[r] <= Len(rows[r])
      /\ Len(rows[r]) < MaxLen /\ MaxLen \in Nat
  BY <1>1, TypedFacts, Constants DEF BlocksInv, BlocksTyped, Lengths
<1>3. computed[r] + now.plan[r] <= Len(rows[r])
  BY <1>1 DEF SizeOf
<1> QED BY <1>2, <1>3 DEF Elements

\* What changes no block, no hash and no transfer, and plans nothing less,
\* keeps the text; a request may lose what it had computed.
LEMMA TextSame ==
  ASSUME TextInv, content' = content, steps' = steps, loads' = loads,
         \A b \in Blocks : pool'.hash[b] = pool.hash[b],
         \A b : Written(b) => Written(b)',
         \A r \in Req : r \notin Elements(now'.preempted) =>
           /\ r \notin Elements(now.preempted)
           /\ \/ rows'[r] = rows[r] /\ computed'[r] = computed[r]
              \/ computed'[r] = 0
  PROVE  TextInv'
<1>1. \A b : Eventually(b)' = Eventually(b)
  BY EventuallyIs
<1>2. CachedText'
  BY <1>1 DEF TextInv, CachedText
<1>3. ASSUME NEW r \in Req, r \notin Elements(now'.preempted)
      PROVE  RowText(r)'
  <2>1. RowText(r)
    BY <1>3 DEF TextInv, RowTexts
  <2>2. CASE rows'[r] = rows[r] /\ computed'[r] = computed[r]
    BY <1>1, <2>1, <2>2 DEF RowText, Loaded
  <2>3. CASE computed'[r] = 0
    <3>1. 1 .. computed'[r] = {}
      BY <2>3
    <3> QED BY <3>1 DEF RowText
  <2> QED BY <1>3, <2>2, <2>3
<1> QED BY <1>2, <1>3 DEF TextInv, RowTexts

\* An allocation: what it publishes of the text that was computed before is
\* the request's own, and the rest is written by the step.
LEMMA GrewText ==
  ASSUME SplitInv, TextInv, NEW r \in Req, NEW hit, NEW upTo \in Nat, GrewBy(r, hit, upTo),
         loads[r] = NoLoad, r \notin Elements(now.preempted),
         content' = content, steps' = steps, loads' = loads,
         now'.preempted = now.preempted,
         \A b : Written(b) => Written(b)',
         \A q \in Req \ {r} : computed'[q] = computed[q],
         computed'[r] \in Nat,
         \/ hit = << >> /\ computed'[r] = computed[r]
         \/ rows[r] = << >> /\ computed'[r] <= Len(hit),
         \A i \in computed'[r] + 1 .. upTo : Written(rows[r][i])'
  PROVE  TextInv'
<1>1. PICK new : Fresh(new, hit) /\ Grows(r, hit, new, upTo)
  BY DEF GrewBy
<1>2. /\ BlocksInv /\ BlocksTyped /\ Rows /\ rows \in [Req -> Seq(Blocks)] /\ IsHit(r, hit)
      /\ numCached[r] \in Nat /\ hit \in Seq(Blocks) /\ Len(hit) \in Nat /\ Len(hit) < MaxLen
      /\ \A i \in 1 .. Len(hit) : pool.hash[hit[i]] = BlockHash[r][i]
  BY DEF SplitInv, BlocksInv, BlocksTyped, GrewBy, IsHit
<1> DEFINE already == numCached[r] + Len(hit)
<1>0. PICK row : row = rows[r] \o hit \o new
  OBVIOUS
<1>3. GrownRow(r, hit, new, row)
  BY <1>0, <1>1, <1>2, RowGrows
<1>4. /\ rows' = [rows EXCEPT ![r] = row]
      /\ \A i \in already + 1 .. upTo : pool'.hash[row[i]] = BlockHash[r][i]
      /\ \A b \in Blocks : (\A i \in already + 1 .. upTo : row[i] # b) =>
           pool'.hash[b] = IF b \in Elements(new) THEN NoKey ELSE pool.hash[b]
  BY <1>0, <1>1 DEF Grows
<1>5. rows'[r] = row /\ \A q \in Req \ {r} : rows'[q] = rows[q]
  BY <1>2, <1>4
<1>6. /\ already \in Nat /\ Len(hit) <= already
      /\ computed[r] \in Nat /\ Len(rows[r]) \in Nat /\ computed[r] <= Len(rows[r])
      /\ \A i \in 1 .. Len(rows[r]) : rows[r][i] \in Blocks /\ row[i] = rows[r][i]
      /\ \A i \in 1 .. Len(hit) : hit[i] \in Blocks /\ row[i] = hit[i]
  <2>1. /\ computed[r] \in Nat /\ Len(rows[r]) \in Nat /\ now.plan[r] \in Nat
        /\ computed[r] + now.plan[r] <= Len(rows[r])
        /\ \A i \in 1 .. Len(rows[r]) : rows[r][i] \in Blocks
    BY ComputedInTable
  <2>2. \A i \in 1 .. Len(hit) : hit[i] \in Blocks
    BY <1>2
  <2>3. already \in Nat /\ Len(hit) <= already /\ computed[r] <= Len(rows[r])
    BY <1>2, <2>1
  <2> QED BY <1>3, <2>1, <2>2, <2>3 DEF GrownRow
<1> HIDE DEF already
<1>7. \A b : Eventually(b)' = Eventually(b)
  BY EventuallyIs
<1>8. CachedText /\ RowText(r) /\ \A i : Loaded(r, i)
  BY DEF TextInv, RowTexts, Loaded
<1>9. ASSUME NEW b \in Blocks, ~ Written(b)', pool'.hash[b] # NoKey
      PROVE  Eventually(b) = pool'.hash[b]
  <2>1. ~ Written(b)
    BY <1>9
  <2>2. CASE \E i \in already + 1 .. upTo : row[i] = b
    <3>1. PICK i \in already + 1 .. upTo : row[i] = b
      BY <2>2
    <3>2. i \in Nat /\ i >= 1 /\ already < i /\ i <= upTo
      BY <1>6, <3>1
    <3>3. i <= computed'[r]
      <4> SUFFICES ASSUME ~ (i <= computed'[r])
                   PROVE  FALSE
        OBVIOUS
      <4>1. i \in computed'[r] + 1 .. upTo
        BY <3>2
      <4> QED BY <1>5, <1>9, <3>1, <4>1
    <3>4. hit = << >> /\ computed'[r] = computed[r]
      BY <1>2, <1>6, <3>2, <3>3
    <3>5. i \in 1 .. computed[r] /\ i \in 1 .. Len(rows[r])
      BY <1>6, <3>2, <3>3, <3>4
    <3>6. rows[r][i] = b
      BY <1>6, <3>1, <3>5
    <3> QED BY <1>4, <1>8, <2>1, <3>1, <3>5, <3>6 DEF RowText
  <2>3. CASE \A i \in already + 1 .. upTo : row[i] # b
    <3>1. pool'.hash[b] = pool.hash[b]
      BY <1>4, <1>9, <2>3
    <3> QED BY <1>8, <1>9, <2>1, <3>1 DEF CachedText
  <2> QED BY <2>2, <2>3
<1>10. ASSUME NEW i \in 1 .. computed'[r], ~ Written(row[i])'
       PROVE  Eventually(row[i]) = BlockHash[r][i]
  <2>1. CASE hit = << >> /\ computed'[r] = computed[r]
    <3>1. i \in 1 .. computed[r] /\ i \in 1 .. Len(rows[r])
      BY <1>6, <2>1
    <3>2. row[i] = rows[r][i] /\ ~ Written(rows[r][i])
      BY <1>6, <1>10, <3>1
    <3> QED BY <1>8, <3>1, <3>2 DEF RowText
  <2>2. CASE rows[r] = << >> /\ computed'[r] <= Len(hit)
    <3>1. i \in 1 .. Len(hit) /\ i \in 1 .. MaxLen
      BY <1>2, <2>2, Constants
    <3>2. /\ row[i] = hit[i] /\ hit[i] \in Blocks /\ ~ Written(hit[i])
          /\ pool.hash[hit[i]] = BlockHash[r][i] /\ BlockHash[r][i] # NoKey
      BY <1>2, <1>6, <1>10, <3>1, TextHashes
    <3> QED BY <1>8, <3>2 DEF CachedText
  <2> QED BY <2>1, <2>2
<1>11. CachedText'
  BY <1>7, <1>9 DEF CachedText
<1>12. RowText(r)'
  <2>1. rows'[r] = row
    BY <1>5
  <2> QED BY <1>7, <1>10, <2>1 DEF RowText
<1>13. ASSUME NEW q \in Req \ {r}, q \notin Elements(now'.preempted)
       PROVE  RowText(q)'
  <2>1. RowText(q)
    BY <1>13 DEF TextInv, RowTexts
  <2>2. rows'[q] = rows[q] /\ computed'[q] = computed[q]
    BY <1>5
  <2> QED BY <1>7, <2>1, <2>2 DEF RowText, Loaded
<1> QED BY <1>11, <1>12, <1>13 DEF TextInv, RowTexts

\* Nobody else's table grows.
LEMMA GrewAlone ==
  ASSUME SplitInv, NEW r \in Req, NEW hit, NEW upTo, GrewBy(r, hit, upTo)
  PROVE  \A q \in Req \ {r} : rows'[q] = rows[q]
<1>1. PICK new : Grows(r, hit, new, upTo)
  BY DEF GrewBy
<1>2. rows' = [rows EXCEPT ![r] = rows[r] \o hit \o new] /\ rows \in [Req -> Seq(Blocks)]
  BY <1>1 DEF Grows, SplitInv, BlocksInv, BlocksTyped
<1> QED BY <1>2

\* A transfer is in flight only for a request that is loading.
LEMMA NoTransfer ==
  ASSUME SplitInv, NEW r \in Req, status[r] # "loading"
  PROVE  loads[r] = NoLoad
BY DEF SplitInv, Control, Transfers, TransferOf

\* The running loop.
LEMMA RunningText ==
  ASSUME SplitInv, TextInv, ScheduleRunning
  PROVE  TextInv'
<1>1. /\ content' = content /\ steps' = steps /\ loads' = loads
      /\ computed' = computed /\ running' = running
  BY DEF ScheduleRunning, reqVars, deviceVars, queueVars
<1>2. PICK r : r = running[now.pos]
  OBVIOUS
<1>3. PICK n : n = Work(r)
  OBVIOUS
<1>4. PICK upTo : upTo = CacheUpTo(r, computed[r] + n, FALSE)
  OBVIOUS
<1>5. /\ r \in Req /\ r \in Elements(running) /\ status[r] = "running"
      /\ r \notin Elements(now.preempted) /\ now.plan[r] = 0 /\ n \in Nat
      /\ now'.plan = [now.plan EXCEPT ![r] = n] /\ now'.preempted = now.preempted
      /\ \/ n = 0 /\ pool' = pool /\ rows' = rows /\ numCached' = numCached
         \/ n > 0 /\ GrewBy(r, << >>, upTo)
  BY <1>2, <1>3, <1>4, RunningGrew
<1>6. /\ Typed /\ now.plan \in [Req -> Nat] /\ numTokens[r] \in Nat /\ computed[r] \in Nat
      /\ loads[r] = NoLoad /\ running \in Seq(Req)
  BY <1>5, NoTransfer, TypedFacts DEF SplitInv, Control, Typed
<1>7. upTo \in Nat /\ upTo <= computed[r] + n
  <2>1. computed[r] + n \in Nat
    BY <1>5, <1>6
  <2> QED BY <1>4, <1>5, <1>6, <2>1, CacheUpToBound
<1>8. now'.plan[r] = n /\ \A q \in Req \ {r} : now'.plan[q] = now.plan[q]
  BY <1>5, <1>6
<1>9. \A q \in Req \ {r} : rows'[q] = rows[q]
  BY <1>5, GrewAlone
<1>10. ASSUME NEW b, Written(b)
       PROVE  Written(b)'
  <2>1. PICK q \in Elements(running) :
               \E i \in computed[q] + 1 .. computed[q] + now.plan[q] : rows[q][i] = b
    BY <1>10 DEF Written
  <2>2. q \in Req /\ q # r
    <3>1. q \in Req
      BY <1>6 DEF Elements
    <3>2. computed[r] + 1 .. computed[r] + now.plan[r] = {}
      BY <1>5, <1>6
    <3> QED BY <2>1, <3>1, <3>2
  <2>3. rows'[q] = rows[q] /\ now'.plan[q] = now.plan[q] /\ computed'[q] = computed[q]
    BY <1>1, <1>8, <1>9, <2>2
  <2> QED BY <1>1, <2>1, <2>3 DEF Written
<1>11. CASE n = 0 /\ pool' = pool /\ rows' = rows /\ numCached' = numCached
  BY <1>1, <1>5, <1>10, <1>11, TextSame
<1>12. CASE n > 0 /\ GrewBy(r, << >>, upTo)
  <2>1. ASSUME NEW i \in computed'[r] + 1 .. upTo
        PROVE  Written(rows[r][i])'
    <3>1. /\ computed'[r] = computed[r] /\ now'.plan[r] = n /\ n \in Nat
          /\ computed[r] \in Nat /\ upTo \in Nat /\ upTo <= computed[r] + n
      BY <1>1, <1>5, <1>6, <1>7, <1>8
    <3>2. i \in computed'[r] + 1 .. computed'[r] + now'.plan[r]
      BY <3>1
    <3> QED BY <1>1, <1>5, <3>2 DEF Written
  <2>2. computed'[r] \in Nat /\ computed'[r] = computed[r] /\ << >> = << >>
    BY <1>1, <1>6
  <2> QED BY <1>1, <1>5, <1>6, <1>7, <1>10, <1>12, <2>1, <2>2, GrewText
<1> QED BY <1>5, <1>11, <1>12

\* The parked arm: its table waits for the transfer, and nothing is published.
LEMMA ParkText ==
  ASSUME SplitInv, TextInv, Park
  PROVE  TextInv'
<1>1. /\ content' = content /\ steps' = steps /\ loads' = loads
      /\ computed' = computed /\ running' = running
  BY DEF Park, reqVars, deviceVars, queueVars
<1>2. PICK r : r = Candidate
  OBVIOUS
<1>3. /\ CandidateIs(r) /\ computed[r] = 0 /\ now'.plan = now.plan
      /\ now'.preempted = now.preempted
  BY <1>2, ParkGrew
<1>4. PICK hit : GrewBy(r, hit, 0)
  BY <1>2, ParkGrew
<1>5. /\ r \in Req /\ r \notin Elements(running) /\ r \notin Elements(now.preempted)
      /\ rows[r] = << >> /\ status[r] = "waiting"
  BY <1>3 DEF CandidateIs
<1>6. loads[r] = NoLoad /\ running \in Seq(Req)
  BY <1>5, NoTransfer DEF SplitInv, Control, Typed
<1>7. \A q \in Req \ {r} : rows'[q] = rows[q]
  BY <1>4, <1>5, GrewAlone
<1>8. ASSUME NEW b, Written(b)
      PROVE  Written(b)'
  <2>1. \A q \in Elements(running) : rows'[q] = rows[q]
    <3>1. \A q \in Elements(running) : q \in Req \ {r}
      BY <1>5, <1>6 DEF Elements
    <3> QED BY <1>7, <3>1
  <2> QED BY <1>1, <1>3, <1>8, <2>1 DEF Written
<1>9. Len(hit) \in Nat
  BY <1>4 DEF GrewBy, IsHit
<1>10. computed'[r] \in Nat /\ computed'[r] <= Len(hit) /\ computed'[r] + 1 .. 0 = {}
  BY <1>1, <1>3, <1>9
<1> QED BY <1>1, <1>3, <1>4, <1>5, <1>6, <1>8, <1>10, GrewText

\* The ordinary arm.
LEMMA AdmitText ==
  ASSUME SplitInv, TextInv, Admit
  PROVE  TextInv'
<1>1. content' = content /\ steps' = steps /\ loads' = loads
  BY DEF Admit, deviceVars
<1>2. PICK r : r = Candidate
  OBVIOUS
<1>3. PICK base : base = Base(r)
  OBVIOUS
<1>4. PICK n : n = Chunk(numTokens[r] - base)
  OBVIOUS
<1>5. PICK upTo : upTo = CacheUpTo(r, base + n, FALSE)
  OBVIOUS
<1>6. /\ CandidateIs(r) /\ n \in Nat /\ base \in Nat
      /\ now'.plan = [now.plan EXCEPT ![r] = n] /\ now'.preempted = now.preempted
      /\ computed' = [computed EXCEPT ![r] = base] /\ running' = Append(running, r)
      /\ \E hit : /\ GrewBy(r, hit, upTo)
                  /\ \/ hit = << >> /\ base = computed[r]
                     \/ rows[r] = << >> /\ base = Len(hit)
  BY <1>2, <1>3, <1>4, <1>5, AdmitGrew
<1>7. PICK hit : /\ GrewBy(r, hit, upTo)
                 /\ \/ hit = << >> /\ base = computed[r]
                    \/ rows[r] = << >> /\ base = Len(hit)
  BY <1>6
<1>8. /\ r \in Req /\ r \notin Elements(running) /\ r \notin Elements(now.preempted)
      /\ status[r] = "waiting"
  BY <1>6 DEF CandidateIs
<1>9. /\ loads[r] = NoLoad /\ running \in Seq(Req) /\ numTokens[r] \in Nat
      /\ now.plan \in [Req -> Nat] /\ computed \in [Req -> Nat]
  BY <1>8, NoTransfer, TypedFacts DEF SplitInv, Control, Typed
<1>10. upTo \in Nat /\ upTo <= base + n
  <2>1. base + n \in Nat
    BY <1>6
  <2> QED BY <1>5, <1>8, <1>9, <2>1, CacheUpToBound
<1>11. /\ now'.plan[r] = n /\ computed'[r] = base
       /\ \A q \in Req \ {r} : now'.plan[q] = now.plan[q] /\ computed'[q] = computed[q]
       /\ \A q \in Req \ {r} : rows'[q] = rows[q]
  BY <1>6, <1>7, <1>8, <1>9, GrewAlone
<1>12. Elements(running') = Elements(running) \cup {r}
  BY <1>6, <1>8, <1>9, AppendElements
<1>13. ASSUME NEW b, Written(b)
       PROVE  Written(b)'
  <2>1. PICK q \in Elements(running) :
               \E i \in computed[q] + 1 .. computed[q] + now.plan[q] : rows[q][i] = b
    BY <1>13 DEF Written
  <2>2. q \in Req \ {r} /\ q \in Elements(running')
    <3>1. q \in Req
      BY <1>9 DEF Elements
    <3> QED BY <1>8, <1>12, <3>1
  <2>3. rows'[q] = rows[q] /\ now'.plan[q] = now.plan[q] /\ computed'[q] = computed[q]
    BY <1>11, <2>2
  <2> QED BY <2>1, <2>2, <2>3 DEF Written
<1>14. ASSUME NEW i \in computed'[r] + 1 .. upTo
       PROVE  Written(rows[r][i])'
  <2>1. i \in computed'[r] + 1 .. computed'[r] + now'.plan[r]
    BY <1>6, <1>10, <1>11
  <2>2. r \in Elements(running')
    BY <1>12
  <2> QED BY <2>1, <2>2 DEF Written
<1>15. \/ hit = << >> /\ computed'[r] = computed[r]
       \/ rows[r] = << >> /\ computed'[r] <= Len(hit)
  <2>1. Len(hit) \in Nat
    BY <1>7 DEF GrewBy, IsHit
  <2> QED BY <1>7, <1>11, <2>1
<1>16. computed'[r] \in Nat /\ \A q \in Req \ {r} : computed'[q] = computed[q]
  BY <1>6, <1>11
<1> QED BY <1>1, <1>6, <1>7, <1>8, <1>9, <1>10, <1>13, <1>14, <1>15, <1>16, GrewText

LEMMA ArriveText ==
  ASSUME SplitInv, TextInv, NEW r \in Req, Arrive(r)
  PROVE  TextInv'
<1>1. /\ content' = content /\ steps' = steps /\ loads' = loads /\ pool' = pool
      /\ rows' = rows /\ computed' = computed /\ running' = running /\ now' = now
  BY DEF Arrive, deviceVars, kvVars
<1>2. \A b : Written(b) => Written(b)'
  BY <1>1 DEF Written
<1> QED BY <1>1, <1>2, TextSame

\* The connector is asked, or a candidate is handed back.
LEMMA AskText ==
  ASSUME SplitInv, TextInv, AskConnector \/ SkipProbe \/ AskForOne \/ TurnAway
  PROVE  TextInv'
<1>1. /\ content' = content /\ steps' = steps /\ loads' = loads /\ pool' = pool
      /\ rows' = rows /\ computed' = computed /\ running' = running
  BY DEF AskConnector, SkipProbe, AskForOne, TurnAway, kvVars, reqVars, deviceVars, queueVars
<1>2. now \in NowType
  BY DEF SplitInv, Control, Typed
<1>3. now'.preempted = now.preempted /\ now'.plan = now.plan
  <2>1. CASE AskConnector
    BY <1>2, <2>1 DEF AskConnector, NowType
  <2>2. CASE SkipProbe
    BY <1>2, <2>2 DEF SkipProbe, NowType
  <2>3. CASE AskForOne
    BY <1>2, <2>3 DEF AskForOne, NowType
  <2>4. CASE TurnAway
    BY <1>2, <2>4 DEF TurnAway, NowType
  <2> QED BY <2>1, <2>2, <2>3, <2>4
<1>4. \A b : Written(b) => Written(b)'
  BY <1>1, <1>3 DEF Written
<1> QED BY <1>1, <1>3, <1>4, TextSame

\* A victim has no plan yet, and its blocks keep what they are cached as.
LEMMA PreemptText ==
  ASSUME SplitInv, TextInv, Preempt
  PROVE  TextInv'
<1>1. PICK v : v = Last(running)
  OBVIOUS
<1>2. /\ Looping /\ pool' = FreeRows(pool, <<v>>) /\ ForgetRows({v})
      /\ running' = Front(running) /\ now' = [now EXCEPT !.preempted = Append(@, v)]
      /\ content' = content /\ steps' = steps /\ loads' = loads /\ deferred' = deferred
      /\ computed' = computed
  BY <1>1 DEF Preempt, reqVars, deviceVars
<1>3. /\ now \in NowType /\ StepQueues /\ running \in Seq(Req) /\ now.pos \in DOMAIN running
      /\ now.at = "running" /\ Phases /\ BlocksInv /\ Typed
  BY <1>2, LoopFacts DEF SplitInv, Control
<1>4. running # << >> /\ Distinct(running)
  BY <1>3 DEF StepQueues
<1>5. /\ v \in Req /\ v = running[Len(running)] /\ Len(running) \in DOMAIN running
      /\ Elements(running') = Elements(running) \ {v}
  BY <1>1, <1>2, <1>3, <1>4, FrontElements
<1>6. now.plan[v] = 0
  <2>1. Len(running) >= now.pos
    BY <1>3, TypedFacts
  <2> QED BY <1>3, <1>5, <2>1 DEF Phases
<1>7. /\ \A q \in Req \ {v} : rows'[q] = rows[q]
      /\ \A b \in Blocks : pool'.hash[b] = pool.hash[b]
  BY <1>2, <1>3, <1>5, FreeOneKeeps
<1>8. /\ now.preempted \in Seq(Req) /\ now'.preempted = Append(now.preempted, v)
      /\ now'.plan = now.plan
  BY <1>2, <1>3 DEF NowType
<1>9. Elements(now'.preempted) = Elements(now.preempted) \cup {v}
  BY <1>5, <1>8, AppendElements
<1>10. ASSUME NEW b, Written(b)
       PROVE  Written(b)'
  <2>1. PICK q \in Elements(running) :
               \E i \in computed[q] + 1 .. computed[q] + now.plan[q] : rows[q][i] = b
    BY <1>10 DEF Written
  <2>2. computed[v] \in Nat /\ computed[v] + 1 .. computed[v] + now.plan[v] = {}
    BY <1>3, <1>5, <1>6, TypedFacts
  <2>3. q \in Req /\ q # v /\ q \in Elements(running')
    <3>1. q \in Req
      BY <1>3 DEF Elements
    <3> QED BY <1>5, <2>1, <2>2, <3>1
  <2>4. rows'[q] = rows[q]
    BY <1>7, <2>3
  <2> QED BY <1>2, <1>8, <2>1, <2>3, <2>4 DEF Written
<1>11. \A r \in Req : r \notin Elements(now'.preempted) =>
         r \notin Elements(now.preempted) /\ rows'[r] = rows[r] /\ computed'[r] = computed[r]
  BY <1>2, <1>7, <1>9
<1> QED BY <1>2, <1>7, <1>10, <1>11, TextSame

LEMMA AbortText ==
  ASSUME SplitInv, TextInv, NEW r \in Req, Abort(r)
  PROVE  TextInv'
<1>1. /\ content' = content /\ steps' = steps /\ loads' = loads /\ now' = now
      /\ now.at = "idle" /\ computed' = [computed EXCEPT ![r] = 0]
  BY DEF Abort, deviceVars
<1>2. computed \in [Req -> Nat]
  BY DEF SplitInv, Control, Typed
<1>3. /\ \A q \in Req \ {r} : rows'[q] = rows[q]
      /\ \A b \in Blocks : pool'.hash[b] = pool.hash[b]
  BY AbortBlocks
<1>4. \A b : ~ Written(b)
  BY <1>1, NothingWritten
<1>5. \A q \in Req : \/ rows'[q] = rows[q] /\ computed'[q] = computed[q]
                     \/ computed'[q] = 0
  BY <1>1, <1>2, <1>3
<1> QED BY <1>1, <1>3, <1>4, <1>5, TextSame

\* The part of a table from position n + 1 on.
LEMMA TailOfRow ==
  ASSUME NEW row \in Seq(Blocks), NEW n \in Nat, n <= Len(row)
  PROVE  /\ DOMAIN SubSeq(row, n + 1, Len(row)) = 1 .. Len(row) - n
         /\ \A j \in 1 .. Len(row) - n : SubSeq(row, n + 1, Len(row))[j] = row[n + j]
<1> DEFINE s == SubSeq(row, n + 1, Len(row))
           m == Len(row)
<1>1. m \in Nat /\ n \in Nat /\ n <= m
  OBVIOUS
<1>2. \A i \in n + 1 .. m : row[i] \in Blocks
  OBVIOUS
<1>3. n + 1 \in Int /\ m \in Int
  BY <1>1
<1>4. /\ s \in Seq(Blocks)
      /\ Len(s) = IF n + 1 <= m THEN m - (n + 1) + 1 ELSE 0
      /\ \A k \in 1 .. Len(s) : s[k] = row[n + 1 + k - 1]
  BY <1>2, <1>3, SubSeqProperties
<1>5. DOMAIN s = 1 .. Len(s)
  BY <1>4
<1> HIDE DEF s, m
<1>6. Len(s) = m - n
  BY <1>1, <1>4
<1>7. \A k \in 1 .. m - n : n + 1 + k - 1 = n + k
  BY <1>1
<1> QED BY <1>4, <1>5, <1>6, <1>7 DEF s, m

\* A step writes blocks of its own tables only.
LEMMA UnwrittenHeld ==
  ASSUME SplitInv, NEW b, NEW x,
         \A j \in DOMAIN steps : \A q \in Req : b \notin Elements(steps[j].row[q])
  PROVE  Held(x, b, steps) = x
<1>1. steps \in Seq(StepType) /\ Steps /\ Len(steps) <= Depth /\ Depth \in 1 .. 2
  BY Constants DEF SplitInv, Control, Typed, Turns
<1>2. Len(steps) \in 0 .. 2 /\ DOMAIN steps = 1 .. Len(steps)
  <2>1. Len(steps) \in Nat /\ DOMAIN steps = 1 .. Len(steps)
    BY <1>1
  <2> QED BY <1>1, <2>1
<1>3. ASSUME NEW j \in DOMAIN steps
      PROVE  WrittenBy(steps[j], b, x) = x
  <2>1. IsStep(steps[j]) /\ steps[j] \in StepType
    BY <1>1 DEF Steps
  <2>2. ASSUME NEW q \in Req, NEW i \in 1 .. MaxLen, i <= steps[j].to[q]
        PROVE  steps[j].row[q][i] # b
    <3>1. /\ steps[j].row[q] \in Seq(Blocks) /\ steps[j].to[q] \in Nat
          /\ steps[j].to[q] <= Len(steps[j].row[q])
      BY <2>1 DEF StepType, IsStep
    <3>2. i \in Nat /\ i >= 1
      BY <2>2
    <3>3. i \in DOMAIN steps[j].row[q]
      BY <2>2, <3>1, <3>2
    <3> QED BY <3>3 DEF Elements
  <2>3. ~ Writes(steps[j], b)
    BY <2>2 DEF Writes
  <2> QED BY <2>3, WrittenOrNot
<1>4. CASE Len(steps) = 0
  <2>1. Len(steps) = 0 => Held(x, b, steps) = x
    BY <1>1, HeldIs
  <2> QED BY <1>4, <2>1
<1>5. CASE Len(steps) = 1
  <2>1. 1 \in DOMAIN steps
    BY <1>2, <1>5
  <2> QED BY <1>1, <1>3, <1>5, <2>1, HeldIs
<1>6. CASE Len(steps) = 2
  <2>1. 1 \in DOMAIN steps /\ 2 \in DOMAIN steps
    BY <1>2, <1>6
  <2> QED BY <1>1, <1>3, <1>6, <2>1, HeldIs
<1> QED BY <1>2, <1>4, <1>5, <1>6

\* A transfer puts the text it was asked for where nobody else looks, and no
\* step in flight writes there.
LEMMA LandText ==
  ASSUME SplitInv, Exclusive, TextInv, NEW r \in Req, Land(r)
  PROVE  TextInv'
<1>1. PICK l : l = loads[r]
  OBVIOUS
<1>2. /\ l # NoLoad /\ loads' = [loads EXCEPT ![r] = NoLoad] /\ steps' = steps
      /\ content' = [b \in Blocks |->
                       IF b \in Elements(l.blocks)
                       THEN BlockHash[r][l.from - 1
                              + CHOOSE i \in DOMAIN l.blocks : l.blocks[i] = b]
                       ELSE content[b]]
      /\ pool' = pool /\ rows' = rows /\ computed' = computed /\ running' = running
      /\ now' = now
  BY <1>1 DEF Land, kvVars, reqVars, queueVars
<1>3. BlocksInv /\ Typed /\ Transfers /\ Rows /\ Hashes /\ loads \in [Req -> LoadType]
  BY DEF SplitInv, Control, BlocksInv, Typed
<1>4. /\ status[r] = "loading" /\ l.from = numCached[r] + 1
      /\ l.blocks = SubSeq(rows[r], numCached[r] + 1, Len(rows[r]))
      /\ l.blocks \in Seq(Blocks)
  BY <1>1, <1>2, <1>3 DEF Transfers, TransferOf, LoadType
<1>5. \A b \in Elements(l.blocks) :
        /\ b \in RealBlocks /\ b \in Blocks /\ pool.hash[b] = NoKey
        /\ \E i \in numCached[r] + 1 .. Len(rows[r]) : rows[r][i] = b
        /\ \A q \in Req \ {r} : b \notin Elements(rows[q])
  <2>1. \A b \in Elements(l.blocks) : b \in Blocks
    <3> DEFINE s == l.blocks
    <3>1. s \in Seq(Blocks)
      BY <1>4
    <3> HIDE DEF s
    <3>2. \A b \in Elements(s) : b \in Blocks
      BY <3>1 DEF Elements
    <3> QED BY <3>2 DEF s
  <2> QED BY <1>1, <2>1, TransferBlocks
<1>6. \A b : Eventually(b)' = Held(content'[b], b, steps)
             /\ Eventually(b) = Held(content[b], b, steps)
  BY <1>2, EventuallyIs
<1>7. \A b \in Blocks \ Elements(l.blocks) : Eventually(b)' = Eventually(b)
  BY <1>2, <1>6
<1>8. \A b : Written(b)' <=> Written(b)
  BY <1>2 DEF Written
<1>9. CachedText'
  <2> SUFFICES ASSUME NEW b \in Blocks, ~ Written(b), pool.hash[b] # NoKey
               PROVE  Eventually(b)' = pool.hash[b]
    BY <1>2, <1>8 DEF CachedText
  <2>1. b \notin Elements(l.blocks)
    BY <1>5
  <2>2. Eventually(b) = pool.hash[b]
    BY DEF TextInv, CachedText
  <2> QED BY <1>7, <2>1, <2>2
<1>10. ASSUME NEW q \in Req \ {r}, q \notin Elements(now.preempted), RowText(q)
       PROVE  RowText(q)'
  <2>1. loads'[q] = loads[q]
    BY <1>2, <1>3
  <2>2. \A i \in 1 .. computed[q] : rows[q][i] \in Blocks \ Elements(l.blocks)
    <3>1. \A i \in 1 .. computed[q] : /\ rows[q][i] \in Blocks
                                      /\ rows[q][i] \in Elements(rows[q])
      <4>1. \A i \in 1 .. computed[q] : i \in 1 .. Len(rows[q])
        BY <1>10, ComputedInTable
      <4> QED BY <1>10, <4>1, ComputedInTable
    <3> QED BY <1>5, <3>1
  <2> QED BY <1>2, <1>7, <1>8, <1>10, <2>1, <2>2 DEF RowText, Loaded
<1>11. ASSUME r \notin Elements(now.preempted), RowText(r)
       PROVE  RowText(r)'
  <2> SUFFICES ASSUME NEW i \in 1 .. computed[r], ~ Written(rows[r][i])
               PROVE  Eventually(rows[r][i])' = BlockHash[r][i]
    BY <1>2, <1>8 DEF RowText
  <2>1. /\ i \in 1 .. Len(rows[r]) /\ Len(rows[r]) \in Nat /\ numCached[r] \in Nat
        /\ numCached[r] <= Len(rows[r]) /\ rows[r] \in Seq(Blocks)
        /\ rows[r][i] \in Blocks
    <3>1. /\ computed[r] \in Nat /\ Len(rows[r]) \in Nat /\ now.plan[r] \in Nat
          /\ computed[r] + now.plan[r] <= Len(rows[r])
      BY <1>11, ComputedInTable
    <3>2. i \in 1 .. Len(rows[r])
      BY <3>1
    <3> QED BY <1>11, <3>2, ComputedInTable
  <2>2. DOMAIN rows[r] = 1 .. Len(rows[r])
        /\ \A j, k \in 1 .. Len(rows[r]) : rows[r][j] = rows[r][k] => j = k
    <3>1. Distinct(rows[r])
      BY <1>3 DEF Rows, IsRow
    <3> QED BY <2>1, <3>1 DEF Distinct
  <2>3. CASE i < l.from
    <3>1. rows[r][i] \notin Elements(l.blocks)
      <4> SUFFICES ASSUME rows[r][i] \in Elements(l.blocks)
                   PROVE  FALSE
        OBVIOUS
      <4>1. PICK k \in numCached[r] + 1 .. Len(rows[r]) : rows[r][k] = rows[r][i]
        BY <1>5
      <4>2. k \in 1 .. Len(rows[r])
        BY <2>1, <4>1
      <4>3. k = i
        BY <2>1, <2>2, <4>1, <4>2
      <4> QED BY <1>4, <2>1, <2>3, <4>1, <4>3
    <3>2. Eventually(rows[r][i]) = BlockHash[r][i]
      BY <1>1, <1>11, <2>3 DEF RowText, Loaded
    <3>3. PICK b : b = rows[r][i]
      OBVIOUS
    <3>4. Eventually(b)' = Eventually(b)
      BY <1>7, <2>1, <3>1, <3>3
    <3>5. rows'[r][i] = b
      BY <1>2, <3>3
    <3> QED BY <3>2, <3>3, <3>4, <3>5
  <2>4. CASE ~ (i < l.from)
    <3>1. PICK b : b = rows[r][i]
      OBVIOUS
    <3>2. PICK k : k = i - numCached[r]
      OBVIOUS
    <3>3. /\ k \in DOMAIN l.blocks /\ l.from - 1 + k = i
          /\ \A j \in DOMAIN l.blocks : l.blocks[j] = b <=> j = k
      <4> DEFINE n == numCached[r]
                 m == Len(rows[r])
      <4>1. /\ n \in Nat /\ m \in Nat /\ n <= m /\ i \in 1 .. m /\ ~ (i < n + 1)
            /\ k = i - n /\ l.from = n + 1
        BY <1>4, <2>1, <2>4, <3>2
      <4>2. /\ DOMAIN l.blocks = 1 .. m - n
            /\ \A j \in 1 .. m - n : l.blocks[j] = rows[r][n + j]
        BY <1>4, <2>1, TailOfRow
      <4> HIDE DEF n, m
      <4>3. k \in 1 .. m - n /\ n + k = i /\ n + 1 - 1 + k = i
        BY <4>1
      <4>4. \A j \in 1 .. m - n : n + j \in 1 .. m /\ (n + j = i => j = k)
        BY <4>1
      <4>5. \A j \in 1 .. m - n : rows[r][n + j] = b <=> j = k
        <5>1. \A j \in 1 .. m - n : rows[r][n + j] = rows[r][i] => n + j = i
          BY <2>2, <4>1, <4>4 DEF m
        <5> QED BY <3>1, <4>3, <4>4, <5>1
      <4>6. l.from - 1 + k = i
        BY <4>1, <4>3
      <4> QED BY <4>2, <4>3, <4>5, <4>6
    <3>4. b \in Elements(l.blocks)
      BY <3>3 DEF Elements
    <3>5. content'[b] = BlockHash[r][i]
      <4>1. (CHOOSE j \in DOMAIN l.blocks : l.blocks[j] = b) = k
        BY <3>3
      <4> QED BY <1>2, <1>5, <3>3, <3>4, <4>1
    <3>6. \A j \in DOMAIN steps : \A q \in Req : b \notin Elements(steps[j].row[q])
      BY <1>1, <3>4 DEF Exclusive
    <3>7. Held(content'[b], b, steps) = content'[b]
      BY <3>6, UnwrittenHeld
    <3>8. Eventually(b)' = BlockHash[r][i] /\ rows'[r][i] = b
      BY <1>2, <1>6, <3>1, <3>5, <3>7
    <3> QED BY <3>8
  <2> QED BY <2>3, <2>4
<1>12. RowTexts'
  BY <1>2, <1>10, <1>11 DEF TextInv, RowTexts
<1> QED BY <1>9, <1>12 DEF TextInv

\* A block that is in two tables is published as the same text in both, and a
\* cached block is cached as the text of its table.
LEMMA OneText ==
  ASSUME SplitInv, NEW r \in Req, NEW q \in Req, NEW i \in 1 .. Len(rows[r]),
         NEW j \in 1 .. Len(rows[q]), rows[r][i] = rows[q][j]
  PROVE  BlockHash[r][i] = BlockHash[q][j]
<1>1. BlocksInv /\ BlocksTyped /\ Rows /\ Refs /\ Hashes
  BY DEF SplitInv, BlocksInv
<1>2. CASE r = q
  <2>1. rows[r] \in Seq(Blocks) /\ Distinct(rows[r])
    BY <1>1 DEF BlocksTyped, Rows, IsRow
  <2>2. i \in DOMAIN rows[r] /\ j \in DOMAIN rows[r] /\ rows[r][i] = rows[r][j]
    BY <1>2, <2>1
  <2>3. i = j
    BY <2>1, <2>2 DEF Distinct
  <2> QED BY <1>2, <2>3
<1>3. CASE r # q
  <2>1. ASSUME NEW t \in Req, NEW u \in Req \ {t}, NEW k \in 1 .. Len(rows[t]),
               rows[t][k] \in Elements(rows[u])
        PROVE  pool.hash[rows[t][k]] = BlockHash[t][k]
    <3>1. rows[t] \in Seq(Blocks) /\ numCached[t] \in Nat /\ Len(rows[t]) \in Nat
      BY <1>1 DEF BlocksTyped
    <3>2. rows[t][k] \in Elements(rows[t])
      BY <3>1 DEF Elements
    <3>3. rows[t][k] \in RealBlocks
      BY <1>1, <3>2, HeldIsReferenced
    <3>4. pool.ref[rows[t][k]] # 1
      BY <1>1, <2>1, <3>2, <3>3, SingleHolder
    <3>5. k \notin numCached[t] + 1 .. Len(rows[t])
      BY <1>1, <3>4 DEF Hashes
    <3>6. k \in 1 .. numCached[t]
      BY <3>1, <3>5
    <3> QED BY <1>1, <3>6 DEF Hashes
  <2>2. rows[r][i] \in Elements(rows[r]) /\ rows[q][j] \in Elements(rows[q])
    <3>1. rows[r] \in Seq(Blocks) /\ rows[q] \in Seq(Blocks)
      BY <1>1 DEF BlocksTyped
    <3> QED BY <3>1 DEF Elements
  <2>3. pool.hash[rows[r][i]] = BlockHash[r][i]
    BY <1>3, <2>1, <2>2
  <2>4. pool.hash[rows[q][j]] = BlockHash[q][j]
    BY <1>3, <2>1, <2>2
  <2> QED BY <2>3, <2>4
<1> QED BY <1>2, <1>3

LEMMA CachedAs ==
  ASSUME SplitInv, NEW r \in Req, NEW i \in 1 .. Len(rows[r]),
         pool.hash[rows[r][i]] # NoKey
  PROVE  pool.hash[rows[r][i]] = BlockHash[r][i]
<1>1. Hashes /\ rows[r] \in Seq(Blocks) /\ numCached[r] \in Nat
  BY DEF SplitInv, BlocksInv, BlocksTyped
<1>2. i \notin numCached[r] + 1 .. Len(rows[r])
  BY <1>1 DEF Hashes
<1>3. i \in 1 .. numCached[r]
  BY <1>1, <1>2
<1> QED BY <1>1, <1>3 DEF Hashes

\* What schedule() publishes first is the loads that were received.
LEMMA ScheduleHashes ==
  ASSUME SplitInv, Schedule
  PROVE  \A b \in Blocks :
           \/ pool'.hash[b] = pool.hash[b]
           \/ \E r \in Promotable : \E i \in 1 .. computed[r] :
                r \in Req /\ rows[r][i] = b /\ pool'.hash[b] = BlockHash[r][i]
<1> DEFINE s == Keep(skipped, Promotable)
           calls == [i \in DOMAIN s |-> Publishing(s[i], computed[s[i]])]
<1>1. now.at = "idle" /\ pool' = Promoted(pool)
  BY DEF Schedule
<1>2. /\ BlocksInv /\ Typed /\ Transfers /\ IdleQueues /\ skipped \in Seq(Req)
      /\ Distinct(skipped)
  BY <1>1 DEF SplitInv, Control, Queues, IdleQueues, Typed
<1>3. /\ Promotable \subseteq Elements(skipped)
      /\ \A r \in Promotable : r \in Req /\ status[r] = "loading" /\ r \notin Elements(now.preempted)
  <2>1. Elements(skipped) \subseteq Req
    BY <1>2 DEF Elements
  <2>2. Elements(now.preempted) = {}
    BY <1>1, NothingWritten
  <2> QED BY <1>2, <2>1, <2>2 DEF Promotable, Transfers, TransferOf
<1>4. s \in Seq(Req) /\ Distinct(s) /\ Elements(s) = Promotable
  <2>1. s \in Seq(Req) /\ Distinct(s) /\ Elements(s) = Elements(skipped) \cap Promotable
    BY <1>2, KeepElements
  <2> QED BY <1>3, <2>1
<1>5. pool' = Calls(pool, calls)
  BY <1>1 DEF Promoted
<1> HIDE DEF s
<1>6. \A r \in Promotable : /\ computed[r] \in Nat /\ computed[r] <= Len(rows[r])
                            /\ numCached[r] \in Nat
  <2> TAKE r \in Promotable
  <2>1. r \in Req /\ r \notin Elements(now.preempted)
    BY <1>3
  <2>2. /\ computed[r] \in Nat /\ now.plan[r] \in Nat /\ Len(rows[r]) \in Nat
        /\ numCached[r] \in Nat /\ computed[r] + now.plan[r] <= Len(rows[r])
    BY <2>1, ComputedInTable
  <2> QED BY <2>2
<1>7. BlocksOf(pool, rows, numCached, deferred)
  BY <1>2, BlocksInvIs
<1>8. HashesFrom(Calls(pool, calls), pool, s, computed)
  <2>1. calls = PublishedRows(s, computed)
    BY DEF PublishedRows
  <2>2. InTable(s, computed)
    BY <1>4, <1>6 DEF InTable
  <2> HIDE DEF calls
  <2> QED BY <1>4, <1>7, <2>1, <2>2, PublishStage
<1> HIDE DEF calls
<1>9. \A r \in Promotable : \A i \in numCached[r] + 1 .. computed[r] : i \in 1 .. computed[r]
  BY <1>6
<1> SUFFICES ASSUME NEW b \in Blocks, pool'.hash[b] # pool.hash[b]
             PROVE  \E r \in Promotable : \E i \in 1 .. computed[r] :
                      r \in Req /\ rows[r][i] = b /\ pool'.hash[b] = BlockHash[r][i]
  OBVIOUS
<1>10. PICK r \in Elements(s) : \E i \in numCached[r] + 1 .. computed[r] :
              i \in DOMAIN rows[r] /\ rows[r][i] = b /\ pool'.hash[b] = BlockHash[r][i]
  BY <1>5, <1>8 DEF HashesFrom
<1> QED BY <1>3, <1>4, <1>9, <1>10

\* A received load is all there when it is published.
LEMMA ScheduleText ==
  ASSUME SplitInv, TextInv, Schedule
  PROVE  TextInv'
<1>1. /\ now.at = "idle" /\ steps' = steps /\ content' = content /\ loads' = loads
      /\ rows' = rows
      /\ computed' = [r \in Req |-> IF r \in Promotable
                                    THEN Lesser(computed[r], numTokens[r] - 1)
                                    ELSE computed[r]]
  BY DEF Schedule
<1>2. /\ Elements(now.preempted) = {} /\ \A b : ~ Written(b)
  BY <1>1, NothingWritten
<1>3. /\ \A b \in Blocks : pool.hash[b] # NoKey => Eventually(b) = pool.hash[b]
      /\ \A r \in Req : RowText(r)
  BY <1>2 DEF TextInv, CachedText, RowTexts
<1>4. \A b : Eventually(b)' = Eventually(b)
  BY <1>1, EventuallyIs
<1>5. \A r \in Promotable : r \in received
  BY DEF Promotable
<1>6. \A r \in Req : r \in received => loads[r] = NoLoad
  BY DEF SplitInv, Control, Transfers, TransferOf
<1>7. CachedText'
  <2> SUFFICES ASSUME NEW b \in Blocks, pool'.hash[b] # NoKey
               PROVE  Eventually(b) = pool'.hash[b]
    BY <1>4 DEF CachedText
  <2>1. CASE pool'.hash[b] = pool.hash[b]
    BY <1>3, <2>1
  <2>2. ASSUME NEW r \in Promotable, NEW i \in 1 .. computed[r], r \in Req,
               rows[r][i] = b, pool'.hash[b] = BlockHash[r][i]
        PROVE  Eventually(b) = pool'.hash[b]
    BY <1>2, <1>3, <1>5, <1>6, <2>2 DEF RowText, Loaded
  <2> QED BY <2>1, <2>2, ScheduleHashes
<1>8. ASSUME NEW r \in Req
      PROVE  RowText(r)'
  <2>1. \A i \in 1 .. computed'[r] : i \in 1 .. computed[r]
    <3>1. computed[r] \in Nat /\ numTokens[r] \in Nat
      BY TypedFacts DEF SplitInv, Control
    <3>2. computed'[r] = computed[r] \/ computed'[r] = Lesser(computed[r], numTokens[r] - 1)
      BY <1>1
    <3>3. computed'[r] \in Int /\ computed'[r] <= computed[r]
      BY <3>1, <3>2 DEF Lesser
    <3> QED BY <3>1, <3>3
  <2> QED BY <1>1, <1>2, <1>3, <1>4, <2>1 DEF RowText, Loaded
<1> QED BY <1>7, <1>8 DEF TextInv, RowTexts

\* What the step that is handed out writes.
LEMMA StepText ==
  ASSUME SplitInv, now.at # "idle", NEW b, NEW x
  PROVE  /\ ~ Written(b) => WrittenBy(ThisStep, b, x) = x
         /\ Written(b) =>
              \E q \in Req : \E j \in 1 .. Len(rows[q]) :
                rows[q][j] = b /\ WrittenBy(ThisStep, b, x) = BlockHash[q][j]
<1>1. /\ \A r \in Req : /\ ThisStep.from[r] = IF r \in Scheduled THEN computed[r] ELSE 0
                        /\ ThisStep.to[r] = IF r \in Scheduled THEN Advanced(r) ELSE 0
                        /\ ThisStep.row[r] = IF r \in Scheduled THEN rows[r] ELSE << >>
  BY DEF ThisStep
<1>2. /\ Scheduled \subseteq Req /\ Scheduled \subseteq Elements(running)
      /\ \A r \in Scheduled :
           /\ r \notin Elements(now.preempted)
           /\ now.plan[r] > 0 /\ Advanced(r) = computed[r] + now.plan[r]
      /\ \A r \in Req : r \in Elements(running) /\ r \notin Scheduled => now.plan[r] = 0
  BY ScheduledFacts
<1>3. \A r \in Scheduled :
        /\ computed[r] \in Nat /\ now.plan[r] \in Nat /\ Len(rows[r]) \in Nat
        /\ computed[r] + now.plan[r] <= Len(rows[r]) /\ Len(rows[r]) < MaxLen
  BY <1>2, ComputedInTable
<1>4. Typed /\ MaxLen \in Nat /\ running \in Seq(Req)
  BY Constants DEF SplitInv, Control, Typed
<1>5. ASSUME NEW r \in Req, NEW i \in 1 .. MaxLen,
             ThisStep.from[r] < i, i <= ThisStep.to[r], ThisStep.row[r][i] = b
      PROVE  /\ r \in Scheduled /\ i \in computed[r] + 1 .. computed[r] + now.plan[r]
             /\ i \in 1 .. Len(rows[r]) /\ rows[r][i] = b
  <2>1. r \in Scheduled
    <3> SUFFICES ASSUME r \notin Scheduled
                 PROVE  FALSE
      OBVIOUS
    <3>1. i <= 0
      BY <1>1, <1>5
    <3> QED BY <1>4, <3>1
  <2>2. computed[r] < i /\ i <= computed[r] + now.plan[r] /\ rows[r][i] = b
    BY <1>1, <1>2, <1>5, <2>1
  <2>3. i \in computed[r] + 1 .. computed[r] + now.plan[r] /\ i \in 1 .. Len(rows[r])
    BY <1>3, <1>4, <2>1, <2>2
  <2> QED BY <2>1, <2>2, <2>3
<1>6. ASSUME NEW r \in Elements(running),
             NEW i \in computed[r] + 1 .. computed[r] + now.plan[r], rows[r][i] = b
      PROVE  Writes(ThisStep, b)
  <2>1. r \in Req
    BY <1>4 DEF Elements
  <2>2. r \in Scheduled
    <3> SUFFICES ASSUME r \notin Scheduled
                 PROVE  FALSE
      OBVIOUS
    <3>1. now.plan[r] = 0 /\ computed[r] \in Nat
      BY <1>2, <1>4, <2>1, TypedFacts
    <3> QED BY <1>6, <3>1
  <2>3. i \in 1 .. MaxLen /\ computed[r] < i /\ i <= computed[r] + now.plan[r]
    BY <1>3, <1>4, <2>2
  <2>4. ThisStep.from[r] < i /\ i <= ThisStep.to[r] /\ ThisStep.row[r][i] = b
    BY <1>1, <1>2, <1>6, <2>1, <2>2, <2>3
  <2> QED BY <2>1, <2>3, <2>4 DEF Writes
<1>7. Written(b) <=> Writes(ThisStep, b)
  <2>1. Written(b) => Writes(ThisStep, b)
    BY <1>6 DEF Written
  <2>2. Writes(ThisStep, b) => Written(b)
    BY <1>2, <1>5 DEF Written, Writes
  <2> QED BY <2>1, <2>2
<1>8. CASE ~ Written(b)
  BY <1>7, <1>8, WrittenOrNot
<1>9. CASE Written(b)
  <2>1. PICK r \in Req, i \in 1 .. MaxLen :
               /\ ThisStep.from[r] < i /\ i <= ThisStep.to[r] /\ ThisStep.row[r][i] = b
               /\ WrittenBy(ThisStep, b, x) = BlockHash[r][i]
    BY <1>7, <1>9, WrittenOrNot
  <2>2. i \in 1 .. Len(rows[r]) /\ rows[r][i] = b
    BY <1>5, <2>1
  <2> QED BY <1>9, <2>1, <2>2
<1> QED BY <1>8, <1>9

\* A step goes out: what it writes is the text of every table with the block.
LEMMA FinishText ==
  ASSUME SplitInv, TextInv, Finish
  PROVE  TextInv'
<1> DEFINE gone == Elements(now.preempted)
           parked == Elements(now.parked)
           load(r) == [from   |-> Len(now.probe[r]) + 1,
                       blocks |-> SubSeq(rows[r], Len(now.probe[r]) + 1, Len(rows[r]))]
<1>1. /\ now.at = "waiting" /\ now.at # "idle"
      /\ computed' = [r \in Req |-> Advanced(r)]
      /\ loads' = [r \in Req |-> IF r \in parked THEN load(r) ELSE loads[r]]
      /\ steps' = Append(steps, ThisStep)
      /\ now' = Idle /\ pool' = pool /\ rows' = rows /\ content' = content
  BY DEF Finish, kvVars
<1>2. /\ BlocksInv /\ Typed /\ Turns /\ Sizes /\ Probes /\ Hashes
      /\ steps \in Seq(StepType)
  BY DEF SplitInv, Control, BlocksInv, Typed
<1>3. ThisStep \in StepType
  BY <1>1, ThisStepIsStep
<1>4. \A b : Eventually(b)' = WrittenBy(ThisStep, b, Eventually(b))
  <2> DEFINE n == Len(steps)
  <2>1. n \in Nat /\ n < 2 /\ n \in 0 .. 1
    <3>1. n \in Nat /\ Depth \in 1 .. 2 /\ n < Depth
      BY <1>1, <1>2, Constants DEF Turns
    <3> HIDE DEF n
    <3> QED BY <3>1
  <2>2. /\ steps' \in Seq(StepType) /\ Len(steps') = n + 1
        /\ \A i \in 1 .. n : steps'[i] = steps[i]
        /\ steps'[n + 1] = ThisStep
    BY <1>1, <1>2, <1>3, AppendProperties
  <2>3. \A b : /\ Eventually(b) = Held(content[b], b, steps)
               /\ Eventually(b)' = Held(content[b], b, steps')
    BY <1>1, EventuallyIs
  <2>4. CASE n = 0
    <3>1. Len(steps') = 1 /\ steps'[1] = ThisStep
      BY <2>2, <2>4
    <3>2. \A b : Held(content[b], b, steps) = content[b]
      <4>1. \A b : Len(steps) = 0 => Held(content[b], b, steps) = content[b]
        BY <1>2, HeldIs
      <4> QED BY <2>4, <4>1
    <3>3. \A b : Held(content[b], b, steps') = WrittenBy(ThisStep, b, content[b])
      <4>1. \A b : Held(content[b], b, steps') = WrittenBy(steps'[1], b, content[b])
        BY <2>2, <3>1, HeldIs
      <4> QED BY <3>1, <4>1
    <3> QED BY <2>3, <3>2, <3>3
  <2>5. CASE n = 1
    <3>1. Len(steps') = 2 /\ steps'[1] = steps[1] /\ steps'[2] = ThisStep
      BY <2>2, <2>5
    <3>2. \A b : Held(content[b], b, steps) = WrittenBy(steps[1], b, content[b])
      BY <1>2, <2>5, HeldIs
    <3>3. \A b : Held(content[b], b, steps') =
                   WrittenBy(ThisStep, b, WrittenBy(steps[1], b, content[b]))
      <4>1. \A b : Held(content[b], b, steps') =
                     WrittenBy(steps'[2], b, WrittenBy(steps'[1], b, content[b]))
        BY <2>2, <3>1, HeldIs
      <4> QED BY <3>1, <4>1
    <3> QED BY <2>3, <3>2, <3>3
  <2> QED BY <2>1, <2>4, <2>5
<1>5. ASSUME NEW b \in Blocks, pool.hash[b] # NoKey
      PROVE  Eventually(b)' = pool.hash[b]
  <2>1. CASE Written(b)
    <3>0. PICK q \in Req : \E j \in 1 .. Len(rows[q]) :
                 rows[q][j] = b /\ WrittenBy(ThisStep, b, Eventually(b)) = BlockHash[q][j]
      BY <1>1, <2>1, StepText
    <3>1. PICK j \in 1 .. Len(rows[q]) :
                 rows[q][j] = b /\ WrittenBy(ThisStep, b, Eventually(b)) = BlockHash[q][j]
      BY <3>0
    <3> QED BY <1>4, <1>5, <3>1, CachedAs
  <2>2. CASE ~ Written(b)
    <3>1. Eventually(b) = pool.hash[b]
      BY <1>5, <2>2 DEF TextInv, CachedText
    <3>2. WrittenBy(ThisStep, b, Eventually(b)) = Eventually(b)
      BY <1>1, <2>2, StepText
    <3> QED BY <1>4, <3>1, <3>2
  <2> QED BY <2>1, <2>2
<1>6. CachedText'
  BY <1>1, <1>5 DEF CachedText
<1>7. ASSUME NEW r \in Req, NEW i \in 1 .. Advanced(r), Loaded(r, i)'
      PROVE  Eventually(rows[r][i])' = BlockHash[r][i]
  <2>1. /\ r \in gone => Advanced(r) = 0
        /\ r \in parked => Advanced(r) = Len(rows[r])
        /\ r \notin gone \cup parked => Advanced(r) = computed[r] + now.plan[r]
        /\ Advanced(r) \in Nat /\ Advanced(r) <= Len(rows[r]) /\ Len(rows[r]) \in Nat
        /\ Advanced(r) < MaxLen
    BY <1>1, AdvancedFacts
  <2>2. /\ r \notin gone /\ i \in 1 .. Len(rows[r]) /\ i \in 1 .. MaxLen
        /\ rows[r][i] \in Blocks
    <3>1. i \in 1 .. Len(rows[r]) /\ i \in 1 .. MaxLen /\ r \notin gone
      BY <2>1, Constants
    <3> QED BY <1>2, <3>1 DEF BlocksInv, BlocksTyped
  <2>3. PICK b : b = rows[r][i]
    OBVIOUS
  <2>4. CASE r \in parked
    <3>1. numCached[r] = Len(now.probe[r]) /\ Len(now.probe[r]) \in Nat
      BY <1>2, <2>4, TypedFacts DEF Probes, ProbeOf
    <3>2. loads'[r].from = Len(now.probe[r]) + 1 /\ loads'[r] # NoLoad
      <4>1. loads'[r] = load(r)
        BY <1>1, <2>4
      <4>2. loads'[r].from = Len(now.probe[r]) + 1
        BY <4>1
      <4>3. NoLoad.from = 0
        BY DEF NoLoad
      <4> QED BY <3>1, <4>2, <4>3
    <3>3. i \in 1 .. numCached[r]
      BY <1>7, <2>2, <3>1, <3>2 DEF Loaded
    <3>4. pool.hash[b] = BlockHash[r][i] /\ BlockHash[r][i] # NoKey
      BY <1>2, <2>2, <2>3, <3>3, TextHashes DEF Hashes
    <3>5. Eventually(b)' = BlockHash[r][i]
      BY <1>5, <2>2, <2>3, <3>4
    <3> QED BY <1>1, <2>3, <3>5
  <2>5. CASE r \notin parked
    <3>1. /\ Advanced(r) = computed[r] + now.plan[r] /\ Loaded(r, i)
          /\ computed[r] \in Nat /\ now.plan[r] \in Nat
      BY <1>1, <1>2, <1>7, <2>1, <2>2, <2>5, TypedFacts DEF Loaded
    <3>2. CASE Written(b)
      <4>0. PICK q \in Req : \E j \in 1 .. Len(rows[q]) :
                   rows[q][j] = b /\ WrittenBy(ThisStep, b, Eventually(b)) = BlockHash[q][j]
        BY <1>1, <3>2, StepText
      <4>1. PICK j \in 1 .. Len(rows[q]) :
                   rows[q][j] = b /\ WrittenBy(ThisStep, b, Eventually(b)) = BlockHash[q][j]
        BY <4>0
      <4>2. BlockHash[r][i] = BlockHash[q][j]
        BY <2>2, <2>3, <4>1, OneText
      <4>3. Eventually(b)' = BlockHash[r][i]
        BY <1>4, <4>1, <4>2
      <4> QED BY <1>1, <2>3, <4>3
    <3>3. CASE ~ Written(b)
      <4>1. i \in 1 .. computed[r]
        <5>1. CASE r \in Elements(running)
          <6>1. i \notin computed[r] + 1 .. computed[r] + now.plan[r]
            BY <2>3, <3>3, <5>1 DEF Written
          <6> QED BY <3>1, <6>1
        <5>2. CASE r \notin Elements(running)
          <6>1. now.plan[r] = 0
            BY <1>2, <5>2 DEF Sizes, SizeOf
          <6> QED BY <3>1, <6>1
        <5> QED BY <5>1, <5>2
      <4>2. RowText(r)
        BY <2>2 DEF TextInv, RowTexts
      <4>3. Eventually(b) = BlockHash[r][i]
        BY <2>3, <3>1, <3>3, <4>1, <4>2 DEF RowText
      <4>4. WrittenBy(ThisStep, b, Eventually(b)) = Eventually(b)
        BY <1>1, <3>3, StepText
      <4>5. Eventually(b)' = BlockHash[r][i]
        BY <1>4, <4>3, <4>4
      <4> QED BY <1>1, <2>3, <4>5
    <3> QED BY <3>2, <3>3
  <2> QED BY <2>4, <2>5
<1>8. ASSUME NEW r \in Req
      PROVE  RowText(r)'
  <2>1. computed'[r] = Advanced(r) /\ rows' = rows
    BY <1>1
  <2> QED BY <1>7, <2>1 DEF RowText
<1> QED BY <1>6, <1>8 DEF TextInv, RowTexts

\* A result: the writes of the step are in the blocks now, and what is
\* published with its tokens was computed.
LEMMA ProcessText ==
  ASSUME SplitInv, TextInv, NEW stop \in SUBSET Req, Process(stop)
  PROVE  TextInv'
<1> DEFINE decided == {r \in Head(steps).samples : status[r] = "running"}
<1>1. /\ now.at = "idle" /\ steps # << >> /\ steps' = Tail(steps)
      /\ content' = [b \in Blocks |-> WrittenBy(Head(steps), b, content[b])]
      /\ computed' = [r \in Req |-> IF r \in stop THEN 0 ELSE computed[r]]
      /\ loads' = loads /\ now' = now
  BY DEF Process
<1>2. /\ Elements(now.preempted) = {} /\ \A b : ~ Written(b)
  BY <1>1, NothingWritten
<1>3. /\ \A b \in Blocks : pool.hash[b] # NoKey => Eventually(b) = pool.hash[b]
      /\ \A r \in Req : RowText(r)
  BY <1>2 DEF TextInv, CachedText, RowTexts
<1>4. \A b \in Blocks : Eventually(b)' = Eventually(b)
  <2> DEFINE n == Len(steps)
  <2>1. /\ Head(steps) = steps[1] /\ steps \in Seq(StepType) /\ Tail(steps) \in Seq(StepType)
        /\ n \in 1 .. 2 /\ Len(Tail(steps)) = n - 1
        /\ \A i \in DOMAIN Tail(steps) : Tail(steps)[i] = steps[i + 1]
        /\ DOMAIN Tail(steps) = 1 .. n - 1
    BY <1>1, OldestFacts DEF SplitInv, Control, Typed
  <2>2. \A b \in Blocks : /\ Eventually(b) = Held(content[b], b, steps)
                          /\ Eventually(b)' = Held(content'[b], b, Tail(steps))
                          /\ content'[b] = WrittenBy(steps[1], b, content[b])
    BY <1>1, <2>1, EventuallyIs
  <2>3. CASE n = 1
    <3>1. \A b : Len(steps) = 1 => Held(content[b], b, steps) = WrittenBy(steps[1], b, content[b])
      BY <2>1, HeldIs
    <3>2. \A b : Len(Tail(steps)) = 0 => Held(content'[b], b, Tail(steps)) = content'[b]
      <4>1. PICK rest : rest = Tail(steps)
        OBVIOUS
      <4>2. \A x, b : Len(rest) = 0 => Held(x, b, rest) = x
        BY <2>1, <4>1, HeldIs
      <4> QED BY <4>1, <4>2
    <3>3. Len(Tail(steps)) = 0
      BY <2>1, <2>3
    <3> QED BY <2>2, <2>3, <3>1, <3>2, <3>3
  <2>4. CASE n = 2
    <3>1. \A b : Len(steps) = 2 => Held(content[b], b, steps) =
                   WrittenBy(steps[2], b, WrittenBy(steps[1], b, content[b]))
      BY <2>1, HeldIs
    <3>2. \A b : Len(Tail(steps)) = 1 => Held(content'[b], b, Tail(steps)) =
                   WrittenBy(Tail(steps)[1], b, content'[b])
      BY <2>1, HeldIs
    <3>3. Len(Tail(steps)) = 1 /\ Tail(steps)[1] = steps[2]
      BY <2>1, <2>4
    <3> QED BY <2>2, <2>4, <3>1, <3>2, <3>3
  <2> QED BY <2>1, <2>3, <2>4
<1>5. /\ ProcessedHashes(decided)
      /\ \A r \in Req : r \notin stop => rows'[r] = rows[r]
  BY ProcessBlocks
<1>6. \A r \in decided : status[r] = "running"
  OBVIOUS
<1>7. \A r \in decided : r \in Req
  <2>1. Head(steps) \in StepType
    BY <1>1, OldestFacts
  <2> QED BY <2>1 DEF StepType
<1> HIDE DEF decided
<1>8. \A r \in Req : \A i \in 1 .. computed[r] : rows[r][i] \in Blocks
  <2> TAKE r \in Req
  <2>1. /\ computed[r] \in Nat /\ now.plan[r] \in Nat /\ Len(rows[r]) \in Nat
        /\ computed[r] + now.plan[r] <= Len(rows[r])
        /\ \A i \in 1 .. Len(rows[r]) : rows[r][i] \in Blocks
    BY <1>2, ComputedInTable
  <2>2. \A i \in 1 .. computed[r] : i \in 1 .. Len(rows[r])
    BY <2>1
  <2> QED BY <2>1, <2>2
<1>9. CachedText'
  <2> SUFFICES ASSUME NEW b \in Blocks, pool'.hash[b] # NoKey
               PROVE  Eventually(b) = pool'.hash[b]
    BY <1>4 DEF CachedText
  <2>1. CASE pool'.hash[b] = pool.hash[b]
    BY <1>3, <2>1
  <2>2. ASSUME NEW r \in decided, NEW i \in numCached[r] + 1 .. FinalTokens(r),
               rows[r][i] = b, pool'.hash[b] = BlockHash[r][i]
        PROVE  Eventually(b) = pool'.hash[b]
    <3>1. r \in Req /\ loads[r] = NoLoad
      BY <1>6, <1>7, NoTransfer
    <3>2. /\ FinalTokens(r) \in Nat /\ FinalTokens(r) <= computed[r]
          /\ computed[r] \in Nat /\ numCached[r] \in Nat
      BY <1>1, <1>2, <3>1, FinalTokensType, ComputedInTable
    <3>3. i \in 1 .. computed[r]
      BY <3>2
    <3> QED BY <1>2, <1>3, <2>2, <3>1, <3>3 DEF RowText, Loaded
  <2> QED BY <1>5, <2>1, <2>2 DEF ProcessedHashes
<1>10. ASSUME NEW r \in Req
       PROVE  RowText(r)'
  <2>1. CASE r \in stop
    <3>1. 1 .. computed'[r] = {}
      BY <1>1, <2>1
    <3> QED BY <3>1 DEF RowText
  <2>2. CASE r \notin stop
    <3>1. rows'[r] = rows[r] /\ computed'[r] = computed[r]
      BY <1>1, <1>5, <2>2
    <3> QED BY <1>1, <1>2, <1>3, <1>4, <1>8, <3>1 DEF RowText, Loaded
  <2> QED BY <2>1, <2>2
<1> QED BY <1>9, <1>10 DEF TextInv, RowTexts

LEMMA TextInit == Init => TextInv
<1> SUFFICES ASSUME Init
             PROVE  TextInv
  OBVIOUS
<1>1. pool = NewPool /\ computed = [r \in Req |-> 0]
  BY DEF Init
<1>2. \A b \in Blocks : pool.hash[b] = NoKey
  BY <1>1 DEF NewPool
<1>3. \A r \in Req : 1 .. computed[r] = {}
  BY <1>1
<1> QED BY <1>2, <1>3 DEF TextInv, CachedText, RowTexts, RowText

LEMMA TextStep ==
  SplitInv /\ Exclusive /\ TextInv /\ [Next]_vars => TextInv'
<1> SUFFICES ASSUME SplitInv, Exclusive, TextInv, [Next]_vars
             PROVE  TextInv'
  OBVIOUS
<1>1. CASE Schedule
  BY <1>1, ScheduleText
<1>2. CASE ScheduleRunning
  BY <1>2, RunningText
<1>3. CASE Preempt
  BY <1>3, PreemptText
<1>4. CASE AskConnector \/ SkipProbe \/ AskForOne \/ TurnAway
  BY <1>4, AskText
<1>5. CASE Park
  BY <1>5, ParkText
<1>6. CASE Admit
  BY <1>6, AdmitText
<1>7. CASE Finish
  BY <1>7, FinishText
<1>8. ASSUME NEW stop \in SUBSET Req, Process(stop)
      PROVE  TextInv'
  BY <1>8, ProcessText
<1>9. ASSUME NEW r \in Req, Arrive(r)
      PROVE  TextInv'
  BY <1>9, ArriveText
<1>10. ASSUME NEW r \in Req, Land(r)
       PROVE  TextInv'
  BY <1>10, LandText
<1>11. ASSUME NEW r \in Req, Abort(r)
       PROVE  TextInv'
  BY <1>11, AbortText
<1>12. CASE UNCHANGED vars
  <2>1. /\ content' = content /\ steps' = steps /\ loads' = loads /\ pool' = pool
        /\ rows' = rows /\ computed' = computed /\ running' = running /\ now' = now
    BY <1>12 DEF vars, reqVars, kvVars, deviceVars, queueVars
  <2>2. \A b : Written(b) => Written(b)'
    BY <2>1 DEF Written
  <2> QED BY <2>1, <2>2, TextSame
<1> QED BY <1>1, <1>2, <1>3, <1>4, <1>5, <1>6, <1>7, <1>8, <1>9, <1>10, <1>11, <1>12
        DEF Next, Engine

\* Whatever probes, parked loads, evictions, preemptions, aborts and late
\* writes did, every position a request counts as computed between two steps
\* holds the request's own text, or will when the steps in flight are done,
\* unless a transfer is still on its way there.
THEOREM TextHolds == Spec => []RowsHoldTheirText
<1>1. Init => SplitInv /\ Flying /\ Flights /\ Exclusive /\ TextInv
  BY SplitInvInit, FlightsInit, TextInit
<1>2. SplitInv /\ Flying /\ Flights /\ Exclusive /\ TextInv /\ [Next]_vars
        => (SplitInv /\ Flying /\ Flights /\ Exclusive /\ TextInv)'
  BY SplitInvStep, FlightsStep, TextStep
<1>3. SplitInv /\ TextInv => RowsHoldTheirText
  <2> SUFFICES ASSUME SplitInv, TextInv, now.at = "idle", NEW r \in Req,
                      NEW i \in 1 .. Lesser(computed[r], Len(rows[r])),
                      Loaded(r, i)
               PROVE  Eventually(rows[r][i]) = BlockHash[r][i]
    BY DEF RowsHoldTheirText, Loaded
  <2>1. Elements(now.preempted) = {} /\ ~ Written(rows[r][i])
    BY NothingWritten
  <2>2. i \in 1 .. computed[r]
    <3>1. computed[r] \in Nat /\ Len(rows[r]) \in Nat
      BY <2>1, ComputedInTable
    <3> QED BY <3>1 DEF Lesser
  <2> QED BY <2>1, <2>2 DEF TextInv, RowTexts, RowText
<1> QED BY <1>1, <1>2, <1>3, PTL DEF Spec
------------------------------------------------------------------------------
(***************************************************************************)
(* What is reserved while loads are parked.                                *)
(***************************************************************************)

\* The prefills in flight, as the walk of the candidates goes on.
Growing == prefills \cup Elements(now.parked) \cup StartedPrefills

\* While a load can still be parked, what its step has reserved is what they
\* still need.
ReserveKnown == ~ now.stock \/ now.probed # {}
Room ==
  now.at = "waiting" /\ now.budget > 0 /\ ReserveKnown
    => now.reserved >= RemainingOf(Growing)

\* Sums over a smaller set, of smaller numbers, are smaller.
LEMMA SumsCompare ==
  ASSUME NEW D, IsFiniteSet(D), NEW m \in Nat, NEW f, f \in [D -> 0 .. m],
         NEW g, g \in [D -> 0 .. m], NEW S \in SUBSET D, NEW T \in SUBSET D,
         S \subseteq T, \A x \in S : f[x] <= g[x]
  PROVE  /\ SumFunctionOnSet(f, S) \in Nat /\ SumFunctionOnSet(g, T) \in Nat
         /\ SumFunctionOnSet(f, S) <= SumFunctionOnSet(g, T)
<1>1. /\ SumFunctionOnSet(f, S) = Cardinality(Pairs(f, S, m))
      /\ SumFunctionOnSet(g, T) = Cardinality(Pairs(g, T, m))
      /\ SumFunctionOnSet(f, S) \in Nat /\ SumFunctionOnSet(g, T) \in Nat
  BY SumOfNaturals DEF PairsUnder
<1>2. IsFiniteSet(Pairs(g, T, m))
  <2>1. IsFiniteSet(T) /\ IsFiniteSet(1 .. m)
    BY FS_Subset, FS_Interval
  <2>2. IsFiniteSet(T \X (1 .. m))
    BY <2>1, FS_Product
  <2>3. Pairs(g, T, m) \subseteq T \X (1 .. m)
    BY DEF Pairs
  <2> QED BY <2>2, <2>3, FS_Subset
<1>3. Pairs(f, S, m) \subseteq Pairs(g, T, m)
  <2> SUFFICES ASSUME NEW w \in Pairs(f, S, m)
               PROVE  w \in Pairs(g, T, m)
    OBVIOUS
  <2>1. w \in S \X (1 .. m) /\ w[2] <= f[w[1]]
    BY DEF Pairs
  <2>2. w[1] \in S /\ w[2] \in 1 .. m /\ w \in T \X (1 .. m)
    BY <2>1
  <2>3. f[w[1]] \in 0 .. m /\ g[w[1]] \in 0 .. m /\ f[w[1]] <= g[w[1]]
    BY <2>2
  <2>4. w[2] <= g[w[1]]
    BY <2>1, <2>2, <2>3
  <2> QED BY <2>2, <2>4 DEF Pairs
<1>4. Cardinality(Pairs(f, S, m)) <= Cardinality(Pairs(g, T, m))
  BY <1>2, <1>3, FS_Subset
<1> QED BY <1>1, <1>4

\* One number less.
LEMMA SumWithout ==
  ASSUME NEW D, IsFiniteSet(D), NEW m \in Nat, NEW f, f \in [D -> 0 .. m],
         NEW S \in SUBSET D, NEW x \in S
  PROVE  /\ SumFunctionOnSet(f, S \ {x}) \in Nat /\ f[x] \in Nat
         /\ SumFunctionOnSet(f, S) = f[x] + SumFunctionOnSet(f, S \ {x})
<1>1. S \ {x} \in SUBSET D
  OBVIOUS
<1>2. /\ SumFunctionOnSet(f, S) = PairsUnder(f, S, m)
      /\ SumFunctionOnSet(f, S \ {x}) = PairsUnder(f, S \ {x}, m)
      /\ SumFunctionOnSet(f, S \ {x}) \in Nat
  BY <1>1, SumOfNaturals
<1>3. PairsUnder(f, S, m) = f[x] + PairsUnder(f, S \ {x}, m)
  BY PairsCount DEF PairsUnder
<1> QED BY <1>2, <1>3

\* Of the numbers f that are summed over S and the numbers g over T, only those
\* of x differ: the sums differ by no more.
LEMMA SumsApart ==
  ASSUME NEW D, IsFiniteSet(D), NEW m \in Nat, NEW f, f \in [D -> 0 .. m],
         NEW g, g \in [D -> 0 .. m], NEW S \in SUBSET D, NEW T \in SUBSET D,
         NEW x \in D, NEW more \in Nat,
         S \ {x} \subseteq T, \A y \in D \ {x} : f[y] = g[y],
         x \in S => f[x] <= more \/ (x \in T /\ f[x] <= g[x])
  PROVE  SumFunctionOnSet(f, S) <= SumFunctionOnSet(g, T) + more
<1>1. CASE x \notin S
  <2>1. S \subseteq T /\ \A y \in S : f[y] <= g[y]
    <3>1. \A y \in S : y \in D \ {x} /\ f[y] = g[y] /\ f[y] \in 0 .. m
      BY <1>1
    <3> QED BY <1>1, <3>1
  <2>2. /\ SumFunctionOnSet(f, S) \in Nat /\ SumFunctionOnSet(g, T) \in Nat
        /\ SumFunctionOnSet(f, S) <= SumFunctionOnSet(g, T)
    BY <2>1, SumsCompare
  <2> QED BY <2>2
<1>2. CASE x \in S /\ x \in T /\ f[x] <= g[x]
  <2>1. S \subseteq T /\ \A y \in S : f[y] <= g[y]
    <3>1. \A y \in S \ {x} : y \in D \ {x} /\ f[y] = g[y] /\ f[y] \in 0 .. m
      OBVIOUS
    <3> QED BY <1>2, <3>1
  <2>2. /\ SumFunctionOnSet(f, S) \in Nat /\ SumFunctionOnSet(g, T) \in Nat
        /\ SumFunctionOnSet(f, S) <= SumFunctionOnSet(g, T)
    BY <2>1, SumsCompare
  <2> QED BY <2>2
<1>3. CASE x \in S /\ f[x] <= more
  <2> DEFINE R == S \ {x}
  <2>1. R \in SUBSET D /\ R \subseteq T /\ \A y \in R : f[y] <= g[y]
    <3>1. \A y \in R : y \in D \ {x} /\ f[y] = g[y] /\ f[y] \in 0 .. m
      OBVIOUS
    <3> QED BY <3>1
  <2>2. /\ SumFunctionOnSet(f, R) \in Nat /\ f[x] \in Nat
        /\ SumFunctionOnSet(f, S) = f[x] + SumFunctionOnSet(f, R)
    BY <1>3, SumWithout
  <2> HIDE DEF R
  <2>3. SumFunctionOnSet(g, T) \in Nat /\ SumFunctionOnSet(f, R) <= SumFunctionOnSet(g, T)
    BY <2>1, SumsCompare
  <2> QED BY <1>3, <2>2, <2>3
<1> QED BY <1>1, <1>2, <1>3

\* Publishing takes no block, and a block taken is one less in the counter.
LEMMA PublishCount ==
  ASSUME NEW p \in PoolType, NEW row, NEW hashes, NEW first, NEW last
  PROVE  CacheFullBlocks(p, row, hashes, first, last).numFree = p.numFree
<1>1. \A h, x, i, j :
        [[p EXCEPT !.hash = h, !.index = x] EXCEPT !.hash = i, !.index = j].numFree = p.numFree
  BY DEF PoolType
<1> QED BY <1>1 DEF CacheFullBlocks, ForgetHashes

LEMMA TakeCount ==
  ASSUME NEW p, PoolInv(p), NEW n \in Nat, CanGetNewBlocks(p, n)
  PROVE  GetNewBlocks(p, n).numFree = p.numFree - n
<1>1. p \in PoolType
  BY DEF PoolInv
<1>2. \A h, x, q, f, r :
        [[p EXCEPT !.hash = h, !.index = x]
           EXCEPT !.free = q, !.numFree = f, !.ref = r].numFree = f
  BY <1>1 DEF PoolType
<1> QED BY <1>2 DEF GetNewBlocks, ForgetHashes

\* What an allocation leaves free is not less than what was reserved.
LEMMA LeavesReserved ==
  ASSUME BlocksTyped, NEW r \in Req, NEW hit, IsHit(r, hit), NEW target \in Nat,
         NEW watermark \in Nat, NEW reserved \in Nat, NEW delay,
         Fits(r, hit, target, watermark, reserved), AllocateSlots(r, hit, target, delay)
  PROVE  pool'.numFree \in Nat /\ pool'.numFree >= reserved
<1> DEFINE idle == {b \in Elements(hit) : pool.ref[b] = 0}
           count == NumNew(r, hit, target)
           t == Touch(pool, Elements(hit))
           g == GetNewBlocks(t, count)
<1>1. /\ Elements(hit) \in SUBSET Blocks /\ NullBlock \notin Elements(hit)
      /\ PoolInv(pool) /\ pool.numFree \in Nat
  BY HitIsRow DEF IsRow, BlocksTyped, PoolInv, PoolType
<1>2. {b \in Elements(hit) \ {NullBlock} : pool.ref[b] = 0} = idle
  BY <1>1
<1>3. PoolInv(t) /\ t.numFree = pool.numFree - Cardinality(idle)
  BY <1>1, <1>2, TouchInv
<1>4. Cardinality(idle) \in Nat
  <2>1. IsFiniteSet(Blocks) /\ idle \subseteq Blocks
    BY <1>1, BlockNumbers
  <2> QED BY <2>1, FS_Subset, FS_CardinalityType
<1>5. count \in Nat /\ count + Cardinality(idle) + watermark <= pool.numFree - reserved
  BY NewCount DEF Fits
<1>6. CanGetNewBlocks(t, count)
  BY <1>5, FitsCanTake
<1>7. PICK row, already, upTo :
        pool' = CacheFullBlocks(g, row, BlockHash[r], already, upTo)
  BY DEF AllocateSlots
<1> HIDE DEF idle, count, t
<1>8. g \in PoolType /\ g.numFree = t.numFree - count
  BY <1>3, <1>5, <1>6, GetNewBlocksInv, TakeCount DEF PoolInv
<1> HIDE DEF g
<1>9. pool'.numFree = t.numFree - count
  BY <1>7, <1>8, PublishCount
<1> QED BY <1>1, <1>3, <1>4, <1>5, <1>9

\* What each request still needs, and the prefills are requests.
Needs == [r \in Req |-> RemainingBlocks(r)]
Needed == /\ Needs \in [Req -> 0 .. MaxLen] /\ Growing \in SUBSET Req
          /\ RemainingOf(Growing) = SumFunctionOnSet(Needs, Growing)
LEMMA NeedsType == SplitInv => Needed
<1> SUFFICES ASSUME SplitInv
             PROVE  Needed
  OBVIOUS
<1>1. BlocksInv /\ Typed /\ Sizes
  BY DEF SplitInv, Control
<1>2. \A r \in Req : RemainingBlocks(r) \in 0 .. MaxLen
  <2> TAKE r \in Req
  <2>1. /\ numTokens[r] \in Nat /\ Len(rows[r]) \in Nat
        /\ numTokens[r] < MaxLen /\ MaxLen \in Nat
    BY <1>1, Constants, TypedFacts DEF BlocksInv, BlocksTyped, Sizes, SizeOf
  <2> QED BY <2>1 DEF RemainingBlocks, Greater
<1>3. Growing \in SUBSET Req
  <2>1. now.parked \in Seq(Req) /\ running \in Seq(Req) /\ prefills \in SUBSET Req
    BY <1>1, TypedFacts DEF Typed
  <2>2. Elements(now.parked) \subseteq Req /\ Elements(running) \subseteq Req
    BY <2>1 DEF Elements
  <2> QED BY <2>1, <2>2 DEF Growing, StartedPrefills
<1> QED BY <1>2, <1>3 DEF Needed, Needs, RemainingOf

\* A step of r alone, which reserves for r what it still needs or leaves it no
\* more to need than it had.
LEMMA StillReserved ==
  ASSUME SplitInv, SplitInv', now.reserved >= RemainingOf(Growing),
         NEW r \in Req, NEW more \in Nat, now'.reserved = now.reserved + more,
         numTokens' = numTokens, \A q \in Req \ {r} : rows'[q] = rows[q],
         Growing' \ {r} \subseteq Growing,
         r \in Growing' =>
           \/ RemainingBlocks(r)' <= more
           \/ r \in Growing /\ RemainingBlocks(r)' <= RemainingBlocks(r)
  PROVE  now'.reserved >= RemainingOf(Growing)'
<1>1. /\ Needs \in [Req -> 0 .. MaxLen] /\ RemainingOf(Growing) = SumFunctionOnSet(Needs, Growing)
      /\ Growing \in SUBSET Req
  BY NeedsType DEF Needed
<1>2. /\ Needs' \in [Req -> 0 .. MaxLen]
      /\ RemainingOf(Growing)' = SumFunctionOnSet(Needs', Growing')
      /\ Growing' \in SUBSET Req
  <2>1. (SplitInv => Needed)'
    BY NeedsType, PTL
  <2> QED BY <2>1 DEF Needed
<1>3. \A q \in Req \ {r} : Needs'[q] = Needs[q]
  BY DEF Needs, RemainingBlocks
<1>4. Needs'[r] = RemainingBlocks(r)' /\ Needs[r] = RemainingBlocks(r)
  BY DEF Needs
<1>5. PICK f, g, S, T : f = Needs' /\ g = Needs /\ S = Growing' /\ T = Growing
  OBVIOUS
<1>6. IsFiniteSet(Req) /\ MaxLen \in Nat
  BY Constants
<1>7. /\ f \in [Req -> 0 .. MaxLen] /\ g \in [Req -> 0 .. MaxLen]
      /\ S \in SUBSET Req /\ T \in SUBSET Req /\ S \ {r} \subseteq T
      /\ \A q \in Req \ {r} : f[q] = g[q]
      /\ r \in S => f[r] <= more \/ (r \in T /\ f[r] <= g[r])
  BY <1>1, <1>2, <1>3, <1>4, <1>5
<1>8. SumFunctionOnSet(f, S) <= SumFunctionOnSet(g, T) + more
  BY <1>6, <1>7, SumsApart
<1>9. SumFunctionOnSet(f, S) \in Nat /\ SumFunctionOnSet(g, T) \in Nat /\ now.reserved \in Nat
  BY <1>6, <1>7, SumOfNaturals, TypedFacts DEF SplitInv, Control
<1> QED BY <1>1, <1>2, <1>5, <1>8, <1>9

\* What leaves the requests and their tables alone leaves what they need alone.
LEMMA NeedsSame ==
  ASSUME rows' = rows, numTokens' = numTokens, running' = running, status' = status,
         computed' = computed, prefills' = prefills, now'.parked = now.parked,
         now'.plan = now.plan
  PROVE  RemainingOf(Growing)' = RemainingOf(Growing)
BY DEF RemainingOf, RemainingBlocks, Growing, StartedPrefills

LEMMA GrewLonger ==
  ASSUME BlocksInv, NEW r \in Req, NEW hit, NEW upTo, GrewBy(r, hit, upTo)
  PROVE  /\ \A q \in Req \ {r} : rows'[q] = rows[q]
         /\ Len(rows[r]) \in Nat /\ Len(rows'[r]) \in Nat /\ Len(rows'[r]) >= Len(rows[r])
<1>1. PICK new : Fresh(new, hit) /\ Grows(r, hit, new, upTo)
  BY DEF GrewBy
<1>2. BlocksTyped /\ Rows /\ rows \in [Req -> Seq(Blocks)] /\ IsHit(r, hit)
  BY DEF BlocksInv, BlocksTyped, GrewBy
<1> DEFINE row == rows[r] \o hit \o new
<1>3. GrownRow(r, hit, new, row)
  BY <1>1, <1>2, RowGrows
<1>4. rows' = [rows EXCEPT ![r] = row]
  BY <1>1 DEF Grows
<1> HIDE DEF row
<1>5. rows'[r] = row /\ \A q \in Req \ {r} : rows'[q] = rows[q]
  BY <1>2, <1>4
<1>6. Len(hit) \in Nat /\ Len(new) \in Nat /\ Len(rows[r]) \in Nat
  BY <1>1, <1>2 DEF IsHit, Fresh
<1>7. Len(row) = Len(rows[r]) + Len(hit) + Len(new)
  BY <1>3 DEF GrownRow
<1> QED BY <1>5, <1>6, <1>7

\* When the waiting loop begins nothing is parked and nothing was admitted.
LEMMA AskRoom ==
  ASSUME SplitInv, AskConnector
  PROVE  Room'
<1>1. /\ rows' = rows /\ numTokens' = numTokens /\ running' = running /\ status' = status
      /\ computed' = computed /\ prefills' = prefills /\ now.at = "running"
  BY DEF AskConnector, Phase1Over, kvVars, reqVars, queueVars
<1>2. Typed /\ Phases /\ now \in NowType
  BY DEF SplitInv, Control, Typed
<1>3. now'.parked = now.parked /\ now'.plan = now.plan /\ now'.reserved = RemainingOf(prefills)
  BY <1>2 DEF AskConnector, NowType
<1>4. RemainingOf(Growing)' = RemainingOf(Growing)
  BY <1>1, <1>3, NeedsSame
<1>5. Growing = prefills
  <2>1. Elements(now.parked) = {} /\ \A r \in Elements(running) : status[r] = "running"
    BY <1>1, <1>2 DEF Phases, Elements
  <2> QED BY <2>1 DEF Growing, StartedPrefills
<1>6. now'.reserved = RemainingOf(Growing) /\ RemainingOf(Growing) \in Nat
  <2>1. Growing \in SUBSET Req /\ BlocksInv /\ Sizes
    BY NeedsType DEF Needed, SplitInv, Control
  <2> QED BY <1>2, <1>3, <1>5, <2>1, RemainingType
<1> QED BY <1>4, <1>6 DEF Room

\* The stock loop reserves when it asks for a candidate.
LEMMA StockRoom ==
  ASSUME SplitInv, Room, SkipProbe \/ AskForOne \/ TurnAway
  PROVE  Room'
<1>1. /\ rows' = rows /\ numTokens' = numTokens /\ running' = running /\ status' = status
      /\ computed' = computed /\ prefills' = prefills
  BY DEF SkipProbe, AskForOne, TurnAway, kvVars, reqVars, queueVars
<1>2. Typed /\ Phases /\ now \in NowType
  BY DEF SplitInv, Control, Typed
<1>3. RemainingOf(Growing) \in Nat
  <2>1. Growing \in SUBSET Req /\ BlocksInv /\ Sizes
    BY NeedsType DEF Needed, SplitInv, Control
  <2> QED BY <1>2, <2>1, RemainingType
<1>4. CASE SkipProbe
  <2>1. now'.stock = TRUE /\ now'.probed = {}
    BY <1>2, <1>4 DEF SkipProbe, Phase1Over, Phases, NowType
  <2> QED BY <2>1 DEF Room, ReserveKnown
<1>5. CASE TurnAway
  <2>1. /\ now'.parked = now.parked /\ now'.plan = now.plan /\ now'.reserved = now.reserved
        /\ now'.at = now.at /\ now'.budget = now.budget /\ now'.stock = now.stock
        /\ now'.probed = now.probed
    BY <1>2, <1>5 DEF TurnAway, NowType
  <2>2. RemainingOf(Growing)' = RemainingOf(Growing)
    BY <1>1, <2>1, NeedsSame
  <2> QED BY <2>1, <2>2 DEF Room, ReserveKnown
<1>6. CASE AskForOne
  <2> DEFINE r == Candidate
             hit == HitBlocks(r)
  <2>1. PICK answer \in Answers(r, hit) :
          IF answer = Later
          THEN now' = [now EXCEPT !.cand = Tail(@), !.skips = Append(@, r)]
          ELSE now' = [now EXCEPT !.probed = @ \cup {r}, !.probe[r] = hit,
                                  !.ext[r] = answer, !.reserved = RemainingOf(Growing)]
    BY <1>6 DEF AskForOne, Growing
  <2> HIDE DEF r, hit
  <2>2. /\ now'.parked = now.parked /\ now'.plan = now.plan
        /\ now'.at = now.at /\ now'.budget = now.budget /\ now'.stock = now.stock
        /\ \/ now'.reserved = now.reserved /\ now'.probed = now.probed
           \/ now'.reserved = RemainingOf(Growing)
    BY <1>2, <2>1 DEF NowType
  <2>3. RemainingOf(Growing)' = RemainingOf(Growing)
    BY <1>1, <2>2, NeedsSame
  <2> QED BY <1>3, <2>2, <2>3 DEF Room, ReserveKnown
<1> QED BY <1>4, <1>5, <1>6

\* A load that is parked fits beside what is reserved, and reserves what it
\* still needs itself.
LEMMA ParkRoom ==
  ASSUME SplitInv, SplitInv', Room, Park
  PROVE  Room' /\ pool'.numFree >= RemainingOf(Growing)
<1>0. PICK r : r = Candidate
  OBVIOUS
<1> DEFINE hit == LocalHit(r)
           target == ParkedTarget(r)
           more == ReservedBy(r)
<1>1. /\ WaitingArm /\ Asked(r) /\ ~ TurnedAway(r) /\ now.ext[r] > 0 /\ deferred' = deferred
      /\ Fits(r, hit, target, Admission, now.reserved)
      /\ AllocateSlots(r, hit, target, TRUE)
      /\ now' = [now EXCEPT !.cand = Tail(@), !.parked = Append(@, r),
                            !.reserved = @ + more]
  BY <1>0 DEF Park
<1>2. /\ status' = status /\ numTokens' = numTokens /\ computed' = computed
      /\ running' = running /\ prefills' = prefills
  BY DEF Park, reqVars, queueVars
<1>3. BlocksInv /\ Typed /\ Sizes /\ Probes /\ BlocksTyped
  BY DEF SplitInv, Control, BlocksInv
<1>4. CandidateIs(r)
  BY <1>0, <1>1, CandidateFacts
<1>5. ~ Stale(r)
  BY <1>1 DEF TurnedAway
<1>6. /\ r \in Req /\ r \in now.probed /\ computed[r] = 0
      /\ now.ext[r] \in Nat /\ now.reserved \in Nat /\ now.parked \in Seq(Req)
      /\ numTokens[r] \in Nat /\ numTokens[r] < MaxLen
      /\ now.ext[r] + Len(now.probe[r]) <= numTokens[r]
  BY <1>1, <1>3, <1>4, TypedFacts DEF CandidateIs, Probes, ProbeOf, Sizes, SizeOf
<1>7. /\ IsHit(r, hit) /\ Len(hit) \in Nat /\ hit = now.probe[r]
  BY <1>0, <1>1, <1>5, <1>6, LocalHitIs
<1>8. target = Len(hit) + now.ext[r] /\ more = Greater(numTokens[r] - target, 0)
  BY DEF ParkedTarget, ReservedBy
<1> HIDE DEF hit, target, more
<1>9. target \in Nat /\ target < MaxLen
  <2> DEFINE l == Len(hit)
             e == now.ext[r]
             t == numTokens[r]
  <2>1. /\ l \in Nat /\ e \in Nat /\ t \in Nat /\ t < MaxLen /\ e + l <= t
        /\ target = l + e
    BY <1>6, <1>7, <1>8
  <2> HIDE DEF l, e, t
  <2> QED BY <2>1, Constants
<1>10. more \in Nat /\ more >= numTokens[r] - target
  BY <1>6, <1>8, <1>9 DEF Greater
<1>11. /\ \A q \in Req \ {r} : rows'[q] = rows[q]
       /\ Len(rows'[r]) \in Nat /\ Len(rows'[r]) >= target
  BY <1>1, <1>3, <1>6, <1>7, <1>9, AdmissionType, AllocateKeeps
<1>12. pool'.numFree \in Nat /\ pool'.numFree >= now.reserved
  BY <1>1, <1>3, <1>6, <1>7, <1>9, AdmissionType, LeavesReserved
<1>13. now.reserved >= RemainingOf(Growing) /\ RemainingOf(Growing) \in Nat
  <2>1. now.at = "waiting" /\ now.budget > 0 /\ ReserveKnown
    BY <1>4, <1>6 DEF CandidateIs, ReserveKnown
  <2>2. Growing \in SUBSET Req
    BY NeedsType DEF Needed
  <2> QED BY <1>3, <2>1, <2>2, RemainingType DEF Room
<1>14. /\ now'.parked = Append(now.parked, r) /\ now'.plan = now.plan
       /\ now'.reserved = now.reserved + more
  BY <1>1, <1>4 DEF CandidateIs, NowType
<1>15. Elements(now'.parked) = Elements(now.parked) \cup {r}
  BY <1>4, <1>6, <1>14, AppendElements DEF CandidateIs
<1>16. Growing' \ {r} \subseteq Growing
  <2>1. StartedPrefills' = StartedPrefills
    BY <1>2, <1>14 DEF StartedPrefills
  <2> QED BY <1>2, <1>15, <2>1 DEF Growing
<1>17. RemainingBlocks(r)' <= more
  <2> DEFINE t == numTokens[r]
             l == Len(rows'[r])
  <2>1. RemainingBlocks(r)' = Greater(t - l, 0)
    BY <1>2 DEF RemainingBlocks
  <2>2. t \in Nat /\ l \in Nat /\ l >= target /\ more >= t - target
    BY <1>6, <1>10, <1>11
  <2> HIDE DEF t, l
  <2> QED BY <1>9, <1>10, <2>1, <2>2 DEF Greater
<1>18. now'.reserved >= RemainingOf(Growing)'
  BY <1>2, <1>6, <1>10, <1>11, <1>13, <1>14, <1>16, <1>17, StillReserved
<1> QED BY <1>6, <1>12, <1>13, <1>18 DEF Room

\* Without a threshold, a candidate that does not get the rest of its text takes
\* the rest of the budget, and no load is parked behind it.
LEMMA AdmitRoom ==
  ASSUME LongPrefill = 0, SplitInv, SplitInv', Room, Admit
  PROVE  Room'
<1>0. PICK r : r = Candidate
  OBVIOUS
<1> DEFINE base == Base(r)
           n == Chunk(numTokens[r] - Base(r))
<1>1. /\ CandidateIs(r) /\ n \in Nat /\ base \in Nat
      /\ now'.plan = [now.plan EXCEPT ![r] = n]
      /\ computed' = [computed EXCEPT ![r] = base]
      /\ running' = Append(running, r)
      /\ \E hit : GrewBy(r, hit, CacheUpTo(r, base + n, FALSE))
  BY <1>0, AdmitGrew
<1>2. /\ status' = status /\ numTokens' = numTokens /\ prefills' = prefills
      /\ now' = [now EXCEPT !.cand = Tail(@), !.plan[r] = n, !.budget = @ - n]
  BY <1>0 DEF Admit
<1>3. n = Lesser(now.budget, numTokens[r] - base)
  BY DEF Chunk
<1> HIDE DEF base, n
<1>4. /\ BlocksInv /\ Typed /\ Sizes /\ now \in NowType /\ r \in Req
      /\ computed \in [Req -> Nat] /\ now.plan \in [Req -> Nat] /\ running \in Seq(Req)
  BY <1>1, TypedFacts DEF SplitInv, Control, Typed, CandidateIs
<1>5. numTokens[r] \in Nat /\ now.budget \in Nat /\ now.reserved \in Nat
  BY <1>4, TypedFacts
<1>6. /\ now'.at = now.at /\ now'.budget = now.budget - n /\ now'.stock = now.stock
      /\ now'.probed = now.probed /\ now'.parked = now.parked
      /\ now'.reserved = now.reserved
  BY <1>2, <1>4 DEF NowType
<1> SUFFICES ASSUME now'.budget > 0, now'.at = "waiting", ReserveKnown'
             PROVE  now'.reserved >= RemainingOf(Growing)'
  BY DEF Room
<1>7. now.reserved >= RemainingOf(Growing)
  <2>1. now.at = "waiting" /\ ReserveKnown /\ now.budget > 0
    BY <1>1, <1>5, <1>6 DEF ReserveKnown
  <2> QED BY <2>1 DEF Room
<1>8. base + n = numTokens[r]
  <2>1. n < now.budget
    BY <1>1, <1>5, <1>6
  <2>2. n = numTokens[r] - base
    BY <1>1, <1>3, <1>5, <2>1 DEF Lesser
  <2> QED BY <1>1, <1>5, <2>2
<1>9. /\ computed'[r] = base /\ now'.plan[r] = n
      /\ \A q \in Req \ {r} : computed'[q] = computed[q] /\ now'.plan[q] = now.plan[q]
      /\ Elements(running') = Elements(running) \cup {r}
  <2>1. Elements(running') = Elements(running) \cup {r}
    BY <1>1, <1>4, AppendElements DEF CandidateIs
  <2> QED BY <1>1, <1>4, <2>1
<1>10. StartedPrefills' \subseteq StartedPrefills
  <2> SUFFICES ASSUME NEW q \in StartedPrefills'
               PROVE  q \in StartedPrefills
    OBVIOUS
  <2>1. /\ q \in Elements(running') /\ status[q] = "waiting"
        /\ computed'[q] + now'.plan[q] < numTokens[q]
    BY <1>2 DEF StartedPrefills
  <2>2. q # r
    <3>1. CASE q = r
      <4>1. base + n < numTokens[r]
        BY <1>9, <2>1, <3>1
      <4> QED BY <1>5, <1>8, <4>1
    <3> QED BY <3>1
  <2>3. q \in Elements(running) /\ q \in Req
    <3>1. q \in Elements(running)
      BY <1>9, <2>1, <2>2
    <3> QED BY <1>4, <3>1 DEF Elements
  <2> QED BY <1>9, <2>1, <2>2, <2>3 DEF StartedPrefills
<1>11. Growing' \subseteq Growing
  BY <1>2, <1>6, <1>10 DEF Growing
<1>12. /\ \A q \in Req \ {r} : rows'[q] = rows[q]
       /\ RemainingBlocks(r)' <= RemainingBlocks(r)
  <2>1. /\ \A q \in Req \ {r} : rows'[q] = rows[q]
        /\ Len(rows[r]) \in Nat /\ Len(rows'[r]) \in Nat /\ Len(rows'[r]) >= Len(rows[r])
    BY <1>1, <1>4, GrewLonger
  <2> DEFINE t == numTokens[r]
             k == Len(rows[r])
             l == Len(rows'[r])
  <2>2. /\ RemainingBlocks(r)' = Greater(t - l, 0) /\ RemainingBlocks(r) = Greater(t - k, 0)
        /\ t \in Nat /\ k \in Nat /\ l \in Nat /\ l >= k
    BY <1>2, <1>5, <2>1 DEF RemainingBlocks
  <2> HIDE DEF t, k, l
  <2>3. RemainingBlocks(r)' <= RemainingBlocks(r)
    BY <2>2 DEF Greater
  <2> QED BY <2>1, <2>3
<1>13. now'.reserved = now.reserved + 0
  BY <1>5, <1>6
<1> QED BY <1>2, <1>4, <1>7, <1>11, <1>12, <1>13, StillReserved

LEMMA RoomStep ==
  LongPrefill = 0 /\ SplitInv /\ SplitInv' /\ Room /\ [Next]_vars => Room'
<1> SUFFICES ASSUME LongPrefill = 0, SplitInv, SplitInv', Room, [Next]_vars
             PROVE  Room'
  OBVIOUS
<1>1. now \in NowType /\ (now.at = "idle" => now = Idle)
  BY DEF SplitInv, Control, Typed, Turns
<1>2. ASSUME now'.at # "waiting"
      PROVE  Room'
  BY <1>2 DEF Room
<1>3. CASE Schedule
  <2>1. now'.at = "running"
    BY <1>3 DEF Schedule, Idle
  <2> QED BY <1>2, <2>1
<1>4. CASE ScheduleRunning \/ Preempt
  <2>1. now'.at = now.at /\ now.at = "running"
    BY <1>1, <1>4 DEF ScheduleRunning, Preempt, Looping, NowType
  <2> QED BY <1>2, <2>1
<1>5. CASE AskConnector
  BY <1>5, AskRoom
<1>6. CASE SkipProbe \/ AskForOne \/ TurnAway
  BY <1>6, StockRoom
<1>7. CASE Park
  BY <1>7, ParkRoom
<1>8. CASE Admit
  BY <1>8, AdmitRoom
<1>9. CASE Finish
  <2>1. now'.at = "idle"
    BY <1>9 DEF Finish, Idle
  <2> QED BY <1>2, <2>1
<1>10. ASSUME now.at = "idle", now' = now
       PROVE  Room'
  BY <1>2, <1>10
<1>11. ASSUME NEW stop \in SUBSET Req, Process(stop)
       PROVE  Room'
  BY <1>10, <1>11 DEF Process
<1>12. ASSUME NEW r \in Req, Arrive(r)
       PROVE  Room'
  BY <1>10, <1>12 DEF Arrive
<1>13. ASSUME NEW r \in Req, Abort(r)
       PROVE  Room'
  BY <1>10, <1>13 DEF Abort
<1>14. ASSUME rows' = rows, numTokens' = numTokens, running' = running, status' = status,
              computed' = computed, prefills' = prefills, now' = now
       PROVE  Room'
  <2>1. RemainingOf(Growing)' = RemainingOf(Growing)
    BY <1>14, NeedsSame
  <2> QED BY <1>14, <2>1 DEF Room, ReserveKnown
<1>15. ASSUME NEW r \in Req, Land(r)
       PROVE  Room'
  BY <1>14, <1>15 DEF Land, kvVars, reqVars, queueVars
<1>16. CASE UNCHANGED vars
  BY <1>14, <1>16 DEF vars, kvVars, reqVars, queueVars
<1> QED BY <1>3, <1>4, <1>5, <1>6, <1>7, <1>8, <1>9, <1>11, <1>12, <1>13, <1>15, <1>16
        DEF Next, Engine

\* What a step adds to the parked loads is parked by Park.
LEMMA OnlyParkParks ==
  ASSUME SplitInv, [Next]_vars, NEW r \in Req, now'.parked = Append(now.parked, r)
  PROVE  Park
<1>1. /\ now \in NowType /\ now.parked \in Seq(Req)
      /\ now.at = "idle" => now = Idle
  BY TypedFacts DEF SplitInv, Control, Typed, Turns
<1>2. now'.parked # now.parked /\ now'.parked # << >>
  <2>1. Len(Append(now.parked, r)) = Len(now.parked) + 1 /\ Len(now.parked) \in Nat
    BY <1>1
  <2> QED BY <2>1
<1>3. now' # now /\ now' # Idle
  <2>1. Idle.parked = << >>
    BY DEF Idle
  <2> QED BY <1>2, <2>1
<1>4. ~ Schedule
  <2>1. Schedule => now'.parked = << >>
    BY DEF Schedule, Idle
  <2> QED BY <1>2, <2>1
<1>5. ~ ScheduleRunning /\ ~ Preempt /\ ~ AskConnector /\ ~ SkipProbe
  BY <1>1, <1>2 DEF ScheduleRunning, Preempt, AskConnector, SkipProbe, NowType
<1>6. ~ AskForOne
  <2>1. AskForOne => now'.parked = now.parked
    BY <1>1 DEF AskForOne, NowType
  <2> QED BY <1>2, <2>1
<1>7. ~ TurnAway /\ ~ Admit
  BY <1>1, <1>2 DEF TurnAway, Admit, NowType
<1>8. ~ Finish /\ ~ (\E stop \in SUBSET Req : Process(stop))
  BY <1>3 DEF Finish, Process
<1>9. \A q \in Req : ~ Arrive(q) /\ ~ Land(q) /\ ~ Abort(q)
  BY <1>3 DEF Arrive, Land, Abort
<1>10. ~ UNCHANGED vars
  BY <1>3 DEF vars
<1> QED BY <1>4, <1>5, <1>6, <1>7, <1>8, <1>9, <1>10 DEF Next, Engine

\* Without a threshold on prefills, whoever is parked leaves enough free blocks
\* for every prefill in flight to hold its whole sequence: the reserve passed
\* to allocate_slots counts them all, those of earlier steps, those parked
\* before and those started in this step.
THEOREM ParkedLoadsLeaveRoom ==
  ASSUME LongPrefill = 0
  PROVE  Spec => ParkingLeavesRoom
<1>1. Init => Room
  <2>1. Idle.at = "idle"
    BY DEF Idle
  <2> QED BY <2>1 DEF Init, Room
<1>2. SplitInv /\ SplitInv' /\ Room /\ [Next]_vars => Room'
  BY RoomStep
<1>3. SplitInv /\ SplitInv' /\ Room /\ [Next]_vars =>
        \A r \in Req :
          now'.parked = Append(now.parked, r) =>
            pool'.numFree >=
              RemainingOf(prefills \cup Elements(now.parked) \cup StartedPrefills)
  <2> SUFFICES ASSUME SplitInv, SplitInv', Room, [Next]_vars, NEW r \in Req,
                      now'.parked = Append(now.parked, r)
               PROVE  pool'.numFree >=
                        RemainingOf(prefills \cup Elements(now.parked) \cup StartedPrefills)
    OBVIOUS
  <2>1. Park
    BY OnlyParkParks
  <2> QED BY <2>1, ParkRoom DEF Growing
<1> QED BY <1>1, <1>2, <1>3, SplitInvHolds, PTL DEF Spec, ParkingLeavesRoom
===============================================================================
