----------------------- MODULE FullAttentionCacheProofs -----------------------
(***************************************************************************)
(* FullAttentionCache for every set of requests, every size of the pool,   *)
(* of a block and of the context, and every text: the pool stays           *)
(* consistent, reference counts are exactly the holders, an admitted       *)
(* allocation never finds the queue short, every hit and every table read  *)
(* the text they stand for, nothing shared or cached is written, and the   *)
(* order of reuse leaves no hole in the cache.                             *)
(***************************************************************************)
EXTENDS FullAttentionCache, BlockPoolProofs, SequenceTheorems,
        WellFoundedInduction

\* A block table is long enough for the full blocks of what is computed; the
\* publication of final tokens reads the table up to there.
RowCovers == \A r \in Req : FullBlocks(computed[r]) <= Len(rows[r])

\* The inductive invariant.
IInv == TypeOK /\ PoolConsistent /\ RefExact /\ RowCovers

------------------------------------------------------------------------------
(***************************************************************************)
(* Arithmetic of blocks.                                                   *)
(***************************************************************************)

\* Integer division is monotonic and of type Nat.
LEMMA DivMono ==
  ASSUME NEW a \in Nat, NEW b \in Nat, a <= b, NEW d \in Nat \ {0}
  PROVE  a \div d \in Nat /\ a \div d <= b \div d
<1> DEFINE x == a \div d
           y == b \div d
<1>1. /\ x \in Int /\ y \in Int
      /\ d * x <= a /\ a < d * x + d
      /\ d * y <= b /\ b < d * y + d
  OBVIOUS
<1> HIDE DEF x, y
<1>2. x >= 0
  <2>1. SUFFICES ASSUME x <= -1
                 PROVE  FALSE
    BY <1>1
  <2>2. d * x <= -d
    BY <1>1, <2>1
  <2>3. d * x \in Int
    BY <1>1
  <2> QED BY <1>1, <2>2, <2>3
<1>3. x <= y
  <2>1. SUFFICES ASSUME y + 1 <= x
                 PROVE  FALSE
    BY <1>1
  <2>2. d * (y + 1) <= d * x
    BY <1>1, <2>1
  <2>3. d * (y + 1) = d * y + d /\ d * y \in Int /\ d * x \in Int
    BY <1>1
  <2> QED BY <1>1, <2>2, <2>3
<1> QED BY <1>1, <1>2, <1>3 DEF x, y

\* For a target below max_model_len the table that is required covers its full
\* blocks, and they have hashes.
LEMMA BlockCounts ==
  ASSUME NEW t \in 0 .. MaxLen - 1
  PROVE  /\ FullBlocks(t) \in Nat /\ MaxBlocks \in Nat
         /\ FullBlocks(t) <= MaxBlocks
         /\ RequiredBlocks(t) \in Nat
         /\ FullBlocks(t) <= RequiredBlocks(t)
<1> DEFINE u == Lesser(t + Lookahead, MaxLen)
<1>1. /\ BlockSize \in Nat \ {0} /\ MaxLen \in Nat \ {0} /\ Lookahead \in Nat
      /\ t \in Nat /\ t <= MaxLen
  BY CacheAssumption
<1>2. u \in Nat /\ t <= u
  BY <1>1 DEF Lesser
<1>3. u + BlockSize - 1 \in Nat /\ t <= u + BlockSize - 1
  BY <1>1, <1>2
<1>4. MaxLen + BlockSize - 1 \in Nat /\ t <= MaxLen + BlockSize - 1
  BY <1>1
<1> HIDE DEF u
<1>5. /\ t \div BlockSize \in Nat
      /\ t \div BlockSize <= (u + BlockSize - 1) \div BlockSize
      /\ t \div BlockSize <= (MaxLen + BlockSize - 1) \div BlockSize
  BY <1>1, <1>3, <1>4, DivMono
<1>6. /\ (u + BlockSize - 1) \div BlockSize \in Nat
      /\ (MaxLen + BlockSize - 1) \div BlockSize \in Nat
  <2>1. /\ u + BlockSize - 1 <= u + BlockSize - 1
        /\ MaxLen + BlockSize - 1 <= MaxLen + BlockSize - 1
    BY <1>3, <1>4
  <2> QED BY <1>1, <1>3, <1>4, <2>1, DivMono
<1> QED BY <1>5, <1>6 DEF FullBlocks, MaxBlocks, RequiredBlocks, CeilDiv, u

\* The hashes of one text are as many as the blocks of a context, and differ.
LEMMA TextHashes ==
  ASSUME NEW r \in Req
  PROVE  /\ BlockHash[r] \in Seq(Keys) /\ Len(BlockHash[r]) = MaxBlocks
         /\ MaxBlocks \in Nat
         /\ \A i, j \in 1 .. MaxBlocks : BlockHash[r][i] = BlockHash[r][j] => i = j
<1>1. MaxBlocks \in Nat
  <2>1. 0 \in 0 .. MaxLen - 1
    BY CacheAssumption
  <2> QED BY <2>1, BlockCounts
<1>2. BlockHash[r] \in [1 .. MaxBlocks -> Keys]
  BY CacheAssumption
<1>3. BlockHash[r] \in Seq(Keys) /\ Len(BlockHash[r]) = MaxBlocks
  BY <1>1, <1>2
<1> QED BY <1>1, <1>3, CacheAssumption DEF ChainedHashes

\* cache_blocks of a request: publishing within its table keeps the pool.
LEMMA PublishInv ==
  ASSUME NEW p, PoolInv(p), NEW r \in Req, NEW row \in Seq(Blocks), Distinct(row),
         NEW already \in Nat, NEW tokens \in 0 .. MaxLen - 1,
         FullBlocks(tokens) <= Len(row)
  PROVE  /\ PoolInv(Publish(p, r, row, already, tokens))
         /\ Publish(p, r, row, already, tokens).ref = p.ref
         /\ Publish(p, r, row, already, tokens).free = p.free
         /\ \A i \in already + 1 .. FullBlocks(tokens) : row[i] # NullBlock =>
              Publish(p, r, row, already, tokens).hash[row[i]] = BlockHash[r][i]
         /\ \A b \in Blocks :
              (\A i \in already + 1 .. FullBlocks(tokens) : row[i] # b) =>
                Publish(p, r, row, already, tokens).hash[b] = p.hash[b]
<1> DEFINE last == FullBlocks(tokens)
           hashes == BlockHash[r]
<1>1. /\ hashes \in Seq(Keys) /\ last \in Nat /\ last <= Len(hashes)
      /\ last <= Len(row) /\ Len(hashes) = MaxBlocks /\ MaxBlocks \in Nat
  BY BlockCounts, TextHashes
<1>2. \A i, j \in 1 .. MaxBlocks : hashes[i] = hashes[j] => i = j
  BY TextHashes
<1>3. \A i, j \in 1 .. Len(row) : row[i] = row[j] => i = j
  BY DEF Distinct
<1> HIDE DEF last, hashes
<1>4. /\ \A i \in already + 1 .. last : i \in 1 .. MaxBlocks /\ i \in 1 .. Len(row)
  BY <1>1
<1>5. \A i, j \in already + 1 .. last :
        /\ (row[i] = row[j] /\ row[i] # NullBlock) => i = j
        /\ hashes[i] = hashes[j] => i = j
  BY <1>2, <1>3, <1>4
<1>6. Cacheable(row, hashes, already, last)
  BY <1>1, <1>5 DEF Cacheable
<1>7. /\ PoolInv(CacheFullBlocks(p, row, hashes, already, last))
      /\ CacheFullBlocks(p, row, hashes, already, last).ref = p.ref
      /\ CacheFullBlocks(p, row, hashes, already, last).free = p.free
      /\ \A i \in already + 1 .. last : row[i] # NullBlock =>
           CacheFullBlocks(p, row, hashes, already, last).hash[row[i]] = hashes[i]
      /\ \A b \in Blocks : (\A i \in already + 1 .. last : row[i] # b) =>
           CacheFullBlocks(p, row, hashes, already, last).hash[b] = p.hash[b]
  BY <1>6, CacheFullBlocksInv
<1> QED BY <1>7 DEF Publish, last, hashes

------------------------------------------------------------------------------
(***************************************************************************)
(* The cache walk.                                                         *)
(***************************************************************************)

\* A set of naturals with a bound and an element has a greatest element.
LEMMA GreatestNatural ==
  ASSUME NEW n \in Nat, NEW S \in SUBSET (0 .. n), S # {}
  PROVE  \E i \in S : \A k \in S : k <= i
<1> DEFINE T == {n - i : i \in S}
<1>1. T \in SUBSET Nat /\ T # {}
  <2>1. \A i \in S : n - i \in Nat
    OBVIOUS
  <2>2. PICK i : i \in S
    OBVIOUS
  <2>3. n - i \in T
    BY <2>2
  <2> QED BY <2>1, <2>3
<1>2. PICK m \in T : \A k \in T : ~ (<<k, m>> \in OpToRel(<, Nat))
  BY <1>1, WFMin, NatLessThanWellFounded
<1>3. \A k \in T : m <= k
  <2>1. \A k \in T : k \in Nat /\ m \in Nat /\ ~ (k < m)
    BY <1>1, <1>2 DEF OpToRel
  <2> QED BY <2>1
<1>4. PICK i \in S : m = n - i
  BY <1>2
<1>5. ASSUME NEW k \in S
      PROVE  k <= i
  <2>1. n - i <= n - k
    BY <1>3, <1>4
  <2> QED BY <2>1
<1> QED BY <1>5

\* The limit of the walk is a block of the context that has a hash.
LEMMA LimitInContext ==
  ASSUME NEW r \in Req, numTokens[r] \in 1 .. MaxLen - 1
  PROVE  HitLimit(r) \in Nat /\ HitLimit(r) <= MaxBlocks
<1>1. numTokens[r] - 1 \in 0 .. MaxLen - 1
  BY CacheAssumption
<1> QED BY <1>1, BlockCounts DEF HitLimit, FullBlocks

\* The hit is a row of distinct blocks, all of them cached, none the null
\* block: the walk never answers with the placeholder.
LEMMA HitIsRow ==
  ASSUME NEW r \in Req, numTokens[r] \in 1 .. MaxLen - 1, PoolInv(pool)
  PROVE  /\ HitLen(r) \in Nat /\ HitLen(r) <= HitLimit(r)
         /\ HitBlocks(r) \in Seq(Blocks) /\ Len(HitBlocks(r)) = HitLen(r)
         /\ Distinct(HitBlocks(r)) /\ NullBlock \notin Elements(HitBlocks(r))
         /\ \A i \in 1 .. HitLen(r) : pool.hash[HitBlocks(r)[i]] = BlockHash[r][i]
<1>1. HitLimit(r) \in Nat /\ HitLimit(r) <= MaxBlocks
  BY LimitInContext
<1>2. Hits(r) \in SUBSET (0 .. HitLimit(r)) /\ 0 \in Hits(r)
  BY <1>1 DEF Hits
<1>3. HitLen(r) \in Hits(r)
  <2>1. \E h \in Hits(r) : \A g \in Hits(r) : g <= h
    BY <1>1, <1>2, GreatestNatural
  <2> QED BY <2>1 DEF HitLen
<1>4. HitLen(r) \in Nat /\ HitLen(r) <= HitLimit(r)
  BY <1>1, <1>2, <1>3
<1> DEFINE n == HitLen(r)
           s == HitBlocks(r)
           hash == BlockHash[r]
<1>5. /\ hash \in Seq(Keys) /\ Len(hash) = MaxBlocks /\ MaxBlocks \in Nat
      /\ \A i, j \in 1 .. MaxBlocks : hash[i] = hash[j] => i = j
  BY TextHashes
<1>6. \A i \in 1 .. n : IsCached(pool, hash[i])
  BY <1>3 DEF Hits
<1>7. s = [i \in 1 .. n |-> GetCachedBlock(pool, hash[i])]
  BY DEF HitBlocks
<1> HIDE DEF n, s, hash
<1>8. ASSUME NEW i \in 1 .. n
      PROVE  /\ i \in 1 .. MaxBlocks /\ hash[i] \in Keys
             /\ s[i] \in Blocks /\ pool.hash[s[i]] = hash[i]
  <2>1. i \in 1 .. MaxBlocks /\ hash[i] \in Keys
    BY <1>1, <1>4, <1>5 DEF n
  <2>2. /\ pool.index[hash[i]] \in Seq(Blocks)
        /\ Elements(pool.index[hash[i]]) = {b \in Blocks : pool.hash[b] = hash[i]}
    BY <2>1 DEF PoolInv, PoolType, IndexExact
  <2>3. pool.index[hash[i]] # << >>
    BY <1>6 DEF IsCached
  <2>4. pool.index[hash[i]][1] \in Elements(pool.index[hash[i]])
    BY <2>2, <2>3 DEF Elements
  <2>5. s[i] = pool.index[hash[i]][1]
    BY <1>7 DEF GetCachedBlock
  <2> QED BY <2>1, <2>2, <2>4, <2>5
<1>9. n \in Nat
  BY <1>4 DEF n
<1>10. s \in [1 .. n -> Blocks]
  BY <1>7, <1>8
<1>11. s \in Seq(Blocks) /\ Len(s) = n /\ DOMAIN s = 1 .. n
  BY <1>9, <1>10
<1>12. Distinct(s)
  BY <1>5, <1>8, <1>11 DEF Distinct
<1>13. NullBlock \notin Elements(s)
  <2>1. pool.hash[NullBlock] = NoKey /\ NoKey \notin Keys
    BY PoolAssumption DEF PoolInv, IndexExact
  <2> QED BY <1>8, <1>11, <2>1 DEF Elements
<1> QED BY <1>4, <1>8, <1>11, <1>12, <1>13 DEF n, s, hash

------------------------------------------------------------------------------
(***************************************************************************)
(* Reference counts and holders.                                           *)
(***************************************************************************)

\* A block without references is in no table.
LEMMA IdleIsUnheld ==
  ASSUME RefExact, NEW b \in Blocks, pool.ref[b] = 0, NEW r \in Req
  PROVE  b \notin Elements(rows[r])
<1>1. Holders(b) \in SUBSET Req /\ IsFiniteSet(Req)
  BY CacheAssumption DEF Holders
<1>2. IsFiniteSet(Holders(b)) /\ Cardinality(Holders(b)) = 0
  BY <1>1, FS_Subset DEF RefExact
<1>3. Holders(b) = {}
  BY <1>2, FS_EmptySet
<1> QED BY <1>3 DEF Holders

\* A block in a table has a reference.
LEMMA HeldIsReferenced ==
  ASSUME RefExact, NEW b \in Blocks, pool.ref[b] \in Nat,
         NEW r \in Req, b \in Elements(rows[r])
  PROVE  pool.ref[b] >= 1
BY IdleIsUnheld

\* The hit blocks are off the queue once touched, so blocks taken afterwards
\* are others, and were in no table.
LEMMA TakenIsFresh ==
  ASSUME PoolInv(pool), RefExact, NEW r \in Req,
         NEW hit \in Seq(Blocks), NullBlock \notin Elements(hit),
         NEW count \in Nat, CanGetNewBlocks(Touched(hit), count)
  PROVE  LET new == NewBlocks(Touched(hit), count)
             taken == GetNewBlocks(Touched(hit), count)
         IN  /\ PoolInv(taken) /\ new \in Seq(Blocks) /\ Distinct(new) /\ Len(new) = count
             /\ NullBlock \notin Elements(new)
             /\ Elements(new) \cap Elements(hit) = {}
             /\ Elements(new) \cap Elements(rows[r]) = {}
             /\ \A b \in Blocks : taken.ref[b] =
                  IF b \in Elements(hit) \cup Elements(new)
                  THEN pool.ref[b] + 1 ELSE pool.ref[b]
             /\ \A b \in Blocks : taken.hash[b] =
                  IF b \in Elements(new) THEN NoKey ELSE pool.hash[b]
<1> DEFINE t == Touched(hit)
           new == NewBlocks(t, count)
           taken == GetNewBlocks(t, count)
<1>1. Elements(hit) \in SUBSET Blocks
  BY DEF Elements
<1>2. /\ PoolInv(t) /\ t.hash = pool.hash
      /\ \A b \in Blocks : t.ref[b] =
           IF b \in Elements(hit) THEN pool.ref[b] + 1 ELSE pool.ref[b]
  <2>1. /\ PoolInv(t) /\ t.hash = pool.hash
        /\ \A b \in Blocks : t.ref[b] =
             IF b \in Elements(hit) \ {NullBlock}
             THEN pool.ref[b] + 1 ELSE pool.ref[b]
    BY <1>1, TouchInv DEF Touched
  <2> QED BY <2>1
<1> HIDE DEF t
<1>3. /\ PoolInv(taken) /\ new \in Seq(Blocks) /\ Distinct(new) /\ Len(new) = count
      /\ \A b \in Elements(new) : /\ b \in RealBlocks /\ t.ref[b] = 0
                                  /\ taken.ref[b] = 1 /\ taken.hash[b] = NoKey
      /\ \A b \in Blocks \ Elements(new) :
           taken.ref[b] = t.ref[b] /\ taken.hash[b] = t.hash[b]
  BY <1>2, GetNewBlocksInv DEF t
<1> HIDE DEF new, taken
<1>4. pool.ref \in [Blocks -> Nat]
  BY DEF PoolInv, PoolType
<1>5. ASSUME NEW b \in Elements(new)
      PROVE  /\ b \in Blocks /\ b # NullBlock /\ b \notin Elements(hit)
             /\ pool.ref[b] = 0 /\ taken.ref[b] = 1
             /\ b \notin Elements(rows[r])
  <2>1. b \in Blocks /\ b # NullBlock /\ t.ref[b] = 0 /\ taken.ref[b] = 1
    BY <1>3, BlockNumbers
  <2>2. pool.ref[b] \in Nat
    BY <1>4, <2>1
  <2>3. b \notin Elements(hit) /\ pool.ref[b] = 0
    BY <1>2, <2>1, <2>2
  <2> QED BY <2>1, <2>3, IdleIsUnheld
<1>6. ASSUME NEW b \in Blocks
      PROVE  taken.ref[b] = IF b \in Elements(hit) \cup Elements(new)
                            THEN pool.ref[b] + 1 ELSE pool.ref[b]
  BY <1>2, <1>3, <1>5
<1>7. ASSUME NEW b \in Blocks
      PROVE  taken.hash[b] = IF b \in Elements(new) THEN NoKey ELSE pool.hash[b]
  BY <1>2, <1>3
<1> QED BY <1>3, <1>5, <1>6, <1>7 DEF t, new, taken

\* Touching the hit and taking new blocks keeps the order of reuse.
LEMMA TakenKeepsOrder ==
  ASSUME PoolInv(pool), NEW hit \in Seq(Blocks),
         NEW count \in Nat, CanGetNewBlocks(Touched(hit), count),
         NEW L \in SUBSET (Keys \X Keys), Ordered(pool, L)
  PROVE  Ordered(GetNewBlocks(Touched(hit), count), L)
<1>1. Elements(hit) \in SUBSET Blocks
  BY DEF Elements
<1>2. PoolInv(Touched(hit)) /\ Ordered(Touched(hit), L)
  BY <1>1, TouchInv, TouchKeepsOrder DEF Touched
<1> QED BY <1>2, GetNewBlocksKeepsOrder

\* Extending one table by blocks it does not hold, each with one reference
\* more, keeps the counts exact.
LEMMA ExtendRow ==
  ASSUME TypeOK, RefExact, NEW r \in Req, NEW row \in Seq(Blocks), Distinct(row),
         NEW A \in SUBSET Blocks, NullBlock \notin A,
         Elements(rows[r]) \cap A = {},
         Elements(row) = Elements(rows[r]) \cup A,
         rows' = [rows EXCEPT ![r] = row],
         \A b \in Blocks : pool.ref[b] \in Nat,
         \A b \in Blocks : pool'.ref[b] =
           IF b \in A THEN pool.ref[b] + 1 ELSE pool.ref[b]
  PROVE  RefExact' /\ rows' \in [Req -> Seq(Blocks)]
<1>1. NullBlock \notin Elements(rows[r])
  BY DEF RefExact
<1>2. Elements(row) = Elements(rows[r]) \cup A /\ NullBlock \notin Elements(row)
  BY <1>1
<1>3. /\ rows' \in [Req -> Seq(Blocks)]
      /\ rows'[r] = row
      /\ \A q \in Req \ {r} : rows'[q] = rows[q]
  BY DEF TypeOK
<1>4. ASSUME NEW q \in Req
      PROVE  Distinct(rows'[q]) /\ NullBlock \notin Elements(rows'[q])
  BY <1>1, <1>2, <1>3 DEF RefExact
<1>5. ASSUME NEW b \in Blocks
      PROVE  pool'.ref[b] = Cardinality(Holders(b)')
  <2>1. IsFiniteSet(Holders(b)) /\ pool.ref[b] = Cardinality(Holders(b))
    <3>1. Holders(b) \in SUBSET Req /\ IsFiniteSet(Req)
      BY CacheAssumption DEF Holders
    <3> QED BY <3>1, FS_Subset DEF RefExact
  <2>2. CASE b \in A
    <3>1. r \notin Holders(b)
      BY <2>2 DEF Holders
    <3>2. Holders(b)' = Holders(b) \cup {r}
      BY <1>2, <1>3, <2>2 DEF Holders
    <3>3. Cardinality(Holders(b) \cup {r}) = Cardinality(Holders(b)) + 1
      BY <2>1, <3>1, FS_AddElement
    <3> QED BY <2>1, <2>2, <3>2, <3>3
  <2>3. CASE b \notin A
    <3>1. Holders(b)' = Holders(b)
      BY <1>2, <1>3, <2>3 DEF Holders
    <3> QED BY <2>1, <2>3, <3>1
  <2> QED BY <2>2, <2>3
<1>6. RefExact'
  BY <1>4, <1>5 DEF RefExact
<1> QED BY <1>3, <1>6

------------------------------------------------------------------------------
(***************************************************************************)
(* The handlers.                                                           *)
(***************************************************************************)

\* A block that begins below max_model_len has a hash.
LEMMA WrittenBlockHasHash ==
  ASSUME NEW j \in Nat \ {0}, (j - 1) * BlockSize < MaxLen
  PROVE  j \in 1 .. MaxBlocks
<1> DEFINE c == CeilDiv(MaxLen, BlockSize)
<1>1. BlockSize \in Nat \ {0} /\ MaxLen \in Nat \ {0}
  BY CacheAssumption
<1>2. /\ c \in Int
      /\ MaxLen + BlockSize - 1 < BlockSize * c + BlockSize
  BY <1>1 DEF CeilDiv
<1> HIDE DEF c
<1>3. SUFFICES ASSUME c <= j - 1
               PROVE  FALSE
  BY <1>2 DEF c, MaxBlocks
<1>4. BlockSize * c <= BlockSize * (j - 1)
  BY <1>1, <1>2, <1>3
<1>5. BlockSize * (j - 1) = (j - 1) * BlockSize /\ BlockSize * c \in Int
  BY <1>1, <1>2
<1> QED BY <1>1, <1>2, <1>4, <1>5

\* What the model runner writes is text with a hash, or nothing known.
LEMMA WriteKVType ==
  ASSUME TypeOK, NEW r \in Req, NEW row \in Seq(Blocks), NEW from \in Nat,
         NEW to \in 0 .. MaxLen - 1, WriteKV(r, row, from, to)
  PROVE  kv' \in [Blocks -> [key : Keys \cup {NoKey}, filled : Nat]]
<1> DEFINE hitBy(b) == {j \in DOMAIN row : /\ row[j] = b
                                           /\ (j - 1) * BlockSize < to
                                           /\ j * BlockSize > from}
           K == [key : Keys \cup {NoKey}, filled : Nat]
<1>1. kv' = [b \in Blocks |-> IF hitBy(b) = {} THEN kv[b]
               ELSE Written(b, r, CHOOSE j \in hitBy(b) : TRUE, from, to)]
  BY DEF WriteKV
<1>2. BlockSize \in Nat \ {0} /\ MaxLen \in Nat \ {0}
  BY CacheAssumption
<1>3. ASSUME NEW b \in Blocks, NEW j \in hitBy(b)
      PROVE  Written(b, r, j, from, to) \in K
  <2>1. j \in Nat \ {0} /\ (j - 1) * BlockSize < to /\ (j - 1) * BlockSize \in Nat
    BY <1>2
  <2>2. j \in 1 .. MaxBlocks
    BY <1>2, <2>1, WrittenBlockHasHash
  <2>3. BlockHash[r][j] \in Keys
    BY <2>2, CacheAssumption
  <2>4. Lesser(to - (j - 1) * BlockSize, BlockSize) \in Nat
    BY <1>2, <2>1 DEF Lesser
  <2> HIDE DEF hitBy
  <2> QED BY <2>3, <2>4 DEF Written
<1>4. \A b \in Blocks : kv[b] \in K
  BY DEF TypeOK
<1> HIDE DEF hitBy, K
<1>5. \A b \in Blocks : hitBy(b) # {} => (CHOOSE j \in hitBy(b) : TRUE) \in hitBy(b)
  OBVIOUS
<1>6. kv' \in [Blocks -> K]
  BY <1>1, <1>3, <1>4, <1>5
<1> QED BY <1>6 DEF K

\* allocate_slots keeps the invariant, for a hit that is a row and for any
\* target below max_model_len.
LEMMA AllocateSlotsKeeps ==
  ASSUME IInv, NEW r \in Req,
         NEW hit \in Seq(Blocks), Distinct(hit), NullBlock \notin Elements(hit),
         Elements(rows[r]) \cap Elements(hit) = {},
         NEW base \in Nat, NEW n \in Nat, NEW headroom,
         base + Len(hit) * BlockSize + n \in 0 .. MaxLen - 1,
         AllocateSlots(r, hit, base, n, headroom)
  PROVE  IInv'
<1> DEFINE from    == base + Len(hit) * BlockSize
           target  == from + n
           count   == NumNew(r, hit, target)
           new     == NewBlocks(Touched(hit), count)
           taken   == GetNewBlocks(Touched(hit), count)
           front   == rows[r] \o hit
           row     == front \o new
           A       == Elements(hit) \cup Elements(new)
           already == numCached[r] + Len(hit)
           final   == Lesser(target, numTokens[r])
<1>1. /\ CanGetNewBlocks(Touched(hit), count)
      /\ rows' = [rows EXCEPT ![r] = row]
      /\ computed' = [computed EXCEPT ![r] = target]
      /\ numCached' = [numCached EXCEPT ![r] = Published(already, final)]
      /\ pool' = Publish(taken, r, row, already, final)
      /\ WriteKV(r, row, from, target)
      /\ numTokens' = numTokens /\ evictions' = evictions
  BY DEF AllocateSlots
<1>2. /\ rows[r] \in Seq(Blocks) /\ numCached[r] \in Nat
      /\ numTokens[r] \in 1 .. MaxLen - 1
      /\ Distinct(rows[r]) /\ NullBlock \notin Elements(rows[r])
      /\ PoolInv(pool) /\ RefExact /\ TypeOK
  BY DEF IInv, TypeOK, RefExact, PoolConsistent
<1>3. /\ BlockSize \in Nat \ {0} /\ MaxLen \in Nat \ {0}
      /\ Len(hit) \in Nat /\ Len(rows[r]) \in Nat
  BY <1>2, CacheAssumption
<1>4. from \in Nat /\ target \in 0 .. MaxLen - 1
  <2>1. Len(hit) * BlockSize \in Nat
    BY <1>3
  <2> QED BY <2>1
<1> HIDE DEF from, target
<1>5. RequiredBlocks(target) \in Nat /\ FullBlocks(target) <= RequiredBlocks(target)
  BY <1>4, BlockCounts
<1>6. /\ count \in Nat
      /\ count >= RequiredBlocks(target) - Len(rows[r]) - Len(hit)
  BY <1>3, <1>5, SMTT(30) DEF NumNew, Greater
<1> HIDE DEF count
<1>7. /\ PoolInv(taken) /\ new \in Seq(Blocks) /\ Distinct(new) /\ Len(new) = count
      /\ NullBlock \notin Elements(new)
      /\ Elements(new) \cap Elements(hit) = {}
      /\ Elements(new) \cap Elements(rows[r]) = {}
      /\ \A b \in Blocks : taken.ref[b] =
           IF b \in Elements(hit) \cup Elements(new)
           THEN pool.ref[b] + 1 ELSE pool.ref[b]
  BY <1>1, <1>2, <1>6, TakenIsFresh
<1> HIDE DEF new, taken
<1>8. /\ front \in Seq(Blocks) /\ Distinct(front)
      /\ Elements(front) = Elements(rows[r]) \cup Elements(hit)
      /\ Len(front) = Len(rows[r]) + Len(hit)
  <2>1. rows[r] \in Seq(Blocks) /\ hit \in Seq(Blocks)
        /\ Distinct(rows[r]) /\ Distinct(hit)
    BY <1>2
  <2> QED BY <2>1, ConcatElements
<1> HIDE DEF front
<1>9. /\ row \in Seq(Blocks) /\ Distinct(row)
      /\ Elements(row) = Elements(front) \cup Elements(new)
      /\ Len(row) = Len(front) + Len(new)
  <2>1. Elements(front) \cap Elements(new) = {}
    BY <1>7, <1>8
  <2>2. new \in Seq(Blocks) /\ Distinct(new)
    BY <1>7
  <2>3. front \in Seq(Blocks) /\ Distinct(front)
    BY <1>8
  <2> QED BY <2>1, <2>2, <2>3, ConcatElements
<1> HIDE DEF row
<1>10. Len(row) = Len(rows[r]) + Len(hit) + count
  BY <1>3, <1>6, <1>7, <1>8, <1>9
<1>11. FullBlocks(target) <= Len(row) /\ FullBlocks(target) \in Nat
  <2>1. FullBlocks(target) \in Nat
    BY <1>4, BlockCounts
  <2> QED BY <1>3, <1>5, <1>6, <1>10, <2>1, SMTT(30)
<1>12. final \in 0 .. MaxLen - 1 /\ final <= target
  BY <1>2, <1>3, <1>4 DEF Lesser
<1> HIDE DEF final
<1>13. FullBlocks(final) \in Nat /\ FullBlocks(final) <= FullBlocks(target)
  <2>1. final \in Nat /\ target \in Nat
    BY <1>4, <1>12
  <2> QED BY <1>3, <1>12, <2>1, DivMono DEF FullBlocks
<1>14. already \in Nat
  BY <1>2, <1>3
<1> HIDE DEF already
<1>15. PoolInv(pool') /\ pool'.ref = taken.ref
  <2>1. FullBlocks(final) <= Len(row)
    BY <1>3, <1>6, <1>10, <1>11, <1>13
  <2> QED BY <1>1, <1>7, <1>9, <1>12, <1>14, <2>1, PublishInv, SMTT(30)
<1>16. RefExact' /\ rows' \in [Req -> Seq(Blocks)]
  <2>1. \A b \in Blocks : pool.ref[b] \in Nat
    BY <1>2 DEF PoolInv, PoolType
  <2>2. \A b \in Blocks : pool'.ref[b] =
          IF b \in A THEN pool.ref[b] + 1 ELSE pool.ref[b]
    BY <1>7, <1>15
  <2>3. /\ A \in SUBSET Blocks /\ NullBlock \notin A /\ Elements(rows[r]) \cap A = {}
    <3>1. Elements(hit) \subseteq Blocks
      BY DEF Elements
    <3>2. Elements(new) \subseteq Blocks
      BY <1>7 DEF Elements
    <3> QED BY <1>7, <3>1, <3>2
  <2>4. Elements(row) = Elements(rows[r]) \cup A
    BY <1>8, <1>9
  <2> HIDE DEF A
  <2> QED BY <1>1, <1>2, <1>9, <2>1, <2>2, <2>3, <2>4, ExtendRow
<1>17. TypeOK'
  <2>1. kv' \in [Blocks -> [key : Keys \cup {NoKey}, filled : Nat]]
    BY <1>1, <1>2, <1>4, <1>9, WriteKVType
  <2>2. Published(already, final) \in Nat
    BY <1>13, <1>14 DEF Published, Greater
  <2> QED BY <1>1, <1>2, <1>4, <1>16, <2>1, <2>2 DEF TypeOK
<1>18. RowCovers'
  <2>1. rows'[r] = row /\ computed'[r] = target
    BY <1>1, <1>2 DEF TypeOK
  <2>2. \A q \in Req \ {r} : rows'[q] = rows[q] /\ computed'[q] = computed[q]
    BY <1>1, <1>2 DEF TypeOK
  <2>3. RowCovers
    BY DEF IInv
  <2> QED BY <1>11, <2>1, <2>2, <2>3 DEF RowCovers, FullBlocks
<1> QED BY <1>15, <1>16, <1>17, <1>18 DEF IInv, PoolConsistent

\* A row read backwards has the same blocks.
LEMMA BackwardsElements ==
  ASSUME NEW X, NEW s \in Seq(X), Distinct(s)
  PROVE  /\ Backwards(s) \in Seq(X) /\ Distinct(Backwards(s))
         /\ Elements(Backwards(s)) = Elements(s)
<1> DEFINE n == Len(s)
           t == Backwards(s)
<1>1. n \in Nat /\ DOMAIN s = 1 .. n /\ \A i \in 1 .. n : s[i] \in X
  OBVIOUS
<1>2. t = [i \in 1 .. n |-> s[n - i + 1]]
  BY DEF Backwards
<1> HIDE DEF n, t
<1>3. \A i \in 1 .. n : n - i + 1 \in 1 .. n /\ n - (n - i + 1) + 1 = i
  BY <1>1
<1>4. t \in [1 .. n -> X]
  BY <1>1, <1>2, <1>3
<1>5. t \in Seq(X)
  BY <1>1, <1>4
<1>6. DOMAIN t = 1 .. n /\ \A i \in 1 .. n : t[i] = s[n - i + 1]
  BY <1>2
<1>7. Distinct(t)
  <2>1. SUFFICES ASSUME NEW i \in 1 .. n, NEW j \in 1 .. n, t[i] = t[j]
                 PROVE  i = j
    BY <1>6 DEF Distinct
  <2>2. n - i + 1 = n - j + 1
    BY <1>1, <1>3, <1>6, <2>1 DEF Distinct
  <2> QED BY <1>1, <2>2
<1>8. Elements(t) \subseteq Elements(s)
  BY <1>1, <1>3, <1>6 DEF Elements
<1>9. Elements(s) \subseteq Elements(t)
  <2>1. SUFFICES ASSUME NEW i \in 1 .. n
                 PROVE  s[i] \in Elements(t)
    BY <1>1 DEF Elements
  <2>2. n - i + 1 \in 1 .. n /\ t[n - i + 1] = s[i]
    BY <1>3, <1>6
  <2> QED BY <1>6, <2>2 DEF Elements
<1> QED BY <1>5, <1>7, <1>8, <1>9 DEF t

\* Freeing a row from a pool with the counts of this state: every block of the
\* row loses its holder and its reference, whoever else holds it.
LEMMA FreeRowKeeps ==
  ASSUME IInv, NEW r \in Req, NEW p, PoolInv(p), p.ref = pool.ref,
         FreeRow(p, r), numTokens' \in [Req -> 1 .. MaxLen - 1]
  PROVE  IInv'
<1> DEFINE back == Backwards(rows[r])
           gone == Elements(rows[r])
<1>1. /\ pool' = FreeBlocks(p, back)
      /\ rows' = [rows EXCEPT ![r] = << >>]
      /\ numCached' = [numCached EXCEPT ![r] = 0]
      /\ computed' = [computed EXCEPT ![r] = 0]
      /\ kv' = kv /\ evictions' = evictions
  BY DEF FreeRow
<1>2. /\ TypeOK /\ RefExact /\ RowCovers
      /\ rows[r] \in Seq(Blocks) /\ Distinct(rows[r]) /\ NullBlock \notin gone
      /\ \A b \in Blocks : pool.ref[b] \in Nat
  BY DEF IInv, TypeOK, RefExact, PoolConsistent, PoolInv, PoolType
<1>3. gone \subseteq Blocks
  BY <1>2 DEF Elements
<1>4. back \in Seq(Blocks) /\ Distinct(back) /\ Elements(back) = gone
  BY <1>2, BackwardsElements
<1> HIDE DEF back
<1>5. \A b \in gone : p.ref[b] >= 1
  BY <1>2, <1>3, HeldIsReferenced
<1>6. /\ PoolInv(pool')
      /\ \A b \in Blocks : pool'.ref[b] =
           IF b \in gone THEN pool.ref[b] - 1 ELSE pool.ref[b]
  <2>1. Elements(back) \ {NullBlock} = gone
    BY <1>2, <1>4
  <2>2. \A b \in Elements(back) \ {NullBlock} : p.ref[b] >= 1
    BY <1>5, <2>1
  <2>3. /\ PoolInv(FreeBlocks(p, back))
        /\ \A b \in Blocks : FreeBlocks(p, back).ref[b] =
             IF b \in Elements(back) \ {NullBlock} THEN p.ref[b] - 1 ELSE p.ref[b]
    BY <1>4, <2>2, FreeBlocksInv
  <2> QED BY <1>1, <2>1, <2>3
<1> HIDE DEF gone
<1>7. << >> \in Seq(Blocks) /\ Elements(<< >>) = {} /\ Distinct(<< >>)
  BY DEF Elements, Distinct
<1>8. /\ rows' \in [Req -> Seq(Blocks)] /\ rows'[r] = << >>
      /\ \A q \in Req \ {r} : rows'[q] = rows[q]
  BY <1>1, <1>2, <1>7 DEF TypeOK
<1>9. ASSUME NEW b \in Blocks
      PROVE  pool'.ref[b] = Cardinality(Holders(b)')
  <2>1. IsFiniteSet(Holders(b)) /\ pool.ref[b] = Cardinality(Holders(b))
    <3>1. Holders(b) \in SUBSET Req /\ IsFiniteSet(Req)
      BY CacheAssumption DEF Holders
    <3> QED BY <1>2, <3>1, FS_Subset DEF RefExact
  <2>2. Holders(b)' = Holders(b) \ {r}
    BY <1>7, <1>8 DEF Holders
  <2>3. CASE b \in gone
    <3>1. r \in Holders(b)
      BY <2>3 DEF Holders, gone
    <3>2. Cardinality(Holders(b) \ {r}) = Cardinality(Holders(b)) - 1
      BY <2>1, <3>1, FS_RemoveElement
    <3> QED BY <1>6, <2>1, <2>2, <2>3, <3>2
  <2>4. CASE b \notin gone
    <3>1. Holders(b) \ {r} = Holders(b)
      BY <2>4 DEF Holders, gone
    <3> QED BY <1>6, <2>1, <2>2, <2>4, <3>1
  <2> QED BY <2>3, <2>4
<1>10. RefExact'
  <2>1. \A q \in Req : Distinct(rows'[q]) /\ NullBlock \notin Elements(rows'[q])
    BY <1>2, <1>7, <1>8 DEF RefExact
  <2> QED BY <1>9, <2>1 DEF RefExact
<1>11. TypeOK'
  <2>1. 0 \in 0 .. MaxLen - 1 /\ 0 \in Nat
    BY CacheAssumption
  <2> QED BY <1>1, <1>2, <1>8, <2>1 DEF TypeOK
<1>12. RowCovers'
  <2>1. computed'[r] = 0 /\ \A q \in Req \ {r} : computed'[q] = computed[q]
    BY <1>1, <1>2 DEF TypeOK
  <2>2. FullBlocks(0) = 0
    BY CacheAssumption DEF FullBlocks
  <2>3. FullBlocks(computed'[r]) <= Len(rows'[r])
    <3>1. Len(<< >>) = 0
      OBVIOUS
    <3> QED BY <1>8, <2>1, <2>2, <3>1
  <2>4. \A q \in Req \ {r} : FullBlocks(computed'[q]) <= Len(rows'[q])
    BY <1>2, <1>8, <2>1 DEF RowCovers
  <2>5. \A q \in Req : FullBlocks(computed'[q]) <= Len(rows'[q])
    BY <2>3, <2>4
  <2> QED BY <2>5 DEF RowCovers, FullBlocks
<1> QED BY <1>6, <1>10, <1>11, <1>12 DEF IInv, PoolConsistent

\* When a token of r was in flight, its final tokens are within its table, and
\* publishing them keeps the pool.
LEMMA FinalTokensKeep ==
  ASSUME IInv, NEW r \in Req, InFlight(r) > 0
  PROVE  PoolInv(WithFinalTokens(r)) /\ WithFinalTokens(r).ref = pool.ref
<1>1. /\ numTokens[r] \in 1 .. MaxLen - 1 /\ computed[r] \in 0 .. MaxLen - 1
      /\ numCached[r] \in Nat /\ rows[r] \in Seq(Blocks) /\ Distinct(rows[r])
      /\ PoolInv(pool) /\ FullBlocks(computed[r]) <= Len(rows[r])
  BY DEF IInv, TypeOK, RefExact, PoolConsistent, RowCovers
<1>2. BlockSize \in Nat \ {0} /\ MaxLen \in Nat \ {0}
  BY CacheAssumption
<1>3. numTokens[r] <= computed[r]
  BY <1>1, <1>2 DEF InFlight, Greater
<1>4. numTokens[r] \in Nat /\ computed[r] \in Nat /\ numTokens[r] \in 0 .. MaxLen - 1
  BY <1>1, <1>2
<1>5. FullBlocks(numTokens[r]) <= FullBlocks(computed[r])
      /\ FullBlocks(numTokens[r]) \in Nat /\ FullBlocks(computed[r]) \in Nat
  BY <1>1, <1>2, <1>3, <1>4, DivMono, BlockCounts DEF FullBlocks
<1>6. FullBlocks(numTokens[r]) <= Len(rows[r])
  BY <1>1, <1>5
<1> QED BY <1>1, <1>4, <1>6, PublishInv DEF WithFinalTokens

\* A sampled token, the tokens before it final.
LEMMA SampledKeeps ==
  ASSUME IInv, NEW r \in Req, Sampled(r)
  PROVE  IInv'
<1>1. /\ InFlight(r) > 0 /\ numTokens[r] + 1 < MaxLen
      /\ numTokens' = [numTokens EXCEPT ![r] = @ + 1]
      /\ pool' = WithFinalTokens(r)
      /\ numCached' = [numCached EXCEPT ![r] = Published(@, numTokens[r])]
      /\ rows' = rows /\ computed' = computed /\ kv' = kv /\ evictions' = evictions
  BY DEF Sampled
<1>2. TypeOK /\ RefExact /\ RowCovers /\ numTokens[r] \in 1 .. MaxLen - 1
      /\ numCached[r] \in Nat
  BY DEF IInv, TypeOK
<1>3. PoolInv(pool') /\ pool'.ref = pool.ref
  BY <1>1, FinalTokensKeep
<1>4. Published(numCached[r], numTokens[r]) \in Nat
  <2>1. numTokens[r] \in 0 .. MaxLen - 1
    BY <1>2
  <2>2. FullBlocks(numTokens[r]) \in Nat
    BY <2>1, BlockCounts
  <2> QED BY <1>2, <2>2 DEF Published, Greater
<1>5. TypeOK'
  <2>1. numTokens[r] + 1 \in 1 .. MaxLen - 1
    BY <1>1, <1>2, CacheAssumption
  <2> QED BY <1>1, <1>2, <1>4, <2>1 DEF TypeOK
<1>6. RefExact'
  BY <1>1, <1>2, <1>3 DEF RefExact, Holders
<1>7. RowCovers'
  BY <1>1, <1>2 DEF RowCovers, FullBlocks
<1> QED BY <1>3, <1>5, <1>6, <1>7 DEF IInv, PoolConsistent

\* Out-of-band changes of the index touch no count and no table.
LEMMA IndexOnlyKeeps ==
  ASSUME IInv, PoolInv(pool'), pool'.ref = pool.ref, evictions' \in Nat,
         UNCHANGED <<rows, numCached, numTokens, computed, kv>>
  PROVE  IInv'
<1>1. TypeOK'
  BY DEF IInv, TypeOK
<1>2. RefExact'
  BY DEF IInv, RefExact, Holders
<1>3. RowCovers'
  BY DEF IInv, RowCovers, FullBlocks
<1> QED BY <1>1, <1>2, <1>3 DEF IInv, PoolConsistent

\* Admission: the hit of a request without a table, and what is left.
LEMMA AdmitKeeps ==
  ASSUME IInv, NEW r \in Req, NEW n \in 1 .. MaxLen, Admit(r, n)
  PROVE  IInv'
<1>1. /\ rows[r] = << >> /\ n <= numTokens[r] - HitLen(r) * BlockSize
      /\ AllocateSlots(r, HitBlocks(r), 0, n, Headroom)
  BY DEF Admit, Running
<1>2. numTokens[r] \in 1 .. MaxLen - 1 /\ PoolInv(pool)
  BY DEF IInv, TypeOK, PoolConsistent
<1>3. /\ HitLen(r) \in Nat /\ HitBlocks(r) \in Seq(Blocks)
      /\ Len(HitBlocks(r)) = HitLen(r)
      /\ Distinct(HitBlocks(r)) /\ NullBlock \notin Elements(HitBlocks(r))
  BY <1>2, HitIsRow
<1>4. BlockSize \in Nat \ {0} /\ MaxLen \in Nat \ {0}
  BY CacheAssumption
<1>5. 0 + Len(HitBlocks(r)) * BlockSize + n \in 0 .. MaxLen - 1
  <2>1. HitLen(r) * BlockSize \in Nat
    BY <1>3, <1>4
  <2>2. HitLen(r) * BlockSize + n \in 0 .. MaxLen - 1
    BY <1>1, <1>2, <1>4, <2>1
  <2> QED BY <1>3, <2>1, <2>2
<1>6. Elements(rows[r]) \cap Elements(HitBlocks(r)) = {}
  BY <1>1 DEF Elements
<1>7. n \in Nat /\ 0 \in Nat
  OBVIOUS
<1> QED BY <1>1, <1>3, <1>5, <1>6, <1>7, AllocateSlotsKeeps

\* The running loop: no hit, on top of what is computed.
LEMMA ExtendKeeps ==
  ASSUME IInv, NEW r \in Req, NEW n \in 1 .. MaxLen, Extend(r, n)
  PROVE  IInv'
<1>1. /\ n <= MaxLen - (computed[r] + 1)
      /\ AllocateSlots(r, << >>, computed[r], n, 0)
  BY DEF Extend, LeftToMaxLen
<1>2. computed[r] \in 0 .. MaxLen - 1
  BY DEF IInv, TypeOK
<1>3. BlockSize \in Nat \ {0} /\ MaxLen \in Nat \ {0}
  BY CacheAssumption
<1>4. /\ << >> \in Seq(Blocks) /\ Distinct(<< >>) /\ Elements(<< >>) = {}
      /\ Len(<< >>) = 0
  BY DEF Distinct, Elements
<1>5. computed[r] + Len(<< >>) * BlockSize + n \in 0 .. MaxLen - 1
  <2>1. Len(<< >>) * BlockSize = 0
    BY <1>3, <1>4
  <2> QED BY <1>1, <1>2, <1>3, <2>1
<1>6. n \in Nat /\ computed[r] \in Nat
  BY <1>2, <1>3
<1>7. NullBlock \notin Elements(<< >>) /\ Elements(rows[r]) \cap Elements(<< >>) = {}
  BY <1>4
<1> QED BY <1>1, <1>4, <1>5, <1>6, <1>7, AllocateSlotsKeeps

\* The three ways a table is given back.
LEMMA FreeingKeeps ==
  ASSUME IInv, NEW r \in Req,
         (\E late \in 0 .. Ahead + 1 : Preempt(r, late)) \/ Stop(r) \/ Abort(r)
  PROVE  IInv'
<1>1. PoolInv(pool) /\ numTokens \in [Req -> 1 .. MaxLen - 1]
      /\ numTokens[r] \in 1 .. MaxLen - 1
  BY DEF IInv, TypeOK, PoolConsistent
<1>2. PromptLen[r] \in 1 .. MaxLen - 1 /\ Ahead \in Nat /\ MaxLen \in Nat
  BY CacheAssumption
<1>3. ASSUME NEW late \in 0 .. Ahead + 1, Preempt(r, late)
      PROVE  IInv'
  <2>1. /\ FreeRow(pool, r) /\ numTokens[r] + late < MaxLen
        /\ numTokens' = [numTokens EXCEPT ![r] = @ + late]
    BY <1>3 DEF Preempt
  <2>2. numTokens[r] + late \in 1 .. MaxLen - 1
    BY <1>1, <1>2, <2>1
  <2>3. numTokens' \in [Req -> 1 .. MaxLen - 1]
    BY <1>1, <2>1, <2>2
  <2> QED BY <1>1, <2>1, <2>3, FreeRowKeeps
<1>4. ASSUME Stop(r)
      PROVE  IInv'
  <2>1. /\ InFlight(r) > 0 /\ FreeRow(WithFinalTokens(r), r)
        /\ numTokens' = [numTokens EXCEPT ![r] = PromptLen[r]]
    BY <1>4 DEF Stop
  <2>2. PoolInv(WithFinalTokens(r)) /\ WithFinalTokens(r).ref = pool.ref
    BY <2>1, FinalTokensKeep
  <2>3. numTokens' \in [Req -> 1 .. MaxLen - 1]
    BY <1>1, <1>2, <2>1
  <2> QED BY <2>1, <2>2, <2>3, FreeRowKeeps
<1>5. ASSUME Abort(r)
      PROVE  IInv'
  <2>1. /\ FreeRow(pool, r) /\ numTokens' = [numTokens EXCEPT ![r] = PromptLen[r]]
    BY <1>5 DEF Abort
  <2>2. numTokens' \in [Req -> 1 .. MaxLen - 1]
    BY <1>1, <1>2, <2>1
  <2> QED BY <1>1, <2>1, <2>2, FreeRowKeeps
<1> QED BY <1>3, <1>4, <1>5

------------------------------------------------------------------------------
(***************************************************************************)
(* The invariant and the theorems.                                         *)
(***************************************************************************)

\* The invariant holds when the manager is built.
LEMMA InitHolds == Init => IInv
<1> SUFFICES ASSUME Init
             PROVE  IInv
  OBVIOUS
<1>1. << >> \in Seq(Blocks) /\ Elements(<< >>) = {} /\ Distinct(<< >>)
      /\ Len(<< >>) = 0
  BY DEF Elements, Distinct
<1>2. PoolInv(pool)
  BY NewPoolInv DEF Init
<1>3. 0 \in 0 .. MaxLen - 1 /\ FullBlocks(0) = 0
  BY CacheAssumption DEF FullBlocks
<1>4. TypeOK
  BY <1>1, <1>3, CacheAssumption DEF Init, TypeOK
<1>5. RefExact
  <2>1. \A b \in Blocks : Holders(b) = {}
    BY <1>1 DEF Init, Holders
  <2>2. Cardinality({}) = 0
    BY FS_EmptySet
  <2>3. \A b \in Blocks : pool.ref[b] = 0
    BY DEF Init, NewPool
  <2> QED BY <1>1, <2>1, <2>2, <2>3 DEF Init, RefExact
<1>6. RowCovers
  BY <1>1, <1>3 DEF Init, RowCovers
<1> QED BY <1>2, <1>4, <1>5, <1>6 DEF IInv, PoolConsistent

\* No handler breaks it.
LEMMA Inductive == IInv /\ [Next]_vars => IInv'
<1> SUFFICES ASSUME IInv, [Next]_vars
             PROVE  IInv'
  OBVIOUS
<1>1. CASE UNCHANGED vars
  <2>1. PoolInv(pool') /\ pool'.ref = pool.ref /\ evictions' \in Nat
    BY <1>1 DEF vars, IInv, PoolConsistent, TypeOK
  <2> QED BY <1>1, <2>1, IndexOnlyKeeps DEF vars
<1>2. ASSUME NEW r \in Req, NEW n \in 1 .. MaxLen, Admit(r, n) \/ Extend(r, n)
      PROVE  IInv'
  BY <1>2, AdmitKeeps, ExtendKeeps
<1>3. ASSUME NEW r \in Req, Sampled(r)
      PROVE  IInv'
  BY <1>3, SampledKeeps
<1>4. ASSUME NEW r \in Req,
             (\E late \in 0 .. Ahead + 1 : Preempt(r, late)) \/ Stop(r) \/ Abort(r)
      PROVE  IInv'
  BY <1>4, FreeingKeeps
<1>5. ASSUME NEW S \in SUBSET Blocks, Evict(S)
      PROVE  IInv'
  <2>1. PoolInv(pool') /\ pool'.ref = pool.ref
    BY <1>5, ForgetHashesInv DEF Evict, EvictBlocks, IInv, PoolConsistent
  <2>2. evictions' \in Nat
    BY <1>5 DEF Evict, IInv, TypeOK
  <2> QED BY <1>5, <2>1, <2>2, IndexOnlyKeeps DEF Evict
<1>6. CASE Reset
  <2>1. PoolInv(pool') /\ pool'.ref = pool.ref
    BY <1>6, ResetPrefixCacheInv DEF Reset, IInv, PoolConsistent
  <2>2. evictions' \in Nat
    BY <1>6 DEF Reset, IInv, TypeOK
  <2> QED BY <1>6, <2>1, <2>2, IndexOnlyKeeps DEF Reset
<1> QED BY <1>1, <1>2, <1>3, <1>4, <1>5, <1>6 DEF Next

\* So the invariant holds in every state of every behaviour.
LEMMA Invariance == Spec => []IInv
BY InitHolds, Inductive, PTL DEF Spec

\* The variables of FullAttentionCache keep their types; no request computes
\* the last position of its context.
THEOREM CacheTypeCorrect == Spec => []TypeOK
BY Invariance, PTL DEF IInv

\* block_pool.rs: free queue, counter, reference counts and hash index agree
\* after any sequence of calls the manager makes, for a pool of any size.
THEOREM PoolStaysConsistent == Spec => []PoolConsistent
BY Invariance, PTL DEF IInv

\* A block is referenced once for every table that holds it: none leaks, and
\* none is handed out while a request still reads it.
THEOREM ReferencesAreExact == Spec => []RefExact
BY Invariance, PTL DEF IInv

\* What the admission test subtracts for a hit is what touching it takes off
\* the queue.
LEMMA FitsSuffices ==
  ASSUME PoolInv(pool), NEW r \in Req, rows[r] \in Seq(Blocks),
         NEW hit \in Seq(Blocks), NullBlock \notin Elements(hit),
         NEW target \in Nat, Fits(r, hit, target, 0)
  PROVE  CanGetNewBlocks(Touched(hit), NumNew(r, hit, target))
<1> DEFINE idle == {b \in Elements(hit) : pool.ref[b] = 0}
           new == NumNew(r, hit, target)
<1>1. /\ BlockSize \in Nat \ {0} /\ MaxLen \in Nat \ {0} /\ Lookahead \in Nat
  BY CacheAssumption
<1>2. RequiredBlocks(target) \in Int
  <2>1. Lesser(target + Lookahead, MaxLen) \in Nat
    BY <1>1 DEF Lesser
  <2> QED BY <1>1, <2>1 DEF RequiredBlocks, CeilDiv
<1>3. new \in Int
  <2>1. Len(rows[r]) \in Nat /\ Len(hit) \in Nat
    OBVIOUS
  <2> QED BY <1>2, <2>1 DEF NumNew, Greater
<1>4. Elements(hit) \in SUBSET Blocks /\ Elements(hit) \ {NullBlock} = Elements(hit)
  BY DEF Elements
<1>5. Touched(hit).numFree = pool.numFree - Cardinality(idle)
  <2>1. Touch(pool, Elements(hit)).numFree = pool.numFree
          - Cardinality({b \in Elements(hit) \ {NullBlock} : pool.ref[b] = 0})
    BY <1>4, TouchInv
  <2> QED BY <1>4, <2>1 DEF Touched
<1>6. Cardinality(idle) \in Nat
  <2>1. idle \in SUBSET Blocks
    BY <1>4
  <2> QED BY <2>1, BlockNumbers, FS_Subset, FS_CardinalityType
<1>7. pool.numFree \in Nat
  BY DEF PoolInv, PoolType
<1>8. new + Cardinality(idle) + 0 <= pool.numFree
  BY DEF Fits, BlocksToAllocate
<1> HIDE DEF new, idle
<1>9. new <= pool.numFree - Cardinality(idle)
  BY <1>3, <1>6, <1>7, <1>8
<1> QED BY <1>5, <1>9 DEF CanGetNewBlocks, new

\* get_num_blocks_to_allocate is sound: an allocation it lets through always
\* finds its blocks, whatever the walk hit and whoever shares the hit.
THEOREM AdmissionIsSound == Spec => []AdmissionSound
<1>1. IInv => AdmissionSound
  <2> SUFFICES ASSUME IInv, NEW r \in Req, NEW n \in 1 .. MaxLen
               PROVE  LET hit    == IF Running(r) THEN << >> ELSE HitBlocks(r)
                          target == computed[r] + Len(hit) * BlockSize + n
                      IN  Fits(r, hit, target, 0) =>
                            CanGetNewBlocks(Touched(hit), NumNew(r, hit, target))
    BY DEF AdmissionSound
  <2> DEFINE hit == IF Running(r) THEN << >> ELSE HitBlocks(r)
             target == computed[r] + Len(hit) * BlockSize + n
  <2>1. /\ PoolInv(pool) /\ rows[r] \in Seq(Blocks)
        /\ numTokens[r] \in 1 .. MaxLen - 1 /\ computed[r] \in Nat
    BY DEF IInv, TypeOK, PoolConsistent
  <2>2. << >> \in Seq(Blocks) /\ NullBlock \notin Elements(<< >>)
    BY DEF Elements
  <2>3. hit \in Seq(Blocks) /\ NullBlock \notin Elements(hit)
    BY <2>1, <2>2, HitIsRow
  <2> HIDE DEF hit
  <2>4. target \in Nat
    <3>1. Len(hit) \in Nat /\ BlockSize \in Nat
      BY <2>3, CacheAssumption
    <3>2. Len(hit) * BlockSize \in Nat
      BY <3>1
    <3> QED BY <2>1, <3>2
  <2> HIDE DEF target
  <2>5. Fits(r, hit, target, 0) =>
          CanGetNewBlocks(Touched(hit), NumNew(r, hit, target))
    BY <2>1, <2>3, <2>4, FitsSuffices
  <2> QED BY <2>5 DEF hit, target
<1> QED BY <1>1, Invariance, PTL

------------------------------------------------------------------------------
(***************************************************************************)
(* Content: whatever is found under a hash is the text of that hash, every *)
(* request reads its own text, and nothing that is shared or stays cached  *)
(* is written.                                                             *)
(***************************************************************************)

\* A table has room for every token that counts as computed.
TableCovers == \A r \in Req : computed[r] <= Len(rows[r]) * BlockSize

\* Only computed blocks were published: num_cached_block stays behind.
PublishedIsComputed == \A r \in Req : numCached[r] * BlockSize <= computed[r]

\* In a table only published blocks have a hash, and it is that of their place.
RowHashes ==
  \A r \in Req : \A j \in DOMAIN rows[r] :
    pool.hash[rows[r][j]] # NoKey =>
      j <= numCached[r] /\ pool.hash[rows[r][j]] = BlockHash[r][j]

\* Two tables share published blocks only, so never one still being written.
SharedArePublished ==
  \A q, r \in Req : q # r =>
    \A i \in DOMAIN rows[q] : \A j \in DOMAIN rows[r] :
      rows[q][i] = rows[r][j] => j <= numCached[r]

\* A block holds no more than a block of text.
Filled == \A b \in Blocks : kv[b].filled <= BlockSize

TextInv == /\ TableCovers /\ PublishedIsComputed /\ RowHashes
           /\ SharedArePublished /\ Filled /\ CacheNeverLies /\ RowsHoldTheirText

\* A block holds the tokens up to the t-th of r's text that fall in block j.
HoldsText(block, r, j, t) ==
  /\ block.key = BlockHash[r][j]
  /\ block.filled >= Lesser(t - (j - 1) * BlockSize, BlockSize)

\* A token's block: the full blocks are those that end by it, the blocks of a
\* text those that begin before it ends.
LEMMA BlocksOfTokens ==
  ASSUME NEW t \in Nat, NEW j \in Nat \ {0}
  PROVE  /\ j <= FullBlocks(t) <=> j * BlockSize <= t
         /\ j <= CeilDiv(t, BlockSize) <=> (j - 1) * BlockSize < t
         /\ j * BlockSize \in Nat /\ (j - 1) * BlockSize \in Nat
         /\ j * BlockSize = (j - 1) * BlockSize + BlockSize
<1> DEFINE x == t \div BlockSize
           y == (t + BlockSize - 1) \div BlockSize
<1>1. BlockSize \in Nat \ {0}
  BY CacheAssumption
<1>2. /\ x \in Int /\ y \in Int
      /\ BlockSize * x <= t /\ t < BlockSize * x + BlockSize
      /\ BlockSize * y <= t + BlockSize - 1
      /\ t + BlockSize - 1 < BlockSize * y + BlockSize
  BY <1>1
<1> HIDE DEF x, y
<1>3. /\ j * BlockSize \in Nat /\ (j - 1) * BlockSize \in Nat
      /\ j * BlockSize = (j - 1) * BlockSize + BlockSize
      /\ j * BlockSize = BlockSize * j /\ (j - 1) * BlockSize = BlockSize * (j - 1)
  BY <1>1
<1>4. j <= x <=> j * BlockSize <= t
  <2>1. ASSUME j <= x
        PROVE  BlockSize * j <= BlockSize * x
    BY <1>1, <1>2, <2>1
  <2>2. ASSUME x + 1 <= j
        PROVE  BlockSize * x + BlockSize <= BlockSize * j
    BY <1>1, <1>2, <2>2
  <2>3. BlockSize * x \in Int
    BY <1>1, <1>2
  <2> HIDE DEF x
  <2>4. CASE j <= x
    BY <1>1, <1>2, <1>3, <2>1, <2>3, <2>4
  <2>5. CASE x + 1 <= j
    BY <1>1, <1>2, <1>3, <2>2, <2>3, <2>5
  <2> QED BY <1>2, <2>4, <2>5
<1>5. j <= y <=> (j - 1) * BlockSize < t
  <2>1. ASSUME j <= y
        PROVE  BlockSize * j <= BlockSize * y
    BY <1>1, <1>2, <2>1
  <2>2. ASSUME y <= j - 1
        PROVE  BlockSize * y <= BlockSize * (j - 1)
    BY <1>1, <1>2, <2>2
  <2>3. BlockSize * y \in Int
    BY <1>1, <1>2
  <2>4. CASE j <= y
    BY <1>1, <1>2, <1>3, <2>1, <2>3, <2>4
  <2>5. CASE y <= j - 1
    BY <1>1, <1>2, <1>3, <2>2, <2>3, <2>5
  <2> QED BY <1>2, <2>4, <2>5
<1> QED BY <1>3, <1>4, <1>5 DEF FullBlocks, CeilDiv, x, y

\* Longer tables have room for more.
LEMMA RoomGrows ==
  ASSUME NEW i \in Nat, NEW j \in Nat, i <= j
  PROVE  i * BlockSize \in Nat /\ j * BlockSize \in Nat /\ i * BlockSize <= j * BlockSize
BY CacheAssumption

\* The table that is required has room for the target.
LEMMA RequiredCovers ==
  ASSUME NEW t \in 0 .. MaxLen - 1
  PROVE  t <= RequiredBlocks(t) * BlockSize
<1> DEFINE u == Lesser(t + Lookahead, MaxLen)
           c == CeilDiv(u, BlockSize)
<1>1. /\ BlockSize \in Nat \ {0} /\ MaxLen \in Nat \ {0} /\ Lookahead \in Nat
      /\ t \in Nat /\ t <= MaxLen
  BY CacheAssumption
<1>2. u \in Nat /\ t <= u
  BY <1>1 DEF Lesser
<1> HIDE DEF u
<1>3. c \in Int /\ u + BlockSize - 1 < BlockSize * c + BlockSize
  BY <1>1, <1>2 DEF CeilDiv
<1> HIDE DEF c
<1>4. BlockSize * c = c * BlockSize /\ BlockSize * c \in Int
  BY <1>1, <1>3
<1>5. t <= c * BlockSize
  BY <1>1, <1>2, <1>3, <1>4
<1> QED BY <1>5 DEF RequiredBlocks, c, u

\* The rows that read their text, in terms of places.
LEMMA RowsHold ==
  TypeOK =>
    (RowsHoldTheirText <=>
       \A r \in Req : \A j \in Nat \ {0} :
         (j - 1) * BlockSize < computed[r] => HoldsText(kv[rows[r][j]], r, j, computed[r]))
<1> SUFFICES ASSUME TypeOK
             PROVE  RowsHoldTheirText <=>
                      \A r \in Req : \A j \in Nat \ {0} :
                        (j - 1) * BlockSize < computed[r] =>
                          HoldsText(kv[rows[r][j]], r, j, computed[r])
  OBVIOUS
<1>1. ASSUME NEW r \in Req, NEW j \in Nat \ {0}
      PROVE  j \in 1 .. CeilDiv(computed[r], BlockSize) <=> (j - 1) * BlockSize < computed[r]
  <2>1. computed[r] \in Nat
    BY CacheAssumption DEF TypeOK
  <2>2. CeilDiv(computed[r], BlockSize) \in Int
    BY <2>1, CacheAssumption DEF CeilDiv
  <2>3. j <= CeilDiv(computed[r], BlockSize) <=> (j - 1) * BlockSize < computed[r]
    BY <2>1, BlocksOfTokens
  <2> QED BY <2>2, <2>3
<1>2. ASSUME NEW r \in Req, NEW j \in 1 .. CeilDiv(computed[r], BlockSize)
      PROVE  j \in Nat \ {0}
  BY CacheAssumption DEF TypeOK, CeilDiv
<1> QED BY <1>1, <1>2 DEF RowsHoldTheirText, HoldsText

\* The same after a step.
LEMMA RowsHoldAfter ==
  TypeOK' =>
    (RowsHoldTheirText' <=>
       \A r \in Req : \A j \in Nat \ {0} :
         (j - 1) * BlockSize < computed'[r] => HoldsText(kv'[rows'[r][j]], r, j, computed'[r]))
<1>1. (TypeOK =>
        (RowsHoldTheirText <=>
           \A r \in Req : \A j \in Nat \ {0} :
             (j - 1) * BlockSize < computed[r] => HoldsText(kv[rows[r][j]], r, j, computed[r])))'
  BY RowsHold, PTL
<1> QED BY <1>1 DEF HoldsText

\* A step writes the blocks between its first and its last token, and no other.
LEMMA WriteKVIs ==
  ASSUME TypeOK, NEW r \in Req, NEW row \in Seq(Blocks), Distinct(row),
         NEW from, NEW to, WriteKV(r, row, from, to)
  PROVE  /\ \A j \in DOMAIN row : (j - 1) * BlockSize < to /\ j * BlockSize > from =>
              kv'[row[j]] = Written(row[j], r, j, from, to)
         /\ \A b \in Blocks :
              (\A j \in DOMAIN row : row[j] = b =>
                 ~ ((j - 1) * BlockSize < to /\ j * BlockSize > from))
                => kv'[b] = kv[b]
<1> DEFINE hitBy(b) == {j \in DOMAIN row : /\ row[j] = b
                                           /\ (j - 1) * BlockSize < to
                                           /\ j * BlockSize > from}
<1>1. kv' = [b \in Blocks |-> IF hitBy(b) = {} THEN kv[b]
               ELSE Written(b, r, CHOOSE j \in hitBy(b) : TRUE, from, to)]
  BY DEF WriteKV
<1>2. ASSUME NEW j \in DOMAIN row, (j - 1) * BlockSize < to, j * BlockSize > from
      PROVE  kv'[row[j]] = Written(row[j], r, j, from, to)
  <2>1. hitBy(row[j]) = {j}
    BY <1>2 DEF Distinct
  <2>2. row[j] \in Blocks
    OBVIOUS
  <2> HIDE DEF hitBy
  <2>3. hitBy(row[j]) # {} /\ (CHOOSE k \in hitBy(row[j]) : TRUE) = j
    BY <2>1
  <2> QED BY <1>1, <2>2, <2>3
<1>3. ASSUME NEW b \in Blocks,
             \A j \in DOMAIN row : row[j] = b =>
               ~ ((j - 1) * BlockSize < to /\ j * BlockSize > from)
      PROVE  kv'[b] = kv[b]
  <2>1. hitBy(b) = {}
    BY <1>3
  <2> HIDE DEF hitBy
  <2> QED BY <1>1, <2>1
<1> QED BY <1>2, <1>3

\* What a step of r writes into its block j, if the tokens before it are there.
LEMMA WrittenHolds ==
  ASSUME NEW r \in Req, NEW b, NEW j \in Nat \ {0}, NEW from \in Nat, NEW to \in Nat,
         from <= to, (j - 1) * BlockSize < to, j * BlockSize > from,
         (j - 1) * BlockSize < from => HoldsText(kv[b], r, j, from)
  PROVE  /\ HoldsText(Written(b, r, j, from, to), r, j, to)
         /\ Written(b, r, j, from, to).filled <= BlockSize
<1> DEFINE start == Greater(from - (j - 1) * BlockSize, 0)
           end   == Lesser(to - (j - 1) * BlockSize, BlockSize)
<1>1. /\ BlockSize \in Nat \ {0} /\ (j - 1) * BlockSize \in Nat
      /\ j * BlockSize = (j - 1) * BlockSize + BlockSize
  BY BlocksOfTokens, CacheAssumption
<1>2. start = 0 \/ (kv[b].key = BlockHash[r][j] /\ kv[b].filled >= start)
  <2>1. CASE (j - 1) * BlockSize < from
    <3>1. start = from - (j - 1) * BlockSize
      BY <1>1, <2>1 DEF Greater
    <3>2. Lesser(from - (j - 1) * BlockSize, BlockSize) = from - (j - 1) * BlockSize
      BY <1>1 DEF Lesser
    <3>3. HoldsText(kv[b], r, j, from)
      BY <2>1
    <3> QED BY <3>1, <3>2, <3>3 DEF HoldsText
  <2>2. CASE ~ ((j - 1) * BlockSize < from)
    BY <1>1, <2>2 DEF Greater
  <2> QED BY <2>1, <2>2
<1>3. Written(b, r, j, from, to) = [key |-> BlockHash[r][j], filled |-> end]
  BY <1>2 DEF Written
<1>4. end <= BlockSize /\ end >= end
  BY <1>1 DEF Lesser
<1> QED BY <1>3, <1>4 DEF HoldsText

\* A table that allocate_slots made: the places that were there or were hit,
\* then the blocks just taken, which nobody holds.
Grown(r, row, places, fresh, from, to, already, final) ==
  /\ row \in Seq(Blocks) /\ Distinct(row) /\ NullBlock \notin Elements(row)
  /\ places \in Nat /\ fresh \in SUBSET Blocks
  /\ from \in Nat /\ to \in Nat /\ already \in Nat /\ final \in Nat
  /\ from <= to /\ final <= to /\ to <= Len(row) * BlockSize
  /\ \A j \in DOMAIN row : j > places => row[j] \in fresh
  /\ \A q \in Req : Elements(rows[q]) \cap fresh = {}
  /\ rows' = [rows EXCEPT ![r] = row]
  /\ computed' = [computed EXCEPT ![r] = to]
  /\ numCached' = [numCached EXCEPT ![r] = Published(already, final)]
  /\ WriteKV(r, row, from, to)
  /\ \A i \in already + 1 .. FullBlocks(final) :
       i \in DOMAIN row => pool'.hash[row[i]] = BlockHash[r][i]
  /\ FullBlocks(final) <= Len(row)
  /\ \A b \in Blocks :
       (\A i \in already + 1 .. FullBlocks(final) : row[i] # b) =>
          pool'.hash[b] = IF b \in fresh THEN NoKey ELSE pool.hash[b]

\* The places of such a table that were there or were hit hold r's text up to
\* where the step begins, and what is shared or cached among them is published.
Front(r, row, places, from, already) ==
  /\ already * BlockSize <= from /\ from <= places * BlockSize
  /\ \A j \in DOMAIN row : j <= places =>
       /\ (j - 1) * BlockSize < from => HoldsText(kv[row[j]], r, j, from)
       /\ pool.hash[row[j]] # NoKey =>
            j <= already /\ pool.hash[row[j]] = BlockHash[r][j]
       /\ \A q \in Req \ {r} : \A i \in DOMAIN rows[q] :
            rows[q][i] = row[j] => j <= already /\ i <= numCached[q]

\* What counts as published is in the cache, as long as nothing is evicted.
RowsArePublished ==
  \A r \in Req : \A j \in DOMAIN rows[r] :
    j <= numCached[r] => pool.hash[rows[r][j]] = BlockHash[r][j]

\* The keys of a block of text and of the block that follows it.
TextLinks == {l \in Keys \X Keys : \E r \in Req : \E i \in 2 .. MaxBlocks :
                                     l = <<BlockHash[r][i - 1], BlockHash[r][i]>>}

\* The pool such a table is published in: fresh blocks were taken, those that
\* were there or were hit are in use.
Obtained(taken, row, places, fresh) ==
  /\ PoolInv(taken)
  /\ Ordered(pool, TextLinks) => Ordered(taken, TextLinks)
  /\ pool'.free = taken.free /\ pool'.ref = taken.ref
  /\ \A b \in Blocks : taken.hash[b] = IF b \in fresh THEN NoKey ELSE pool.hash[b]
  /\ \A j \in DOMAIN row : /\ taken.ref[row[j]] > 0
                           /\ row[j] \in fresh => j > places

\* Of the places that were there or were hit the first are in the cache.
HeadPublished(r, row, places, already) ==
  \A j \in DOMAIN row :
    j <= places /\ j <= already => pool.hash[row[j]] = BlockHash[r][j]

\* A step of allocate_slots for r.
Allocated(r, row, places, fresh, taken, from, to, already, final) ==
  /\ Grown(r, row, places, fresh, from, to, already, final)
  /\ Front(r, row, places, from, already)
  /\ Obtained(taken, row, places, fresh)
  /\ evictions = 0 /\ RowsArePublished => HeadPublished(r, row, places, already)

\* The links of the texts relate keys.
LEMMA TextLinksType == TextLinks \in SUBSET (Keys \X Keys)
BY DEF TextLinks

\* A block the step writes is in nobody else's table, and not in the cache.
LEMMA WrittenIsPrivate ==
  ASSUME TypeOK, NEW r \in Req, NEW row, NEW places, NEW fresh, NEW from, NEW to,
         NEW already, NEW final,
         Grown(r, row, places, fresh, from, to, already, final),
         Front(r, row, places, from, already),
         NEW j \in DOMAIN row, j * BlockSize > from
  PROVE  /\ \A q \in Req \ {r} : row[j] \notin Elements(rows[q])
         /\ row[j] \in fresh \/ pool.hash[row[j]] = NoKey
<1>1. /\ row \in Seq(Blocks) /\ places \in Nat /\ already \in Nat /\ from \in Nat
      /\ already * BlockSize <= from /\ j \in Nat /\ j \in Nat \ {0}
  BY DEF Grown, Front
<1>2. ~ (j <= already)
  <2>1. SUFFICES ASSUME j <= already
                 PROVE  FALSE
    OBVIOUS
  <2>2. /\ j * BlockSize <= already * BlockSize
        /\ j * BlockSize \in Nat /\ already * BlockSize \in Nat
    BY <1>1, <2>1, RoomGrows
  <2> QED BY <1>1, <2>2
<1>3. CASE j > places
  BY <1>1, <1>3 DEF Grown
<1>4. CASE j <= places
  <2>1. pool.hash[row[j]] = NoKey
    BY <1>2, <1>4 DEF Front
  <2>2. \A q \in Req \ {r} : \A i \in DOMAIN rows[q] : rows[q][i] # row[j]
    BY <1>2, <1>4 DEF Front
  <2> QED BY <2>1, <2>2 DEF Elements
<1> QED BY <1>1, <1>3, <1>4

\* allocate_slots with the step it schedules: content and sharing stay as they
\* must be, and what is written was private.
LEMMA GrownKeepsText ==
  ASSUME TypeOK, RefExact, TextInv, TypeOK',
         NEW r \in Req, NEW row, NEW places, NEW fresh, NEW from, NEW to,
         NEW already, NEW final,
         Grown(r, row, places, fresh, from, to, already, final),
         Front(r, row, places, from, already)
  PROVE  TextInv' /\ WriteChangesPrivate
<1> DEFINE pub == already + 1 .. FullBlocks(final)
           last == Published(already, final)
<1>1. /\ row \in Seq(Blocks) /\ Distinct(row) /\ NullBlock \notin Elements(row)
      /\ places \in Nat /\ fresh \in SUBSET Blocks
      /\ from \in Nat /\ to \in Nat /\ already \in Nat /\ final \in Nat
      /\ from <= to /\ final <= to /\ to <= Len(row) * BlockSize
      /\ \A q \in Req : Elements(rows[q]) \cap fresh = {}
      /\ FullBlocks(final) <= Len(row)
  BY DEF Grown
<1>2. /\ rows'[r] = row /\ computed'[r] = to /\ numCached'[r] = last
      /\ \A q \in Req \ {r} : /\ rows'[q] = rows[q] /\ computed'[q] = computed[q]
                              /\ numCached'[q] = numCached[q]
  BY DEF Grown, TypeOK
<1>3. /\ DOMAIN row = 1 .. Len(row) /\ Len(row) \in Nat
      /\ \A j \in DOMAIN row : j \in Nat \ {0} /\ row[j] \in Blocks
  BY <1>1
<1>4. /\ FullBlocks(final) \in Int /\ last \in Nat /\ already <= last
      /\ \A i \in pub : i \in DOMAIN row /\ i <= last /\ i > already
  <2>1. FullBlocks(final) \in Int
    BY <1>1, CacheAssumption DEF FullBlocks
  <2> QED BY <1>1, <1>3, <2>1 DEF Published, Greater
<1>5. \A i \in pub : pool'.hash[row[i]] = BlockHash[r][i]
  BY <1>4 DEF Grown
<1>6. ASSUME NEW b \in Blocks, \A i \in pub : row[i] # b
      PROVE  pool'.hash[b] = IF b \in fresh THEN NoKey ELSE pool.hash[b]
  BY <1>6 DEF Grown
<1> HIDE DEF pub, last
<1>7. /\ already * BlockSize <= from /\ from <= places * BlockSize
      /\ already * BlockSize \in Nat /\ places * BlockSize \in Nat
      /\ BlockSize \in Nat \ {0}
  <2>1. already * BlockSize \in Nat /\ places * BlockSize \in Nat
    BY <1>1, RoomGrows
  <2> QED BY <2>1, CacheAssumption DEF Front
\* Places of the front.
<1>8. ASSUME NEW j \in DOMAIN row, j <= places
      PROVE  /\ (j - 1) * BlockSize < from => HoldsText(kv[row[j]], r, j, from)
             /\ pool.hash[row[j]] # NoKey =>
                  j <= already /\ pool.hash[row[j]] = BlockHash[r][j]
             /\ \A q \in Req \ {r} : \A i \in DOMAIN rows[q] :
                  rows[q][i] = row[j] => j <= already /\ i <= numCached[q]
  BY <1>8 DEF Front
<1>9. ASSUME NEW j \in DOMAIN row, j > places
      PROVE  row[j] \in fresh
  BY <1>9 DEF Grown
<1>10. ASSUME NEW q \in Req \ {r}, NEW i \in DOMAIN rows[q], NEW j \in DOMAIN row,
              rows[q][i] = row[j]
       PROVE  j <= places /\ j <= already /\ i <= numCached[q]
  <2>1. row[j] \notin fresh
    BY <1>1, <1>10 DEF Elements
  <2>2. j <= places
    BY <1>1, <1>3, <1>9, <2>1
  <2> QED BY <1>8, <1>10, <2>2
\* What is written.
<1>11. /\ \A j \in DOMAIN row : (j - 1) * BlockSize < to /\ j * BlockSize > from =>
            kv'[row[j]] = Written(row[j], r, j, from, to)
       /\ \A b \in Blocks :
            (\A j \in DOMAIN row : row[j] = b =>
               ~ ((j - 1) * BlockSize < to /\ j * BlockSize > from))
              => kv'[b] = kv[b]
  <2>1. WriteKV(r, row, from, to)
    BY DEF Grown
  <2> QED BY <1>1, <2>1, WriteKVIs
<1>12. ASSUME NEW j \in DOMAIN row, j * BlockSize > from
       PROVE  /\ \A q \in Req \ {r} : row[j] \notin Elements(rows[q])
              /\ row[j] \in fresh \/ pool.hash[row[j]] = NoKey
  BY <1>12, WrittenIsPrivate
<1>13. ASSUME NEW b \in Blocks, kv'[b] # kv[b]
       PROVE  \E j \in DOMAIN row : /\ row[j] = b /\ j * BlockSize > from
                                    /\ (j - 1) * BlockSize < to
  BY <1>11, <1>13
<1>14. ASSUME NEW j \in DOMAIN row, (j - 1) * BlockSize < to
       PROVE  HoldsText(kv'[row[j]], r, j, to)
  <2>1. /\ (j - 1) * BlockSize \in Nat /\ j * BlockSize \in Nat
        /\ j * BlockSize = (j - 1) * BlockSize + BlockSize
    BY <1>1, <1>3, BlocksOfTokens
  <2>2. ASSUME (j - 1) * BlockSize < from
        PROVE  HoldsText(kv[row[j]], r, j, from)
    <3>1. j <= places
      <4>1. SUFFICES ASSUME places <= j - 1
                     PROVE  FALSE
        BY <1>1, <1>3
      <4>2. j - 1 \in Nat
        BY <1>3
      <4>3. places * BlockSize <= (j - 1) * BlockSize
        BY <1>1, <4>1, <4>2, RoomGrows
      <4> QED BY <1>1, <1>7, <2>1, <2>2, <4>3
    <3> QED BY <1>8, <2>2, <3>1
  <2>3. CASE j * BlockSize > from
    <3>1. kv'[row[j]] = Written(row[j], r, j, from, to)
      BY <1>11, <1>14, <2>3
    <3>2. HoldsText(Written(row[j], r, j, from, to), r, j, to)
      BY <1>1, <1>3, <1>14, <2>2, <2>3, WrittenHolds
    <3> QED BY <3>1, <3>2
  <2>4. CASE ~ (j * BlockSize > from)
    <3>1. kv'[row[j]] = kv[row[j]]
      <4>1. \A k \in DOMAIN row : row[k] = row[j] => k = j
        BY <1>1 DEF Distinct
      <4> QED BY <1>3, <1>11, <2>4, <4>1
    <3>2. (j - 1) * BlockSize < from
      BY <1>1, <1>7, <2>1, <2>4
    <3>3. Lesser(from - (j - 1) * BlockSize, BlockSize) = BlockSize
      BY <1>1, <1>7, <2>1, <2>4 DEF Lesser
    <3>4. Lesser(to - (j - 1) * BlockSize, BlockSize) = BlockSize
      BY <1>1, <1>7, <2>1, <2>4 DEF Lesser
    <3> QED BY <2>2, <3>1, <3>2, <3>3, <3>4 DEF HoldsText
  <2> QED BY <2>3, <2>4
<1>15. TableCovers'
  <2>1. \A q \in Req \ {r} : computed'[q] <= Len(rows'[q]) * BlockSize
    BY <1>2 DEF TextInv, TableCovers
  <2> QED BY <1>1, <1>2, <2>1 DEF TableCovers
<1>16. PublishedIsComputed'
  <2>1. last * BlockSize <= to
    <3>1. CASE last = already
      BY <1>1, <1>7, <3>1
    <3>2. CASE last # already
      <4>1. last = FullBlocks(final) /\ last \in Nat \ {0}
        BY <1>1, <1>4, <3>2 DEF last, Published, Greater
      <4>2. last <= FullBlocks(final)
        BY <1>4, <4>1
      <4>3. last * BlockSize <= final /\ last * BlockSize \in Nat
        BY <1>1, <4>1, <4>2, BlocksOfTokens
      <4> QED BY <1>1, <4>3
    <3> QED BY <3>1, <3>2
  <2>2. \A q \in Req \ {r} : numCached'[q] * BlockSize <= computed'[q]
    BY <1>2 DEF TextInv, PublishedIsComputed
  <2> QED BY <1>2, <2>1, <2>2 DEF PublishedIsComputed
<1>17. RowHashes'
  <2>1. ASSUME NEW j \in DOMAIN row, pool'.hash[row[j]] # NoKey
        PROVE  j <= last /\ pool'.hash[row[j]] = BlockHash[r][j]
    <3>1. CASE j \in pub
      BY <1>4, <1>5, <3>1
    <3>2. CASE j \notin pub
      <4>1. \A i \in pub : row[i] # row[j]
        BY <1>1, <1>4, <3>2 DEF Distinct
      <4>2. pool'.hash[row[j]] = pool.hash[row[j]] /\ row[j] \notin fresh
        BY <1>3, <1>6, <2>1, <4>1
      <4>3. j <= places
        BY <1>1, <1>3, <1>9, <4>2
      <4> QED BY <1>1, <1>3, <1>4, <1>8, <2>1, <4>2, <4>3
    <3> QED BY <3>1, <3>2
  <2>2. ASSUME NEW q \in Req \ {r}, NEW i \in DOMAIN rows[q]
        PROVE  pool'.hash[rows[q][i]] = pool.hash[rows[q][i]]
    <3>1. \A k \in pub : row[k] # rows[q][i]
      <4>1. SUFFICES ASSUME NEW k \in pub, row[k] = rows[q][i]
                     PROVE  FALSE
        OBVIOUS
      <4>2. k \in DOMAIN row /\ k > already /\ k \in Nat
        BY <1>3, <1>4
      <4> QED BY <1>1, <1>10, <4>1, <4>2
    <3>2. rows[q][i] \in Blocks /\ rows[q][i] \notin fresh
      <4>1. rows[q] \in Seq(Blocks)
        BY DEF TypeOK
      <4> QED BY <1>1, <4>1 DEF Elements
    <3> QED BY <1>6, <3>1, <3>2
  <2>3. \A q \in Req \ {r} : \A j \in DOMAIN rows'[q] :
          pool'.hash[rows'[q][j]] # NoKey =>
            j <= numCached'[q] /\ pool'.hash[rows'[q][j]] = BlockHash[q][j]
    BY <1>2, <2>2 DEF TextInv, RowHashes
  <2> QED BY <1>2, <2>1, <2>3 DEF RowHashes
<1>18. SharedArePublished'
  <2>1. ASSUME NEW q \in Req \ {r}, NEW i \in DOMAIN rows[q], NEW j \in DOMAIN row,
               rows[q][i] = row[j]
        PROVE  j <= last /\ i <= numCached[q]
    BY <1>1, <1>3, <1>4, <1>10, <2>1
  <2>2. ASSUME NEW p \in Req \ {r}, NEW q \in Req \ {r}, p # q,
               NEW i \in DOMAIN rows[p], NEW j \in DOMAIN rows[q], rows[p][i] = rows[q][j]
        PROVE  j <= numCached[q]
    BY <2>2 DEF TextInv, SharedArePublished
  <2>3. SUFFICES ASSUME NEW p \in Req, NEW q \in Req, p # q,
                        NEW i \in DOMAIN rows'[p], NEW j \in DOMAIN rows'[q],
                        rows'[p][i] = rows'[q][j]
                 PROVE  j <= numCached'[q]
    BY DEF SharedArePublished
  <2>4. CASE p = r
    BY <1>2, <2>1, <2>3, <2>4
  <2>5. CASE q = r
    BY <1>2, <2>1, <2>3, <2>5
  <2>6. CASE p # r /\ q # r
    BY <1>2, <2>2, <2>3, <2>6
  <2> QED BY <2>4, <2>5, <2>6
<1>19. Filled'
  <2>1. SUFFICES ASSUME NEW b \in Blocks
                 PROVE  kv'[b].filled <= BlockSize
    BY DEF Filled
  <2>2. CASE kv'[b] = kv[b]
    BY <2>2 DEF TextInv, Filled
  <2>3. CASE kv'[b] # kv[b]
    <3>1. PICK j \in DOMAIN row : /\ row[j] = b /\ j * BlockSize > from
                                  /\ (j - 1) * BlockSize < to
      BY <1>13, <2>3
    <3>2. kv'[b] = Written(b, r, j, from, to)
      BY <1>11, <3>1
    <3>3. Lesser(to - (j - 1) * BlockSize, BlockSize) <= BlockSize /\ 0 <= BlockSize
      <4>1. (j - 1) * BlockSize \in Nat
        BY <1>1, <1>3, BlocksOfTokens
      <4> QED BY <1>1, <1>7, <4>1 DEF Lesser
    <3> QED BY <3>2, <3>3 DEF Written
  <2> QED BY <2>2, <2>3
<1>20. RowsHoldTheirText'
  <2>1. ASSUME NEW j \in Nat \ {0}, (j - 1) * BlockSize < to
        PROVE  HoldsText(kv'[row[j]], r, j, to)
    <3>1. j \in DOMAIN row
      <4>1. SUFFICES ASSUME Len(row) <= j - 1
                     PROVE  FALSE
        BY <1>3
      <4>2. /\ Len(row) * BlockSize <= (j - 1) * BlockSize
            /\ Len(row) * BlockSize \in Nat /\ (j - 1) * BlockSize \in Nat
        <5>1. j - 1 \in Nat
          OBVIOUS
        <5> QED BY <1>3, <4>1, <5>1, RoomGrows
      <4> QED BY <1>1, <2>1, <4>2
    <3> QED BY <1>14, <2>1, <3>1
  <2>2. ASSUME NEW q \in Req \ {r}, NEW i \in Nat \ {0}, (i - 1) * BlockSize < computed[q]
        PROVE  HoldsText(kv'[rows[q][i]], q, i, computed[q])
    <3>1. HoldsText(kv[rows[q][i]], q, i, computed[q])
      BY <2>2, RowsHold DEF TextInv
    <3>2. i \in DOMAIN rows[q]
      <4>1. rows[q] \in Seq(Blocks) /\ computed[q] \in Nat
            /\ computed[q] <= Len(rows[q]) * BlockSize
        BY CacheAssumption DEF TypeOK, TextInv, TableCovers
      <4>2. SUFFICES ASSUME Len(rows[q]) <= i - 1
                     PROVE  FALSE
        BY <4>1
      <4>3. /\ Len(rows[q]) * BlockSize <= (i - 1) * BlockSize
            /\ Len(rows[q]) * BlockSize \in Nat /\ (i - 1) * BlockSize \in Nat
        <5>1. i - 1 \in Nat /\ Len(rows[q]) \in Nat
          BY <4>1
        <5> QED BY <4>2, <5>1, RoomGrows
      <4> QED BY <2>2, <4>1, <4>3
    <3>3. rows[q][i] \in Blocks
      <4>1. rows[q] \in Seq(Blocks)
        BY DEF TypeOK
      <4> QED BY <3>2, <4>1
    <3>4. kv'[rows[q][i]] = kv[rows[q][i]]
      <4>1. SUFFICES ASSUME kv'[rows[q][i]] # kv[rows[q][i]]
                     PROVE  FALSE
        OBVIOUS
      <4>2. PICK j \in DOMAIN row : row[j] = rows[q][i] /\ j * BlockSize > from
        BY <1>13, <3>3, <4>1
      <4> QED BY <1>12, <3>2, <4>2 DEF Elements
    <3> QED BY <3>1, <3>4
  <2>3. \A q \in Req : \A j \in Nat \ {0} :
          (j - 1) * BlockSize < computed'[q] => HoldsText(kv'[rows'[q][j]], q, j, computed'[q])
    BY <1>2, <2>1, <2>2
  <2>4. RowsHoldTheirText' <=>
          \A q \in Req : \A j \in Nat \ {0} :
            (j - 1) * BlockSize < computed'[q] => HoldsText(kv'[rows'[q][j]], q, j, computed'[q])
    BY RowsHoldAfter
  <2> QED BY <2>3, <2>4
<1>21. CacheNeverLies'
  <2>1. SUFFICES ASSUME NEW b \in Blocks, pool'.hash[b] # NoKey
                 PROVE  kv'[b] = [key |-> pool'.hash[b], filled |-> BlockSize]
    BY DEF CacheNeverLies
  <2>2. CASE \E i \in pub : row[i] = b
    <3>1. PICK i \in pub : row[i] = b
      BY <2>2
    <3>2. /\ i \in DOMAIN row /\ i \in Nat \ {0} /\ i <= FullBlocks(final)
          /\ pool'.hash[b] = BlockHash[r][i]
      BY <1>3, <1>4, <1>5, <3>1 DEF pub
    <3>3. /\ i * BlockSize <= final /\ (i - 1) * BlockSize \in Nat
          /\ i * BlockSize = (i - 1) * BlockSize + BlockSize
      BY <1>1, <3>2, BlocksOfTokens
    <3>4. (i - 1) * BlockSize < to
          /\ Lesser(to - (i - 1) * BlockSize, BlockSize) = BlockSize
      BY <1>1, <1>7, <3>3 DEF Lesser
    <3>5. kv'[b].key = BlockHash[r][i] /\ kv'[b].filled >= BlockSize
      BY <1>14, <3>1, <3>2, <3>4 DEF HoldsText
    <3>6. kv'[b].filled <= BlockSize /\ kv'[b] \in [key : Keys \cup {NoKey}, filled : Nat]
      BY <1>19 DEF Filled, TypeOK
    <3>7. kv'[b].filled = BlockSize
      BY <1>7, <3>5, <3>6
    <3> QED BY <3>2, <3>5, <3>6, <3>7
  <2>3. CASE ~ \E i \in pub : row[i] = b
    <3>1. pool'.hash[b] = pool.hash[b] /\ b \notin fresh
      BY <1>6, <2>1, <2>3
    <3>2. kv'[b] = kv[b]
      <4>1. SUFFICES ASSUME kv'[b] # kv[b]
                     PROVE  FALSE
        OBVIOUS
      <4>2. PICK j \in DOMAIN row : row[j] = b /\ j * BlockSize > from
        BY <1>13, <4>1
      <4> QED BY <1>12, <2>1, <3>1, <4>2
    <3> QED BY <2>1, <3>1, <3>2 DEF TextInv, CacheNeverLies
  <2> QED BY <2>2, <2>3
<1>22. WriteChangesPrivate
  <2>1. SUFFICES ASSUME NEW b \in Blocks, kv'[b] # kv[b]
                 PROVE  /\ \A p, q \in Req :
                             b \in Elements(rows'[p]) /\ b \in Elements(rows'[q]) => p = q
                        /\ pool.hash[b] # pool'.hash[b] \/ pool.hash[b] = NoKey
    BY DEF WriteChangesPrivate
  <2>2. PICK j \in DOMAIN row : row[j] = b /\ j * BlockSize > from
    BY <1>13, <2>1
  <2>3. \A q \in Req \ {r} : b \notin Elements(rows'[q])
    BY <1>2, <1>12, <2>2
  <2>4. ASSUME pool.hash[b] = pool'.hash[b], pool.hash[b] # NoKey
        PROVE  FALSE
    BY <1>21, <2>1, <2>4 DEF TextInv, CacheNeverLies
  <2> QED BY <2>3, <2>4
<1> QED BY <1>15, <1>16, <1>17, <1>18, <1>19, <1>20, <1>21, <1>22 DEF TextInv

\* The table allocate_slots makes.
LEMMA AllocateSlotsGrows ==
  ASSUME IInv, NEW r \in Req,
         NEW hit \in Seq(Blocks), Distinct(hit), NullBlock \notin Elements(hit),
         Elements(rows[r]) \cap Elements(hit) = {},
         NEW base \in Nat, NEW n \in Nat, NEW headroom,
         base + Len(hit) * BlockSize + n \in 0 .. MaxLen - 1,
         AllocateSlots(r, hit, base, n, headroom)
  PROVE  \E row, fresh, taken :
           /\ Obtained(taken, row, Len(rows[r]) + Len(hit), fresh)
           /\ Grown(r, row, Len(rows[r]) + Len(hit), fresh,
                    base + Len(hit) * BlockSize, base + Len(hit) * BlockSize + n,
                    numCached[r] + Len(hit),
                    Lesser(base + Len(hit) * BlockSize + n, numTokens[r]))
           /\ \A j \in DOMAIN row :
                /\ j <= Len(rows[r]) => row[j] = rows[r][j]
                /\ Len(rows[r]) < j /\ j <= Len(rows[r]) + Len(hit) =>
                     row[j] = hit[j - Len(rows[r])]
<1> DEFINE from    == base + Len(hit) * BlockSize
           target  == from + n
           count   == NumNew(r, hit, target)
           new     == NewBlocks(Touched(hit), count)
           taken   == GetNewBlocks(Touched(hit), count)
           front   == rows[r] \o hit
           row     == front \o new
           already == numCached[r] + Len(hit)
           final   == Lesser(target, numTokens[r])
           places  == Len(rows[r]) + Len(hit)
<1>1. /\ CanGetNewBlocks(Touched(hit), count)
      /\ rows' = [rows EXCEPT ![r] = row]
      /\ computed' = [computed EXCEPT ![r] = target]
      /\ numCached' = [numCached EXCEPT ![r] = Published(already, final)]
      /\ pool' = Publish(taken, r, row, already, final)
      /\ WriteKV(r, row, from, target)
  BY DEF AllocateSlots
<1>2. /\ rows[r] \in Seq(Blocks) /\ numCached[r] \in Nat
      /\ numTokens[r] \in 1 .. MaxLen - 1
      /\ Distinct(rows[r]) /\ NullBlock \notin Elements(rows[r])
      /\ PoolInv(pool) /\ RefExact /\ TypeOK
  BY DEF IInv, TypeOK, RefExact, PoolConsistent
<1>3. /\ BlockSize \in Nat \ {0} /\ MaxLen \in Nat \ {0}
      /\ Len(hit) \in Nat /\ Len(rows[r]) \in Nat
  BY <1>2, CacheAssumption
<1>4. from \in Nat /\ target \in 0 .. MaxLen - 1 /\ from <= target
  <2>1. Len(hit) * BlockSize \in Nat
    BY <1>3
  <2> QED BY <2>1
<1> HIDE DEF from, target
<1>5. /\ RequiredBlocks(target) \in Nat /\ FullBlocks(target) <= RequiredBlocks(target)
      /\ target <= RequiredBlocks(target) * BlockSize
  BY <1>4, BlockCounts, RequiredCovers
<1>6. /\ count \in Nat
      /\ count >= RequiredBlocks(target) - Len(rows[r]) - Len(hit)
  BY <1>3, <1>5, SMTT(30) DEF NumNew, Greater
<1> HIDE DEF count
<1>7. /\ PoolInv(taken) /\ new \in Seq(Blocks) /\ Distinct(new) /\ Len(new) = count
      /\ NullBlock \notin Elements(new)
      /\ Elements(new) \cap Elements(hit) = {}
      /\ Elements(new) \cap Elements(rows[r]) = {}
      /\ \A b \in Blocks : taken.ref[b] =
           IF b \in Elements(hit) \cup Elements(new)
           THEN pool.ref[b] + 1 ELSE pool.ref[b]
      /\ \A b \in Blocks : taken.hash[b] =
           IF b \in Elements(new) THEN NoKey ELSE pool.hash[b]
  BY <1>1, <1>2, <1>6, TakenIsFresh
<1>8. \A q \in Req : Elements(rows[q]) \cap Elements(new) = {}
  BY <1>1, <1>2, <1>6, TakenIsFresh
<1>9. Ordered(pool, TextLinks) => Ordered(taken, TextLinks)
  BY <1>1, <1>2, <1>6, TextLinksType, TakenKeepsOrder
<1> HIDE DEF new, taken
<1>10. /\ front \in Seq(Blocks) /\ Distinct(front)
      /\ Elements(front) = Elements(rows[r]) \cup Elements(hit)
      /\ Len(front) = places
  <2>1. rows[r] \in Seq(Blocks) /\ hit \in Seq(Blocks)
        /\ Distinct(rows[r]) /\ Distinct(hit)
    BY <1>2
  <2> QED BY <2>1, ConcatElements
<1>11. /\ \A j \in 1 .. Len(rows[r]) : front[j] = rows[r][j]
       /\ \A j \in Len(rows[r]) + 1 .. places : front[j] = hit[j - Len(rows[r])]
  BY <1>2, <1>3
<1> HIDE DEF front
<1>12. /\ row \in Seq(Blocks) /\ Distinct(row)
       /\ Elements(row) = Elements(front) \cup Elements(new)
       /\ Len(row) = Len(front) + Len(new)
  <2>1. Elements(front) \cap Elements(new) = {}
    BY <1>7, <1>10
  <2>2. new \in Seq(Blocks) /\ Distinct(new)
    BY <1>7
  <2>3. front \in Seq(Blocks) /\ Distinct(front)
    BY <1>10
  <2> QED BY <2>1, <2>2, <2>3, ConcatElements
<1>13. /\ \A j \in 1 .. Len(front) : row[j] = front[j]
       /\ \A j \in Len(front) + 1 .. Len(front) + Len(new) : row[j] = new[j - Len(front)]
  <2>1. new \in Seq(Blocks) /\ front \in Seq(Blocks)
    BY <1>7, <1>10
  <2> QED BY <2>1
<1> HIDE DEF row
<1>14. Len(row) = places + count /\ Len(row) \in Nat /\ places \in Nat
  BY <1>3, <1>6, <1>7, <1>10, <1>12
<1>15. target <= Len(row) * BlockSize /\ FullBlocks(target) <= Len(row)
  <2>1. RequiredBlocks(target) <= Len(row)
    BY <1>3, <1>5, <1>6, <1>14
  <2>2. /\ RequiredBlocks(target) * BlockSize <= Len(row) * BlockSize
        /\ RequiredBlocks(target) * BlockSize \in Nat /\ Len(row) * BlockSize \in Nat
    BY <1>5, <1>14, <2>1, RoomGrows
  <2>3. FullBlocks(target) \in Nat
    BY <1>4, BlockCounts
  <2>4. target \in Nat
    BY <1>4
  <2>5. target <= Len(row) * BlockSize
    BY <1>5, <2>2, <2>4
  <2> QED BY <1>5, <1>14, <2>1, <2>3, <2>5
<1>16. final \in 0 .. MaxLen - 1 /\ final <= target /\ target \in Nat
  BY <1>2, <1>3, <1>4 DEF Lesser
<1> HIDE DEF final
<1>17. FullBlocks(final) \in Nat /\ FullBlocks(final) <= FullBlocks(target)
       /\ FullBlocks(target) \in Nat
  <2>1. final \in Nat /\ target \in Nat /\ final <= target
    BY <1>16
  <2>2. FullBlocks(final) \in Nat /\ FullBlocks(final) <= FullBlocks(target)
    BY <1>3, <2>1, DivMono DEF FullBlocks
  <2>3. FullBlocks(target) \in Nat
    BY <1>4, BlockCounts
  <2> QED BY <2>2, <2>3
<1>18. already \in Nat /\ FullBlocks(final) <= Len(row)
  <2>1. already \in Nat
    BY <1>2, <1>3
  <2> HIDE DEF already, places
  <2> QED BY <1>14, <1>15, <1>17, <2>1
<1> HIDE DEF already
<1>19. NullBlock \notin Elements(row)
  BY <1>2, <1>7, <1>10, <1>12
<1>20. /\ \A i \in already + 1 .. FullBlocks(final) : row[i] # NullBlock =>
            pool'.hash[row[i]] = BlockHash[r][i]
       /\ \A b \in Blocks : (\A i \in already + 1 .. FullBlocks(final) : row[i] # b) =>
            pool'.hash[b] = taken.hash[b]
       /\ pool'.free = taken.free /\ pool'.ref = taken.ref
  <2>1. /\ PoolInv(taken) /\ row \in Seq(Blocks) /\ Distinct(row) /\ already \in Nat
        /\ final \in 0 .. MaxLen - 1 /\ FullBlocks(final) <= Len(row)
    BY <1>7, <1>12, <1>16, <1>18
  <2>2. /\ \A i \in already + 1 .. FullBlocks(final) : row[i] # NullBlock =>
              Publish(taken, r, row, already, final).hash[row[i]] = BlockHash[r][i]
        /\ \A b \in Blocks : (\A i \in already + 1 .. FullBlocks(final) : row[i] # b) =>
              Publish(taken, r, row, already, final).hash[b] = taken.hash[b]
        /\ Publish(taken, r, row, already, final).free = taken.free
        /\ Publish(taken, r, row, already, final).ref = taken.ref
    BY <2>1, PublishInv
  <2> QED BY <1>1, <2>2
<1>21. \A i \in already + 1 .. FullBlocks(final) :
         i \in DOMAIN row => pool'.hash[row[i]] = BlockHash[r][i]
  BY <1>19, <1>20 DEF Elements
<1>22. \A b \in Blocks :
         (\A i \in already + 1 .. FullBlocks(final) : row[i] # b) =>
            pool'.hash[b] = IF b \in Elements(new) THEN NoKey ELSE pool.hash[b]
  BY <1>7, <1>20
<1>23. \A j \in DOMAIN row : j > places => row[j] \in Elements(new)
  <2>1. SUFFICES ASSUME NEW j \in DOMAIN row, j > places
                 PROVE  row[j] \in Elements(new)
    OBVIOUS
  <2>2. j \in 1 .. Len(row) /\ Len(row) = Len(front) + Len(new) /\ Len(front) = places
    BY <1>10, <1>12
  <2>3. j - Len(front) \in 1 .. Len(new) /\ row[j] = new[j - Len(front)]
    <3>1. Len(front) \in Nat /\ Len(new) \in Nat
      BY <1>6, <1>7, <1>10, <1>14
    <3>2. j > Len(front)
      BY <1>10, <2>1
    <3>3. j \in Len(front) + 1 .. Len(front) + Len(new)
      BY <2>2, <3>1, <3>2
    <3> QED BY <1>13, <3>1, <3>3
  <2> QED BY <1>7, <2>3 DEF Elements
<1>24. Elements(new) \in SUBSET Blocks
  BY <1>7 DEF Elements
<1>25. Grown(r, row, places, Elements(new), from, target, already, final)
  <2>1. /\ row \in Seq(Blocks) /\ Distinct(row) /\ NullBlock \notin Elements(row)
        /\ places \in Nat /\ Elements(new) \in SUBSET Blocks
    BY <1>12, <1>14, <1>19, <1>24
  <2>2. /\ from \in Nat /\ target \in Nat /\ already \in Nat /\ final \in Nat
        /\ from <= target /\ final <= target /\ target <= Len(row) * BlockSize
    BY <1>4, <1>15, <1>16, <1>18
  <2> HIDE DEF places
  <2> QED BY <1>1, <1>8, <1>18, <1>21, <1>22, <1>23, <2>1, <2>2 DEF Grown
<1>26. \A j \in DOMAIN row :
         /\ j <= Len(rows[r]) => row[j] = rows[r][j]
         /\ Len(rows[r]) < j /\ j <= places => row[j] = hit[j - Len(rows[r])]
  <2>1. SUFFICES ASSUME NEW j \in DOMAIN row
                 PROVE  /\ j <= Len(rows[r]) => row[j] = rows[r][j]
                        /\ Len(rows[r]) < j /\ j <= places =>
                             row[j] = hit[j - Len(rows[r])]
    OBVIOUS
  <2>2. j \in 1 .. Len(row)
    BY <1>12
  <2>3. ASSUME j <= places
        PROVE  row[j] = front[j]
    BY <1>10, <1>13, <1>14, <2>2, <2>3
  <2>4. ASSUME j <= Len(rows[r])
        PROVE  row[j] = rows[r][j]
    <3>1. j <= places /\ j \in 1 .. Len(rows[r])
      BY <1>3, <2>2, <2>4
    <3> QED BY <1>11, <2>3, <3>1
  <2>5. ASSUME Len(rows[r]) < j, j <= places
        PROVE  row[j] = hit[j - Len(rows[r])]
    <3>1. j \in Len(rows[r]) + 1 .. places
      BY <1>3, <1>14, <2>2, <2>5
    <3> QED BY <1>11, <2>3, <2>5, <3>1
  <2> QED BY <2>4, <2>5
<1>27. ASSUME NEW j \in DOMAIN row
       PROVE  /\ taken.ref[row[j]] > 0
              /\ row[j] \in Elements(new) => j > places
  <2>1. row[j] \in Elements(row) /\ j \in 1 .. Len(row) /\ row[j] \in Blocks
    BY <1>12 DEF Elements
  <2>2. pool.ref[row[j]] \in Nat
    BY <1>2, <2>1 DEF PoolInv, PoolType
  <2>3. row[j] \in Elements(rows[r]) => pool.ref[row[j]] >= 1
    BY <1>2, <2>1, <2>2, HeldIsReferenced
  <2>4. taken.ref[row[j]] > 0
    <3>1. \/ row[j] \in Elements(rows[r])
          \/ row[j] \in Elements(hit) \cup Elements(new)
      BY <1>10, <1>12, <2>1
    <3>2. taken.ref[row[j]] = IF row[j] \in Elements(hit) \cup Elements(new)
                              THEN pool.ref[row[j]] + 1 ELSE pool.ref[row[j]]
      BY <1>7, <2>1
    <3> QED BY <2>2, <2>3, <3>1, <3>2
  <2>5. ASSUME j <= places
        PROVE  row[j] \notin Elements(new)
    <3>1. row[j] = front[j] /\ j \in DOMAIN front
      BY <1>10, <1>13, <1>14, <2>1, <2>5
    <3>2. row[j] \in Elements(front)
      BY <3>1 DEF Elements
    <3> QED BY <1>7, <1>10, <3>2
  <2> QED BY <1>14, <2>1, <2>4, <2>5
<1>28. Obtained(taken, row, places, Elements(new))
  BY <1>7, <1>20, <1>9, <1>27 DEF Obtained
<1>29. \E t, fresh, obtained :
         /\ Obtained(obtained, t, places, fresh)
         /\ Grown(r, t, places, fresh, from, target, already, final)
         /\ \A j \in DOMAIN t :
              /\ j <= Len(rows[r]) => t[j] = rows[r][j]
              /\ Len(rows[r]) < j /\ j <= places => t[j] = hit[j - Len(rows[r])]
  BY <1>25, <1>26, <1>28
<1> QED BY <1>29 DEF from, target, already, final

\* In the running loop the front is the table, up to what is computed.
LEMMA ExtendFront ==
  ASSUME IInv, TextInv, NEW r \in Req, NEW row,
         \A j \in DOMAIN row : j <= Len(rows[r]) => row[j] = rows[r][j],
         NEW m, row \in Seq(Blocks), m = Len(rows[r])
  PROVE  Front(r, row, m, computed[r], numCached[r])
<1>1. /\ rows[r] \in Seq(Blocks) /\ computed[r] \in Nat /\ numCached[r] \in Nat /\ TypeOK
  BY CacheAssumption DEF IInv, TypeOK
<1>2. numCached[r] * BlockSize <= computed[r] /\ computed[r] <= m * BlockSize
  BY DEF TextInv, PublishedIsComputed, TableCovers
<1>3. ASSUME NEW j \in DOMAIN row, j <= m
      PROVE  /\ (j - 1) * BlockSize < computed[r] => HoldsText(kv[row[j]], r, j, computed[r])
             /\ pool.hash[row[j]] # NoKey =>
                  j <= numCached[r] /\ pool.hash[row[j]] = BlockHash[r][j]
             /\ \A q \in Req \ {r} : \A i \in DOMAIN rows[q] :
                  rows[q][i] = row[j] => j <= numCached[r] /\ i <= numCached[q]
  <2>1. j \in Nat \ {0} /\ j \in DOMAIN rows[r] /\ row[j] = rows[r][j]
    BY <1>1, <1>3
  <2>2. (j - 1) * BlockSize < computed[r] => HoldsText(kv[row[j]], r, j, computed[r])
    BY <1>1, <2>1, RowsHold DEF TextInv
  <2>3. pool.hash[row[j]] # NoKey =>
          j <= numCached[r] /\ pool.hash[row[j]] = BlockHash[r][j]
    BY <2>1 DEF TextInv, RowHashes
  <2>4. \A q \in Req \ {r} : \A i \in DOMAIN rows[q] :
          rows[q][i] = row[j] => j <= numCached[r] /\ i <= numCached[q]
    BY <2>1 DEF TextInv, SharedArePublished
  <2> QED BY <2>2, <2>3, <2>4
<1> QED BY <1>2, <1>3 DEF Front

\* At admission the front is the hit: full blocks, found in the cache.
LEMMA AdmitFront ==
  ASSUME IInv, TextInv, NEW r \in Req, rows[r] = << >>,
         NEW hit \in Seq(Blocks), NEW row,
         \A i \in DOMAIN hit : /\ pool.hash[hit[i]] = BlockHash[r][i]
                               /\ BlockHash[r][i] \in Keys,
         \A j \in DOMAIN row : j <= Len(hit) => row[j] = hit[j],
         NEW m, row \in Seq(Blocks), m = Len(hit)
  PROVE  Front(r, row, m, m * BlockSize, m)
<1>1. m \in Nat /\ m * BlockSize \in Nat /\ TypeOK /\ BlockSize \in Nat
  BY RoomGrows, CacheAssumption DEF IInv
<1>2. ASSUME NEW j \in DOMAIN row, j <= m
      PROVE  /\ (j - 1) * BlockSize < m * BlockSize => HoldsText(kv[row[j]], r, j, m * BlockSize)
             /\ pool.hash[row[j]] # NoKey =>
                  j <= m /\ pool.hash[row[j]] = BlockHash[r][j]
             /\ \A q \in Req \ {r} : \A i \in DOMAIN rows[q] :
                  rows[q][i] = row[j] => j <= m /\ i <= numCached[q]
  <2>1. /\ j \in Nat \ {0} /\ row[j] = hit[j] /\ row[j] \in Blocks
        /\ pool.hash[row[j]] = BlockHash[r][j] /\ pool.hash[row[j]] \in Keys
    BY <1>1, <1>2
  <2>2. pool.hash[row[j]] # NoKey
    BY <2>1, PoolAssumption
  <2>3. kv[row[j]] = [key |-> BlockHash[r][j], filled |-> BlockSize]
    BY <2>1, <2>2 DEF TextInv, CacheNeverLies
  <2>4. HoldsText(kv[row[j]], r, j, m * BlockSize)
    <3>1. (j - 1) * BlockSize \in Nat
      BY <1>1, <2>1, BlocksOfTokens
    <3>2. BlockSize >= Lesser(m * BlockSize - (j - 1) * BlockSize, BlockSize)
      BY <1>1, <3>1 DEF Lesser
    <3> QED BY <2>3, <3>2 DEF HoldsText
  <2>5. \A q \in Req \ {r} : \A i \in DOMAIN rows[q] :
          rows[q][i] = row[j] => i <= numCached[q]
    BY <2>2 DEF TextInv, RowHashes
  <2> QED BY <1>2, <2>1, <2>4, <2>5
<1>3. m * BlockSize <= m * BlockSize
  BY <1>1
<1> QED BY <1>2, <1>3 DEF Front

\* Admission allocates on top of the hit.
LEMMA AdmitAllocates ==
  ASSUME IInv, TextInv, NEW r \in Req, NEW n \in 1 .. MaxLen, Admit(r, n)
  PROVE  \E row, places, fresh, taken, from, to, already, final :
           Allocated(r, row, places, fresh, taken, from, to, already, final)
<1> DEFINE hit == HitBlocks(r)
<1>1. /\ rows[r] = << >> /\ n <= numTokens[r] - HitLen(r) * BlockSize
      /\ AllocateSlots(r, hit, 0, n, Headroom)
  BY DEF Admit, Running
<1>2. /\ numTokens[r] \in 1 .. MaxLen - 1 /\ PoolInv(pool) /\ TypeOK /\ RefExact
      /\ computed[r] \in Nat /\ numCached[r] \in Nat
  BY CacheAssumption DEF IInv, TypeOK, PoolConsistent
<1>3. BlockSize \in Nat \ {0} /\ MaxLen \in Nat \ {0}
  BY CacheAssumption
<1>4. /\ HitLen(r) \in Nat /\ HitLen(r) <= HitLimit(r)
      /\ hit \in Seq(Blocks) /\ Len(hit) = HitLen(r)
      /\ Distinct(hit) /\ NullBlock \notin Elements(hit)
      /\ \A i \in 1 .. HitLen(r) : pool.hash[hit[i]] = BlockHash[r][i]
  BY <1>2, HitIsRow
<1>5. \A i \in DOMAIN hit : /\ pool.hash[hit[i]] = BlockHash[r][i]
                            /\ BlockHash[r][i] \in Keys
  <2>1. HitLimit(r) \in Nat /\ HitLimit(r) <= MaxBlocks /\ MaxBlocks \in Nat
    BY <1>2, LimitInContext, TextHashes
  <2>2. \A i \in 1 .. MaxBlocks : BlockHash[r][i] \in Keys
    BY CacheAssumption
  <2>3. ASSUME NEW i \in DOMAIN hit
        PROVE  i \in 1 .. HitLen(r) /\ i \in 1 .. MaxBlocks
    BY <1>4, <2>1
  <2> QED BY <1>4, <2>2, <2>3
<1> HIDE DEF hit
<1>6. 0 + Len(hit) * BlockSize + n \in 0 .. MaxLen - 1
  <2>1. HitLen(r) * BlockSize \in Nat
    BY <1>3, <1>4
  <2>2. HitLen(r) * BlockSize + n \in 0 .. MaxLen - 1
    BY <1>1, <1>2, <1>3, <2>1
  <2> QED BY <1>4, <2>1, <2>2
<1>7. Elements(rows[r]) \cap Elements(hit) = {}
  BY <1>1 DEF Elements
<1>8. numCached[r] = 0
  <2>1. /\ numCached[r] * BlockSize <= computed[r]
        /\ computed[r] <= Len(rows[r]) * BlockSize
    BY DEF TextInv, PublishedIsComputed, TableCovers
  <2>2. Len(rows[r]) * BlockSize = 0
    BY <1>1, <1>3
  <2>3. SUFFICES ASSUME 1 <= numCached[r]
                 PROVE  FALSE
    BY <1>2
  <2>4. 1 * BlockSize <= numCached[r] * BlockSize /\ numCached[r] * BlockSize \in Nat
    BY <1>2, <2>3, RoomGrows
  <2> QED BY <1>2, <1>3, <2>1, <2>2, <2>4
<1> DEFINE none == 0
           from == none + Len(hit) * BlockSize
           to == from + n
           final == Lesser(to, numTokens[r])
           places == Len(rows[r]) + Len(hit)
           already == numCached[r] + Len(hit)
<1>9. PICK row, fresh, taken :
        /\ Obtained(taken, row, places, fresh)
        /\ Grown(r, row, places, fresh, from, to, already, final)
        /\ \A j \in DOMAIN row :
             /\ j <= Len(rows[r]) => row[j] = rows[r][j]
             /\ Len(rows[r]) < j /\ j <= places => row[j] = hit[j - Len(rows[r])]
  <2>1. n \in Nat /\ none \in Nat /\ AllocateSlots(r, hit, none, n, Headroom)
    BY <1>1
  <2>2. none + Len(hit) * BlockSize + n \in 0 .. MaxLen - 1
    BY <1>6
  <2>3. hit \in Seq(Blocks) /\ Distinct(hit) /\ NullBlock \notin Elements(hit)
    BY <1>4
  <2> HIDE DEF none
  <2> QED BY <1>7, <2>1, <2>2, <2>3, AllocateSlotsGrows, SMTT(60)
<1>10. /\ places = Len(hit) /\ already = Len(hit) /\ Len(rows[r]) = 0
       /\ from = Len(hit) * BlockSize /\ Len(hit) \in Nat
  <2>1. Len(hit) \in Nat /\ Len(rows[r]) = 0
    BY <1>1, <1>4
  <2>2. Len(hit) * BlockSize \in Nat
    BY <2>1, RoomGrows
  <2> QED BY <1>8, <2>1, <2>2
<1>11. row \in Seq(Blocks)
  BY <1>9 DEF Grown
<1>12. \A j \in DOMAIN row : j <= Len(hit) => row[j] = hit[j]
  <2>1. SUFFICES ASSUME NEW j \in DOMAIN row, j <= Len(hit)
                 PROVE  row[j] = hit[j]
    OBVIOUS
  <2>2. j \in Nat /\ 0 < j /\ j - 0 = j
    BY <1>11
  <2> HIDE DEF places, from, to, already, final
  <2> QED BY <1>9, <1>10, <2>1, <2>2
<1> HIDE DEF places, from, to, already, final
<1>13. Front(r, row, places, from, already)
  <2>1. Front(r, row, Len(hit), Len(hit) * BlockSize, Len(hit))
    BY <1>1, <1>4, <1>5, <1>11, <1>12, AdmitFront
  <2> QED BY <1>10, <2>1
<1>14. HeadPublished(r, row, places, already)
  BY <1>5, <1>10, <1>11, <1>12 DEF HeadPublished
<1>15. Allocated(r, row, places, fresh, taken, from, to, already, final)
  BY <1>9, <1>13, <1>14 DEF Allocated
<1> QED BY <1>15

\* The running loop allocates on top of the table.
LEMMA ExtendAllocates ==
  ASSUME IInv, TextInv, NEW r \in Req, NEW n \in 1 .. MaxLen, Extend(r, n)
  PROVE  \E row, places, fresh, taken, from, to, already, final :
           Allocated(r, row, places, fresh, taken, from, to, already, final)
<1>1. /\ n <= MaxLen - (computed[r] + 1)
      /\ AllocateSlots(r, << >>, computed[r], n, 0)
  BY DEF Extend, LeftToMaxLen
<1>2. /\ computed[r] \in 0 .. MaxLen - 1 /\ computed[r] \in Nat /\ numCached[r] \in Nat
      /\ rows[r] \in Seq(Blocks) /\ TypeOK /\ RefExact
  BY CacheAssumption DEF IInv, TypeOK
<1>3. BlockSize \in Nat \ {0} /\ MaxLen \in Nat \ {0}
  BY CacheAssumption
<1>4. /\ << >> \in Seq(Blocks) /\ Distinct(<< >>) /\ Elements(<< >>) = {}
      /\ Len(<< >>) = 0 /\ Len(<< >>) * BlockSize = 0
  BY <1>3 DEF Distinct, Elements
<1> DEFINE none == << >>
           from == computed[r] + Len(none) * BlockSize
           to == from + n
           final == Lesser(to, numTokens[r])
           places == Len(rows[r]) + Len(none)
           already == numCached[r] + Len(none)
<1>5. to \in 0 .. MaxLen - 1
  BY <1>1, <1>2, <1>3, <1>4
<1>6. from = computed[r] /\ places = Len(rows[r]) /\ already = numCached[r]
  BY <1>2, <1>4
<1>7. PICK row, fresh, taken :
        /\ Obtained(taken, row, places, fresh)
        /\ Grown(r, row, places, fresh, from, to, already, final)
        /\ \A j \in DOMAIN row :
             /\ j <= Len(rows[r]) => row[j] = rows[r][j]
             /\ Len(rows[r]) < j /\ j <= places => row[j] = none[j - Len(rows[r])]
  <2>1. /\ n \in Nat /\ NullBlock \notin Elements(none)
        /\ Elements(rows[r]) \cap Elements(none) = {}
        /\ none \in Seq(Blocks) /\ Distinct(none)
    BY <1>4
  <2>2. AllocateSlots(r, none, computed[r], n, 0)
    BY <1>1
  <2> HIDE DEF none
  <2> QED BY <1>2, <1>5, <2>1, <2>2, AllocateSlotsGrows
<1> HIDE DEF none, places, from, to, already, final
<1>8. row \in Seq(Blocks) /\ \A j \in DOMAIN row : j <= Len(rows[r]) => row[j] = rows[r][j]
  BY <1>7 DEF Grown
<1>9. Front(r, row, places, from, already)
  <2>1. Front(r, row, Len(rows[r]), computed[r], numCached[r])
    BY <1>8, ExtendFront
  <2> QED BY <1>6, <2>1
<1>10. ASSUME RowsArePublished
       PROVE  HeadPublished(r, row, places, already)
  <2>1. SUFFICES ASSUME NEW j \in DOMAIN row, j <= places, j <= already
                 PROVE  pool.hash[row[j]] = BlockHash[r][j]
    BY DEF HeadPublished
  <2>2. j \in DOMAIN rows[r] /\ row[j] = rows[r][j] /\ j <= numCached[r]
    BY <1>2, <1>6, <1>8, <2>1
  <2> QED BY <1>10, <2>2 DEF RowsArePublished
<1>11. Allocated(r, row, places, fresh, taken, from, to, already, final)
  BY <1>7, <1>9, <1>10 DEF Allocated
<1> QED BY <1>11

\* Publishing the final tokens of r: what is published is complete, the blocks
\* of the other tables keep the hashes they have, and only blocks of r's table
\* that had none get one.
LEMMA FinalTokensHashes ==
  ASSUME IInv, TextInv, NEW r \in Req, InFlight(r) > 0,
         NEW p, p = WithFinalTokens(r)
  PROVE  /\ \A b \in Blocks : p.hash[b] # NoKey =>
              kv[b] = [key |-> p.hash[b], filled |-> BlockSize]
         /\ \A q \in Req \ {r} : \A i \in DOMAIN rows[q] :
              p.hash[rows[q][i]] = pool.hash[rows[q][i]]
         /\ \A j \in DOMAIN rows[r] : p.hash[rows[r][j]] # NoKey =>
              /\ j <= Published(numCached[r], numTokens[r])
              /\ p.hash[rows[r][j]] = BlockHash[r][j]
         /\ Published(numCached[r], numTokens[r]) * BlockSize <= computed[r]
         /\ Published(numCached[r], numTokens[r]) \in Nat
         /\ numCached[r] <= Published(numCached[r], numTokens[r])
         /\ p.free = pool.free
         /\ \A b \in Blocks : \/ p.hash[b] = pool.hash[b]
                              \/ pool.hash[b] = NoKey /\ b \in Elements(rows[r])
         /\ \A j \in DOMAIN rows[r] : j <= Published(numCached[r], numTokens[r]) =>
              \/ p.hash[rows[r][j]] = BlockHash[r][j]
              \/ j <= numCached[r] /\ p.hash[rows[r][j]] = pool.hash[rows[r][j]]
<1> DEFINE row == rows[r]
           last == FullBlocks(numTokens[r])
           pub == numCached[r] + 1 .. last
<1>1. /\ numTokens[r] \in 1 .. MaxLen - 1 /\ computed[r] \in 0 .. MaxLen - 1
      /\ numTokens[r] \in Nat /\ computed[r] \in Nat /\ numTokens[r] \in 0 .. MaxLen - 1
      /\ numCached[r] \in Nat /\ row \in Seq(Blocks) /\ Distinct(row)
      /\ PoolInv(pool) /\ FullBlocks(computed[r]) <= Len(row) /\ TypeOK
      /\ NullBlock \notin Elements(row) /\ BlockSize \in Nat \ {0}
  BY CacheAssumption DEF IInv, TypeOK, RefExact, PoolConsistent, RowCovers
<1>2. numTokens[r] <= computed[r]
  BY <1>1 DEF InFlight, Greater
<1>3. last \in Nat /\ last <= Len(row)
  <2>1. last <= FullBlocks(computed[r]) /\ last \in Nat /\ FullBlocks(computed[r]) \in Nat
    BY <1>1, <1>2, DivMono, BlockCounts DEF FullBlocks
  <2> QED BY <1>1, <2>1
<1>4. /\ \A i \in pub : row[i] # NullBlock => p.hash[row[i]] = BlockHash[r][i]
      /\ \A b \in Blocks : (\A i \in pub : row[i] # b) => p.hash[b] = pool.hash[b]
      /\ p.free = pool.free
  <2>1. p = Publish(pool, r, row, numCached[r], numTokens[r])
    BY DEF WithFinalTokens
  <2>2. /\ \A i \in pub : row[i] # NullBlock =>
              Publish(pool, r, row, numCached[r], numTokens[r]).hash[row[i]] = BlockHash[r][i]
        /\ \A b \in Blocks : (\A i \in pub : row[i] # b) =>
              Publish(pool, r, row, numCached[r], numTokens[r]).hash[b] = pool.hash[b]
        /\ Publish(pool, r, row, numCached[r], numTokens[r]).free = pool.free
    <3>1. /\ PoolInv(pool) /\ row \in Seq(Blocks) /\ Distinct(row) /\ numCached[r] \in Nat
          /\ numTokens[r] \in 0 .. MaxLen - 1 /\ FullBlocks(numTokens[r]) <= Len(row)
      BY <1>1, <1>3
    <3> DEFINE tokens == numTokens[r]
               already == numCached[r]
    <3>2. /\ already \in Nat /\ tokens \in 0 .. MaxLen - 1
          /\ FullBlocks(tokens) <= Len(row)
      BY <3>1
    <3> HIDE DEF row, tokens, already
    <3>3. /\ \A i \in already + 1 .. FullBlocks(tokens) : row[i] # NullBlock =>
               Publish(pool, r, row, already, tokens).hash[row[i]] = BlockHash[r][i]
          /\ \A b \in Blocks : (\A i \in already + 1 .. FullBlocks(tokens) : row[i] # b) =>
               Publish(pool, r, row, already, tokens).hash[b] = pool.hash[b]
          /\ Publish(pool, r, row, already, tokens).free = pool.free
      BY <3>1, <3>2, PublishInv, SMTT(40)
    <3> QED BY <3>3 DEF tokens, already
  <2> QED BY <2>1, <2>2
<1>5. ASSUME NEW i \in pub
      PROVE  /\ i \in DOMAIN row /\ i \in Nat \ {0} /\ i <= last /\ i > numCached[r]
             /\ p.hash[row[i]] = BlockHash[r][i]
             /\ i <= Published(numCached[r], numTokens[r])
  <2>1. i \in DOMAIN row /\ i \in Nat \ {0} /\ i <= last /\ i > numCached[r]
    BY <1>1, <1>3
  <2>2. row[i] # NullBlock
    BY <1>1, <2>1 DEF Elements
  <2> QED BY <1>1, <1>3, <1>4, <2>1, <2>2 DEF Published, Greater
<1>6. /\ Published(numCached[r], numTokens[r]) \in Nat
      /\ numCached[r] <= Published(numCached[r], numTokens[r])
  BY <1>1, <1>3 DEF Published, Greater
<1>7. Published(numCached[r], numTokens[r]) * BlockSize <= computed[r]
  <2>1. CASE last > numCached[r]
    <3>1. Published(numCached[r], numTokens[r]) = last /\ last \in Nat \ {0} /\ last <= last
      BY <1>1, <1>3, <2>1 DEF Published, Greater
    <3>2. last * BlockSize <= numTokens[r] /\ last * BlockSize \in Nat
      <4> HIDE DEF last
      <4> QED BY <1>1, <3>1, BlocksOfTokens DEF last
    <3> QED BY <1>1, <1>2, <3>1, <3>2
  <2>2. CASE last <= numCached[r]
    <3>1. Published(numCached[r], numTokens[r]) = numCached[r]
      BY <1>1, <1>3, <2>2 DEF Published, Greater
    <3> QED BY <3>1 DEF TextInv, PublishedIsComputed
  <2> QED BY <1>1, <1>3, <2>1, <2>2
<1> HIDE DEF pub
<1>8. ASSUME NEW b \in Blocks, p.hash[b] # NoKey
      PROVE  kv[b] = [key |-> p.hash[b], filled |-> BlockSize]
  <2>1. CASE \E i \in pub : row[i] = b
    <3>1. PICK i \in pub : row[i] = b
      BY <2>1
    <3>2. /\ i * BlockSize <= numTokens[r] /\ (i - 1) * BlockSize \in Nat
          /\ i * BlockSize = (i - 1) * BlockSize + BlockSize
      BY <1>1, <1>5, BlocksOfTokens
    <3>3. /\ (i - 1) * BlockSize < computed[r]
          /\ Lesser(computed[r] - (i - 1) * BlockSize, BlockSize) = BlockSize
      BY <1>1, <1>2, <3>2 DEF Lesser
    <3>4. HoldsText(kv[row[i]], r, i, computed[r])
      BY <1>1, <1>5, <3>3, RowsHold DEF TextInv
    <3>5. kv[b].key = p.hash[b] /\ kv[b].filled >= BlockSize
      BY <1>5, <3>1, <3>3, <3>4 DEF HoldsText
    <3>6. kv[b].filled <= BlockSize /\ kv[b] \in [key : Keys \cup {NoKey}, filled : Nat]
      BY <1>1 DEF TextInv, Filled, TypeOK
    <3>7. kv[b].filled = BlockSize
      BY <1>1, <3>5, <3>6
    <3> QED BY <3>5, <3>6, <3>7
  <2>2. CASE ~ \E i \in pub : row[i] = b
    BY <1>4, <1>8, <2>2 DEF TextInv, CacheNeverLies
  <2> QED BY <2>1, <2>2
<1>9. ASSUME NEW q \in Req \ {r}, NEW i \in DOMAIN rows[q]
      PROVE  p.hash[rows[q][i]] = pool.hash[rows[q][i]]
  <2>1. rows[q][i] \in Blocks
    <3>1. rows[q] \in Seq(Blocks)
      BY <1>1 DEF TypeOK
    <3> QED BY <3>1
  <2>2. ASSUME NEW k \in pub, row[k] = rows[q][i]
        PROVE  FALSE
    <3>1. k <= numCached[r]
      BY <1>5, <2>2 DEF TextInv, SharedArePublished
    <3> QED BY <1>1, <1>5, <3>1
  <2> QED BY <1>4, <2>1, <2>2
<1>10. ASSUME NEW j \in DOMAIN row, p.hash[row[j]] # NoKey
       PROVE  /\ j <= Published(numCached[r], numTokens[r])
              /\ p.hash[row[j]] = BlockHash[r][j]
  <2>1. CASE j \in pub
    BY <1>5, <2>1
  <2>2. CASE j \notin pub
    <3>1. \A i \in pub : row[i] # row[j]
      BY <1>1, <1>5, <2>2 DEF Distinct
    <3>2. p.hash[row[j]] = pool.hash[row[j]] /\ j \in Nat
      BY <1>1, <1>4, <3>1
    <3>3. j <= numCached[r] /\ pool.hash[row[j]] = BlockHash[r][j]
      BY <1>10, <3>2 DEF TextInv, RowHashes
    <3> QED BY <1>1, <1>6, <3>2, <3>3
  <2> QED BY <2>1, <2>2
<1>11. ASSUME NEW b \in Blocks, p.hash[b] # pool.hash[b]
       PROVE  pool.hash[b] = NoKey /\ b \in Elements(row)
  <2>1. PICK i \in pub : row[i] = b
    BY <1>4, <1>11
  <2>2. b \in Elements(row)
    BY <1>5, <2>1 DEF Elements
  <2>3. pool.hash[row[i]] # NoKey => i <= numCached[r]
    BY <1>5 DEF TextInv, RowHashes
  <2> QED BY <1>1, <1>5, <2>1, <2>2, <2>3
<1>12. ASSUME NEW j \in DOMAIN row, j <= Published(numCached[r], numTokens[r])
       PROVE  \/ p.hash[row[j]] = BlockHash[r][j]
              \/ j <= numCached[r] /\ p.hash[row[j]] = pool.hash[row[j]]
  <2>1. CASE j \in pub
    BY <1>5, <2>1
  <2>2. CASE j \notin pub
    <3>1. \A i \in pub : row[i] # row[j]
      BY <1>1, <1>5, <2>2 DEF Distinct
    <3>2. p.hash[row[j]] = pool.hash[row[j]] /\ j \in Nat
      BY <1>1, <1>4, <3>1
    <3>3. j <= numCached[r]
      BY <1>1, <1>3, <1>12, <2>2, <3>2 DEF Published, Greater, pub
    <3> QED BY <3>2, <3>3
  <2> QED BY <2>1, <2>2
<1>13. p.free = pool.free
  BY <1>4
<1>14. ASSUME NEW b \in Blocks
       PROVE  p.hash[b] = pool.hash[b] \/ (pool.hash[b] = NoKey /\ b \in Elements(row))
  <2>1. CASE p.hash[b] = pool.hash[b]
    BY <2>1
  <2>2. CASE p.hash[b] # pool.hash[b]
    BY <1>11, <2>2
  <2> QED BY <2>1, <2>2
<1> QED BY <1>6, <1>7, <1>8, <1>9, <1>10, <1>12, <1>13, <1>14

\* A table is given back to a pool in which what is cached is complete and the
\* other tables have the hashes they had.
LEMMA FreeRowKeepsText ==
  ASSUME IInv, TextInv, NEW r \in Req, NEW p, PoolInv(p), p.ref = pool.ref,
         FreeRow(p, r),
         \A b \in Blocks : p.hash[b] # NoKey =>
           kv[b] = [key |-> p.hash[b], filled |-> BlockSize],
         \A q \in Req \ {r} : \A i \in DOMAIN rows[q] :
           p.hash[rows[q][i]] = pool.hash[rows[q][i]]
  PROVE  TextInv' /\ WriteChangesPrivate
<1> DEFINE back == Backwards(rows[r])
<1>1. /\ pool' = FreeBlocks(p, back)
      /\ rows' = [rows EXCEPT ![r] = << >>]
      /\ numCached' = [numCached EXCEPT ![r] = 0]
      /\ computed' = [computed EXCEPT ![r] = 0]
      /\ kv' = kv
  BY DEF FreeRow
<1>2. /\ TypeOK /\ rows[r] \in Seq(Blocks) /\ Distinct(rows[r])
      /\ NullBlock \notin Elements(rows[r]) /\ RefExact
      /\ \A b \in Blocks : pool.ref[b] \in Nat
  BY DEF IInv, TypeOK, RefExact, PoolConsistent, PoolInv, PoolType
<1>3. pool'.hash = p.hash
  <2>1. back \in Seq(Blocks) /\ Distinct(back) /\ Elements(back) = Elements(rows[r])
    BY <1>2, BackwardsElements
  <2>2. \A b \in Elements(rows[r]) : b \in Blocks /\ p.ref[b] >= 1
    <3>1. Elements(rows[r]) \subseteq Blocks
      BY <1>2 DEF Elements
    <3> QED BY <1>2, <3>1, HeldIsReferenced
  <2> HIDE DEF back
  <2>3. \A b \in Elements(back) \ {NullBlock} : p.ref[b] >= 1
    BY <2>1, <2>2
  <2>4. FreeBlocks(p, back).hash = p.hash
    BY <2>1, <2>3, FreeBlocksInv
  <2> QED BY <1>1, <2>4
<1>4. /\ rows'[r] = << >> /\ computed'[r] = 0 /\ numCached'[r] = 0
      /\ \A q \in Req \ {r} : /\ rows'[q] = rows[q] /\ computed'[q] = computed[q]
                              /\ numCached'[q] = numCached[q]
  BY <1>1, <1>2 DEF TypeOK
<1>5. BlockSize \in Nat \ {0} /\ 0 * BlockSize = 0 /\ Len(<< >>) = 0 /\ DOMAIN << >> = {}
  BY CacheAssumption
<1>6. TableCovers'
  BY <1>4, <1>5 DEF TextInv, TableCovers
<1>7. PublishedIsComputed'
  BY <1>4, <1>5 DEF TextInv, PublishedIsComputed
<1>8. RowHashes'
  <2>1. \A q \in Req \ {r} : \A j \in DOMAIN rows[q] :
          p.hash[rows[q][j]] # NoKey => j <= numCached[q] /\ p.hash[rows[q][j]] = BlockHash[q][j]
    BY DEF TextInv, RowHashes
  <2> QED BY <1>3, <1>4, <1>5, <2>1 DEF RowHashes
<1>9. SharedArePublished'
  BY <1>4, <1>5 DEF TextInv, SharedArePublished
<1>10. Filled' /\ CacheNeverLies'
  BY <1>1, <1>3 DEF TextInv, Filled, CacheNeverLies
<1>11. RowsHoldTheirText'
  <2>1. CeilDiv(0, BlockSize) = 0
    BY <1>5 DEF CeilDiv
  <2>2. \A j \in 1 .. CeilDiv(0, BlockSize) : FALSE
    BY <2>1
  <2> QED BY <1>1, <1>4, <2>2 DEF TextInv, RowsHoldTheirText, CeilDiv
<1>12. WriteChangesPrivate
  BY <1>1 DEF WriteChangesPrivate
<1> QED BY <1>6, <1>7, <1>8, <1>9, <1>10, <1>11, <1>12 DEF TextInv

\* The three ways a table is given back, with the content in place.
LEMMA FreeingKeepsText ==
  ASSUME IInv, TextInv, NEW r \in Req,
         (\E late \in 0 .. Ahead + 1 : Preempt(r, late)) \/ Stop(r) \/ Abort(r)
  PROVE  TextInv' /\ WriteChangesPrivate
<1>1. PoolInv(pool)
  BY DEF IInv, PoolConsistent
<1>2. ASSUME FreeRow(pool, r)
      PROVE  TextInv' /\ WriteChangesPrivate
  <2>1. \A b \in Blocks : pool.hash[b] # NoKey =>
          kv[b] = [key |-> pool.hash[b], filled |-> BlockSize]
    BY DEF TextInv, CacheNeverLies
  <2> QED BY <1>1, <1>2, <2>1, FreeRowKeepsText
<1>3. CASE (\E late \in 0 .. Ahead + 1 : Preempt(r, late)) \/ Abort(r)
  BY <1>2, <1>3 DEF Preempt, Abort
<1>4. CASE Stop(r)
  <2>1. InFlight(r) > 0 /\ FreeRow(WithFinalTokens(r), r)
    BY <1>4 DEF Stop
  <2>2. PoolInv(WithFinalTokens(r)) /\ WithFinalTokens(r).ref = pool.ref
    BY <2>1, FinalTokensKeep
  <2> DEFINE p == WithFinalTokens(r)
  <2>3. /\ \A b \in Blocks : p.hash[b] # NoKey =>
             kv[b] = [key |-> p.hash[b], filled |-> BlockSize]
        /\ \A q \in Req \ {r} : \A i \in DOMAIN rows[q] :
             p.hash[rows[q][i]] = pool.hash[rows[q][i]]
    BY <2>1, FinalTokensHashes
  <2>4. PoolInv(p) /\ p.ref = pool.ref /\ FreeRow(p, r)
    BY <2>1, <2>2
  <2> HIDE DEF p
  <2> QED BY <2>3, <2>4, FreeRowKeepsText
<1> QED BY <1>3, <1>4

\* A sampled token publishes what is complete.
LEMMA SampledKeepsText ==
  ASSUME IInv, TextInv, NEW r \in Req, Sampled(r)
  PROVE  TextInv' /\ WriteChangesPrivate
<1> DEFINE last == Published(numCached[r], numTokens[r])
<1>1. /\ InFlight(r) > 0 /\ pool' = WithFinalTokens(r)
      /\ numCached' = [numCached EXCEPT ![r] = last]
      /\ rows' = rows /\ computed' = computed /\ kv' = kv
  BY DEF Sampled
<1>2. TypeOK
  BY DEF IInv
<1>3. /\ numCached'[r] = last
      /\ \A q \in Req \ {r} : numCached'[q] = numCached[q]
  BY <1>1, <1>2 DEF TypeOK
<1>4. /\ \A b \in Blocks : pool'.hash[b] # NoKey =>
           kv[b] = [key |-> pool'.hash[b], filled |-> BlockSize]
      /\ \A q \in Req \ {r} : \A i \in DOMAIN rows[q] :
           pool'.hash[rows[q][i]] = pool.hash[rows[q][i]]
      /\ \A j \in DOMAIN rows[r] : pool'.hash[rows[r][j]] # NoKey =>
           j <= last /\ pool'.hash[rows[r][j]] = BlockHash[r][j]
      /\ last * BlockSize <= computed[r]
      /\ last \in Nat /\ numCached[r] <= last
  <2> DEFINE p == pool'
  <2>1. p = WithFinalTokens(r) /\ InFlight(r) > 0
    BY <1>1
  <2> HIDE DEF p
  <2>2. /\ \A b \in Blocks : p.hash[b] # NoKey =>
             kv[b] = [key |-> p.hash[b], filled |-> BlockSize]
        /\ \A q \in Req \ {r} : \A i \in DOMAIN rows[q] :
             p.hash[rows[q][i]] = pool.hash[rows[q][i]]
    BY <2>1, FinalTokensHashes
  <2>3. \A j \in DOMAIN rows[r] : p.hash[rows[r][j]] # NoKey =>
           j <= last /\ p.hash[rows[r][j]] = BlockHash[r][j]
    BY <2>1, FinalTokensHashes
  <2>4. /\ last * BlockSize <= computed[r]
        /\ last \in Nat /\ numCached[r] <= last
    BY <2>1, FinalTokensHashes
  <2> QED BY <2>2, <2>3, <2>4 DEF p
<1> HIDE DEF last
<1>5. TableCovers' /\ Filled' /\ CacheNeverLies'
  BY <1>1, <1>4 DEF TextInv, TableCovers, Filled, CacheNeverLies
<1>6. PublishedIsComputed'
  BY <1>1, <1>3, <1>4 DEF TextInv, PublishedIsComputed
<1>7. RowHashes'
  <2>1. \A q \in Req \ {r} : \A j \in DOMAIN rows[q] :
          pool'.hash[rows[q][j]] # NoKey =>
             j <= numCached'[q] /\ pool'.hash[rows[q][j]] = BlockHash[q][j]
    BY <1>3, <1>4 DEF TextInv, RowHashes
  <2> QED BY <1>1, <1>3, <1>4, <2>1 DEF RowHashes
<1>8. SharedArePublished'
  <2>1. SUFFICES ASSUME NEW q \in Req, NEW s \in Req, q # s,
                        NEW i \in DOMAIN rows[q], NEW j \in DOMAIN rows[s],
                        rows[q][i] = rows[s][j]
                 PROVE  j <= numCached'[s]
    BY <1>1 DEF SharedArePublished
  <2>2. j <= numCached[s]
    BY <2>1 DEF TextInv, SharedArePublished
  <2>3. j \in Nat /\ numCached[s] \in Nat
    <3>1. rows[s] \in Seq(Blocks) /\ numCached[s] \in Nat
      BY <1>2 DEF TypeOK
    <3> QED BY <3>1
  <2> QED BY <1>3, <1>4, <2>2, <2>3
<1>9. RowsHoldTheirText'
  BY <1>1 DEF TextInv, RowsHoldTheirText
<1>10. WriteChangesPrivate
  BY <1>1 DEF WriteChangesPrivate
<1> QED BY <1>5, <1>6, <1>7, <1>8, <1>9, <1>10 DEF TextInv

\* Hashes that are forgotten harm no content.
LEMMA ForgettingKeepsText ==
  ASSUME TextInv, \A b \in Blocks : pool'.hash[b] \in {NoKey, pool.hash[b]}, TypeOK,
         UNCHANGED <<rows, numCached, computed, kv>>
  PROVE  TextInv' /\ WriteChangesPrivate
<1>1. TableCovers' /\ PublishedIsComputed' /\ SharedArePublished' /\ Filled'
  BY DEF TextInv, TableCovers, PublishedIsComputed, SharedArePublished, Filled
<1>2. RowHashes'
  <2>1. \A r \in Req : \A j \in DOMAIN rows[r] : rows[r][j] \in Blocks
    BY DEF TypeOK
  <2> QED BY <2>1 DEF TextInv, RowHashes
<1>3. CacheNeverLies'
  BY DEF TextInv, CacheNeverLies
<1>4. RowsHoldTheirText'
  BY DEF TextInv, RowsHoldTheirText
<1>5. WriteChangesPrivate
  BY DEF WriteChangesPrivate
<1> QED BY <1>1, <1>2, <1>3, <1>4, <1>5 DEF TextInv

\* An empty cache, no tables.
LEMMA InitText == Init => TextInv
<1> SUFFICES ASSUME Init
             PROVE  TextInv
  OBVIOUS
<1>1. /\ \A r \in Req : rows[r] = << >> /\ numCached[r] = 0 /\ computed[r] = 0
      /\ \A b \in Blocks : kv[b] = [key |-> NoKey, filled |-> 0] /\ pool.hash[b] = NoKey
  BY DEF Init, NewPool
<1>2. BlockSize \in Nat \ {0} /\ 0 * BlockSize = 0 /\ Len(<< >>) = 0 /\ DOMAIN << >> = {}
  BY CacheAssumption
<1>3. TableCovers /\ PublishedIsComputed /\ Filled
  BY <1>1, <1>2 DEF TableCovers, PublishedIsComputed, Filled
<1>4. RowHashes /\ SharedArePublished /\ CacheNeverLies
  BY <1>1, <1>2 DEF RowHashes, SharedArePublished, CacheNeverLies
<1>5. RowsHoldTheirText
  <2>1. CeilDiv(0, BlockSize) = 0
    BY <1>2 DEF CeilDiv
  <2>2. \A j \in 1 .. CeilDiv(0, BlockSize) : FALSE
    BY <2>1
  <2> QED BY <1>1, <2>2 DEF RowsHoldTheirText
<1> QED BY <1>3, <1>4, <1>5 DEF TextInv

\* No handler breaks it, and none writes what is shared or stays cached.
LEMMA TextInductive ==
  IInv /\ TextInv /\ TypeOK' /\ [Next]_vars => TextInv' /\ [WriteChangesPrivate]_vars
<1> SUFFICES ASSUME IInv, TextInv, TypeOK', [Next]_vars
             PROVE  TextInv' /\ WriteChangesPrivate
  OBVIOUS
<1>1. TypeOK
  BY DEF IInv
<1>2. CASE UNCHANGED vars
  BY <1>1, <1>2, ForgettingKeepsText DEF vars
<1>3. ASSUME NEW r \in Req, NEW n \in 1 .. MaxLen, Admit(r, n) \/ Extend(r, n)
      PROVE  TextInv' /\ WriteChangesPrivate
  <2>1. PICK row, places, fresh, taken, from, to, already, final :
          Allocated(r, row, places, fresh, taken, from, to, already, final)
    BY <1>3, AdmitAllocates, ExtendAllocates
  <2>2. TypeOK /\ RefExact
    BY DEF IInv
  <2> QED BY <2>1, <2>2, GrownKeepsText DEF Allocated
<1>4. ASSUME NEW r \in Req, Sampled(r)
      PROVE  TextInv' /\ WriteChangesPrivate
  BY <1>4, SampledKeepsText
<1>5. ASSUME NEW r \in Req,
             (\E late \in 0 .. Ahead + 1 : Preempt(r, late)) \/ Stop(r) \/ Abort(r)
      PROVE  TextInv' /\ WriteChangesPrivate
  BY <1>5, FreeingKeepsText
<1>6. ASSUME NEW S \in SUBSET Blocks, Evict(S)
      PROVE  TextInv' /\ WriteChangesPrivate
  <2>1. \A b \in Blocks : pool'.hash[b] \in {NoKey, pool.hash[b]}
    BY <1>6, ForgetHashesInv DEF Evict, EvictBlocks, IInv, PoolConsistent
  <2>2. UNCHANGED <<rows, numCached, computed, kv>>
    BY <1>6 DEF Evict
  <2> QED BY <1>1, <2>1, <2>2, ForgettingKeepsText
<1>7. CASE Reset
  <2>1. \A b \in Blocks : pool'.hash[b] \in {NoKey, pool.hash[b]}
    BY <1>7, ResetPrefixCacheInv DEF Reset, IInv, PoolConsistent
  <2>2. UNCHANGED <<rows, numCached, computed, kv>>
    BY <1>7 DEF Reset
  <2> QED BY <1>1, <2>1, <2>2, ForgettingKeepsText
<1> QED BY <1>2, <1>3, <1>4, <1>5, <1>6, <1>7 DEF Next

\* The prefix cache never answers with another text, and no request ever reads
\* one through its table: for every pool, request set, text and policy, with
\* hits shared, blocks recycled and steps ahead of the final tokens.
THEOREM TextStaysRight == Spec => []TextIsRight
<1>1. Init => IInv /\ TextInv
  BY InitHolds, InitText
<1>2. IInv /\ TextInv /\ [Next]_vars => IInv' /\ TextInv'
  <2>1. IInv' => TypeOK'
    BY DEF IInv
  <2> QED BY <2>1, Inductive, TextInductive
<1>3. TextInv => TextIsRight
  BY DEF TextInv, TextIsRight
<1> QED BY <1>1, <1>2, <1>3, PTL DEF Spec

\* A step never writes a block that a second table holds, nor changes a block
\* that stays in the cache.
THEOREM WritesStayPrivate == Spec => WritesArePrivate
<1>1. Init => IInv /\ TextInv
  BY InitHolds, InitText
<1>2. IInv /\ TextInv /\ [Next]_vars =>
        IInv' /\ TextInv' /\ [WriteChangesPrivate]_vars
  <2>1. IInv' => TypeOK'
    BY DEF IInv
  <2> QED BY <2>1, Inductive, TextInductive
<1> QED BY <1>1, <1>2, PTL DEF Spec, WritesArePrivate

------------------------------------------------------------------------------
(***************************************************************************)
(* The order of reuse: the cache has no holes, and blocks that serve no    *)
(* hit go first.                                                           *)
(***************************************************************************)

\* Until blocks are evicted out of band, what counts as published is in the
\* cache, and the queue keeps the order of the texts.
OrderInv == evictions = 0 => RowsArePublished /\ Ordered(pool, TextLinks)

\* A block of a text is linked to the one before it, whoever has the text.
LEMMA LinkToPlace ==
  ASSUME NEW r \in Req, NEW i \in 1 .. MaxBlocks, NEW k,
         <<k, BlockHash[r][i]>> \in TextLinks
  PROVE  i - 1 \in 1 .. MaxBlocks /\ k = BlockHash[r][i - 1]
<1>1. PICK q \in Req, j \in 2 .. MaxBlocks :
        k = BlockHash[q][j - 1] /\ BlockHash[r][i] = BlockHash[q][j]
  BY DEF TextLinks
<1>2. MaxBlocks \in Nat
  BY TextHashes
<1>3. j \in 1 .. MaxBlocks /\ j - 1 \in 1 .. j /\ j - 1 \in 1 .. MaxBlocks
  BY <1>2
<1>4. i = j /\ \A m \in 1 .. i : BlockHash[r][m] = BlockHash[q][m]
  BY <1>1, <1>3, CacheAssumption DEF ChainedHashes
<1> QED BY <1>1, <1>3, <1>4

\* The places that are published have hashes.
LEMMA PublishedPlaces ==
  ASSUME IInv, NEW r \in Req, NEW last \in Nat, last * BlockSize <= computed[r]
  PROVE  last <= MaxBlocks
<1>1. /\ computed[r] \in 0 .. MaxLen - 1 /\ computed[r] \in Nat /\ MaxBlocks \in Nat
  BY CacheAssumption, TextHashes DEF IInv, TypeOK
<1>2. CASE last = 0
  BY <1>1, <1>2
<1>3. CASE last # 0
  <2>1. last <= FullBlocks(computed[r])
    BY <1>1, <1>3, BlocksOfTokens
  <2>2. FullBlocks(computed[r]) \in Nat /\ FullBlocks(computed[r]) <= MaxBlocks
    BY <1>1, BlockCounts
  <2> QED BY <1>1, <2>1, <2>2
<1> QED BY <1>2, <1>3

\* allocate_slots keeps the order.
LEMMA AllocatedKeepsOrder ==
  ASSUME TypeOK, TextInv, RowsArePublished, Ordered(pool, TextLinks), evictions = 0,
         NEW r \in Req, NEW row, NEW places, NEW fresh, NEW taken, NEW from, NEW to,
         NEW already, NEW final,
         Allocated(r, row, places, fresh, taken, from, to, already, final)
  PROVE  RowsArePublished' /\ Ordered(pool', TextLinks)
<1> DEFINE pub == already + 1 .. FullBlocks(final)
           last == Published(already, final)
<1>1. /\ Grown(r, row, places, fresh, from, to, already, final)
      /\ Front(r, row, places, from, already)
      /\ Obtained(taken, row, places, fresh)
      /\ HeadPublished(r, row, places, already)
  BY DEF Allocated
<1>2. /\ row \in Seq(Blocks) /\ Distinct(row)
      /\ places \in Nat /\ fresh \in SUBSET Blocks
      /\ from \in Nat /\ already \in Nat /\ final \in Nat
      /\ \A q \in Req : Elements(rows[q]) \cap fresh = {}
      /\ FullBlocks(final) <= Len(row)
  BY <1>1 DEF Grown
<1>3. /\ rows'[r] = row /\ numCached'[r] = last
      /\ \A q \in Req \ {r} : rows'[q] = rows[q] /\ numCached'[q] = numCached[q]
  BY <1>1 DEF Grown, TypeOK
<1>4. FullBlocks(final) \in Int
  BY <1>2, CacheAssumption DEF FullBlocks
<1>5. \A i \in pub : i \in DOMAIN row /\ i \in Nat /\ i > already
  BY <1>2, <1>4
<1>6. \A i \in pub : pool'.hash[row[i]] = BlockHash[r][i]
  BY <1>1, <1>5 DEF Grown
<1>7. ASSUME NEW b \in Blocks, \A i \in pub : row[i] # b
      PROVE  pool'.hash[b] = IF b \in fresh THEN NoKey ELSE pool.hash[b]
  BY <1>1, <1>7 DEF Grown
<1>8. /\ PoolInv(taken) /\ Ordered(taken, TextLinks)
      /\ pool'.free = taken.free /\ pool'.ref = taken.ref
      /\ \A b \in Blocks : taken.hash[b] = IF b \in fresh THEN NoKey ELSE pool.hash[b]
      /\ \A j \in DOMAIN row : taken.ref[row[j]] > 0
      /\ \A j \in DOMAIN row : row[j] \in fresh => j > places
  <2>1. PoolInv(taken) /\ Ordered(taken, TextLinks)
    BY <1>1 DEF Obtained
  <2>2. pool'.free = taken.free /\ pool'.ref = taken.ref
    BY <1>1 DEF Obtained
  <2>3. \A b \in Blocks : taken.hash[b] = IF b \in fresh THEN NoKey ELSE pool.hash[b]
    BY <1>1 DEF Obtained
  <2>4. \A j \in DOMAIN row : taken.ref[row[j]] > 0 /\ (row[j] \in fresh => j > places)
    BY <1>1 DEF Obtained
  <2> QED BY <2>1, <2>2, <2>3, <2>4
<1>9. already <= places
  <2>1. SUFFICES ASSUME places + 1 <= already
                 PROVE  FALSE
    BY <1>2
  <2>2. /\ (places + 1) * BlockSize <= already * BlockSize
        /\ (places + 1) * BlockSize \in Nat /\ already * BlockSize \in Nat
    <3>1. places + 1 \in Nat
      BY <1>2
    <3> QED BY <1>2, <2>1, <3>1, RoomGrows
  <2>3. (places + 1) * BlockSize = places * BlockSize + BlockSize
        /\ places * BlockSize \in Nat /\ BlockSize \in Nat \ {0}
    BY <1>2, CacheAssumption
  <2>4. already * BlockSize <= from /\ from <= places * BlockSize
    BY <1>1 DEF Front
  <2> QED BY <1>2, <2>2, <2>3, <2>4
<1>10. \A j \in DOMAIN row : row[j] \in Blocks /\ j \in Nat
  BY <1>2
\* A place that is published now had no hash, and no other table holds it.
<1>11. ASSUME NEW i \in pub
       PROVE  /\ taken.hash[row[i]] = NoKey
              /\ \A q \in Req \ {r} : row[i] \notin Elements(rows[q])
  <2>1. CASE i > places
    <3>1. row[i] \in fresh
      BY <1>1, <1>5, <2>1 DEF Grown
    <3> QED BY <1>2, <1>5, <1>8, <1>10, <3>1
  <2>2. CASE i <= places
    <3>1. /\ pool.hash[row[i]] # NoKey => i <= already
          /\ \A q \in Req \ {r} : \A j \in DOMAIN rows[q] :
               rows[q][j] = row[i] => i <= already
      BY <1>1, <1>5, <2>2 DEF Front
    <3>2. ~ (i <= already)
      BY <1>2, <1>5
    <3>3. \A q \in Req \ {r} : row[i] \notin Elements(rows[q])
      BY <3>1, <3>2 DEF Elements
    <3> QED BY <1>5, <1>8, <1>10, <3>1, <3>2, <3>3
  <2> QED BY <1>2, <1>5, <2>1, <2>2
<1>12. ASSUME NEW j \in DOMAIN row, j <= last
       PROVE  pool'.hash[row[j]] = BlockHash[r][j]
  <2>1. CASE j \in pub
    BY <1>6, <2>1
  <2>2. CASE j \notin pub
    <3>1. j <= already
      BY <1>2, <1>4, <1>10, <1>12, <2>2 DEF Published, Greater
    <3>2. j <= places
      BY <1>2, <1>9, <1>10, <3>1
    <3>3. row[j] \notin fresh
      <4>1. row[j] \in fresh => j > places
        BY <1>8
      <4> QED BY <1>2, <1>10, <3>2, <4>1
    <3>4. \A i \in pub : row[i] # row[j]
      BY <1>2, <1>5, <2>2 DEF Distinct
    <3>5. pool.hash[row[j]] = BlockHash[r][j]
      BY <1>1, <3>1, <3>2 DEF HeadPublished
    <3> QED BY <1>7, <1>10, <3>3, <3>4, <3>5
  <2> QED BY <2>1, <2>2
<1> HIDE DEF last
<1>13. ASSUME NEW q \in Req \ {r}, NEW j \in DOMAIN rows[q], j <= numCached[q]
       PROVE  pool'.hash[rows[q][j]] = BlockHash[q][j]
  <2>1. rows[q][j] \in Elements(rows[q]) /\ rows[q][j] \in Blocks
    <3>1. rows[q] \in Seq(Blocks)
      BY DEF TypeOK
    <3> QED BY <3>1 DEF Elements
  <2>2. \A i \in pub : row[i] # rows[q][j]
    BY <1>11, <2>1
  <2>3. rows[q][j] \notin fresh
    BY <1>2, <2>1
  <2>4. pool.hash[rows[q][j]] = BlockHash[q][j]
    BY <1>13 DEF RowsArePublished
  <2> QED BY <1>7, <2>1, <2>2, <2>3, <2>4
<1>14. RowsArePublished'
  BY <1>3, <1>12, <1>13 DEF RowsArePublished
<1>15. ASSUME NEW b \in Blocks, pool'.hash[b] # taken.hash[b]
       PROVE  taken.hash[b] = NoKey /\ taken.ref[b] > 0
  <2>1. PICK i \in pub : row[i] = b
    BY <1>7, <1>8, <1>15
  <2>2. taken.ref[row[i]] > 0
    BY <1>5, <1>8
  <2> QED BY <1>11, <2>1, <2>2
<1>16. Ordered(pool', TextLinks)
  <2> DEFINE q == pool'
  <2>1. q.free = taken.free /\ q.ref = taken.ref
    BY <1>8
  <2>2. \A b \in Blocks : q.hash[b] = taken.hash[b]
                            \/ (taken.hash[b] = NoKey /\ taken.ref[b] > 0)
    BY <1>15
  <2> HIDE DEF q
  <2>3. Ordered(q, TextLinks)
    BY <1>8, <2>1, <2>2, TextLinksType, HashingKeepsOrder
  <2> QED BY <2>3 DEF q
<1> QED BY <1>14, <1>16

\* In the reversed table the tail comes before the head.
LEMMA BackwardsOrder ==
  ASSUME NEW s \in Seq(Blocks), NEW j \in DOMAIN s, j >= 2
  PROVE  j - 1 \in DOMAIN s /\ Before(Backwards(s), s[j], s[j - 1])
<1> DEFINE n == Len(s)
           t == Backwards(s)
<1>1. n \in Nat /\ DOMAIN s = 1 .. n
  OBVIOUS
<1>2. t = [i \in 1 .. n |-> s[n - i + 1]]
  BY DEF Backwards
<1> HIDE DEF n, t
<1>3. /\ j - 1 \in 1 .. n /\ n - j + 1 \in 1 .. n /\ n - j + 2 \in 1 .. n
      /\ n - (n - j + 1) + 1 = j /\ n - (n - j + 2) + 1 = j - 1
      /\ n - j + 1 < n - j + 2
  BY <1>1
<1>4. DOMAIN t = 1 .. n /\ t[n - j + 1] = s[j] /\ t[n - j + 2] = s[j - 1]
  BY <1>2, <1>3
<1>5. Before(t, s[j], s[j - 1])
  BY <1>3, <1>4 DEF Before
<1> QED BY <1>1, <1>3, <1>5 DEF t

\* A table is given back, its tail first, whose first `last` places are cached
\* and no other.
LEMMA FreeRowKeepsOrder ==
  ASSUME IInv, NEW r \in Req, NEW p, PoolInv(p), p.ref = pool.ref,
         FreeRow(p, r), Ordered(p, TextLinks), NEW last \in Nat,
         last * BlockSize <= computed[r],
         \A j \in DOMAIN rows[r] : p.hash[rows[r][j]] # NoKey =>
           j <= last /\ p.hash[rows[r][j]] = BlockHash[r][j],
         \A j \in DOMAIN rows[r] : j <= last => p.hash[rows[r][j]] = BlockHash[r][j],
         \A q \in Req \ {r} : \A j \in DOMAIN rows[q] :
           j <= numCached[q] => p.hash[rows[q][j]] = BlockHash[q][j]
  PROVE  RowsArePublished' /\ Ordered(pool', TextLinks)
<1> DEFINE row == rows[r]
           back == Backwards(row)
<1>1. /\ pool' = FreeBlocks(p, back)
      /\ rows' = [rows EXCEPT ![r] = << >>]
      /\ numCached' = [numCached EXCEPT ![r] = 0]
  BY DEF FreeRow
<1>2. /\ TypeOK /\ RefExact /\ row \in Seq(Blocks) /\ Distinct(row)
      /\ NullBlock \notin Elements(row)
      /\ \A b \in Blocks : pool.ref[b] \in Nat
  BY DEF IInv, TypeOK, RefExact, PoolConsistent, PoolInv, PoolType
<1>3. back \in Seq(Blocks) /\ Distinct(back) /\ Elements(back) = Elements(row)
  BY <1>2, BackwardsElements
<1>4. /\ rows'[r] = << >> /\ numCached'[r] = 0
      /\ \A q \in Req \ {r} : rows'[q] = rows[q] /\ numCached'[q] = numCached[q]
  BY <1>1, <1>2 DEF TypeOK
<1>5. last <= MaxBlocks /\ MaxBlocks \in Nat
  BY PublishedPlaces, TextHashes
<1>6. \A b \in Elements(back) : b # NullBlock /\ p.ref[b] >= 1
  <2>1. Elements(row) \subseteq Blocks
    BY <1>2 DEF Elements
  <2>2. \A b \in Elements(row) : pool.ref[b] >= 1
    BY <1>2, <2>1, HeldIsReferenced
  <2> QED BY <1>2, <1>3, <2>2
<1>7. ASSUME NEW b \in Elements(back), NEW k \in Keys, <<k, p.hash[b]>> \in TextLinks
      PROVE  \E c \in Blocks : p.hash[c] = k /\ Before(back, b, c)
  <2>1. PICK j \in DOMAIN row : b = row[j]
    BY <1>3 DEF Elements
  <2>2. p.hash[b] # NoKey
    BY <1>7, TextLinksType, PoolAssumption
  <2>3. j <= last /\ p.hash[b] = BlockHash[r][j] /\ j \in 1 .. MaxBlocks
    <3>1. j \in Nat \ {0}
      BY <1>2
    <3>2. j <= last /\ p.hash[b] = BlockHash[r][j]
      BY <2>1, <2>2
    <3> QED BY <1>5, <3>1, <3>2
  <2>4. j - 1 \in 1 .. MaxBlocks /\ k = BlockHash[r][j - 1]
    BY <1>7, <2>3, LinkToPlace
  <2>5. j - 1 \in DOMAIN row /\ Before(back, b, row[j - 1])
    <3>1. j >= 2
      BY <1>5, <2>3, <2>4
    <3> QED BY <1>2, <2>1, <3>1, BackwardsOrder
  <2>6. p.hash[row[j - 1]] = k
    <3>1. j - 1 <= last
      BY <2>3
    <3> QED BY <2>4, <2>5, <3>1
  <2>7. row[j - 1] \in Blocks
    BY <1>2, <2>5
  <2> QED BY <2>5, <2>6, <2>7
<1>8. pool'.hash = p.hash
  <2>1. \A b \in Elements(back) \ {NullBlock} : p.ref[b] >= 1
    BY <1>6
  <2> HIDE DEF back
  <2> QED BY <1>1, <1>3, <2>1, FreeBlocksInv
<1>9. Ordered(pool', TextLinks)
  <2>1. \A b \in Elements(back) : \A k \in Keys : <<k, p.hash[b]>> \in TextLinks =>
          \E c \in Blocks : p.hash[c] = k /\ Before(back, b, c)
    BY <1>7
  <2> HIDE DEF back
  <2>2. Ordered(FreeBlocks(p, back), TextLinks)
    BY <1>3, <1>6, <2>1, TextLinksType, FreeBlocksKeepsOrder
  <2> QED BY <1>1, <2>2
<1>10. RowsArePublished'
  <2>1. DOMAIN << >> = {}
    OBVIOUS
  <2> QED BY <1>4, <1>8, <2>1 DEF RowsArePublished
<1> QED BY <1>9, <1>10

\* Publishing the final tokens of r keeps the order, and what counts as
\* published is in the cache.
LEMMA FinalTokensOrder ==
  ASSUME IInv, TextInv, RowsArePublished, Ordered(pool, TextLinks), NEW r \in Req,
         InFlight(r) > 0, NEW p, p = WithFinalTokens(r)
  PROVE  /\ Ordered(p, TextLinks) /\ p.free = pool.free
         /\ \A j \in DOMAIN rows[r] : j <= Published(numCached[r], numTokens[r]) =>
              p.hash[rows[r][j]] = BlockHash[r][j]
         /\ \A q \in Req \ {r} : \A j \in DOMAIN rows[q] :
              j <= numCached[q] => p.hash[rows[q][j]] = BlockHash[q][j]
<1>1. PoolInv(pool) /\ RefExact /\ rows[r] \in Seq(Blocks)
  BY DEF IInv, PoolConsistent, TypeOK
<1>2. p.ref = pool.ref
  BY FinalTokensKeep
<1>3. p.free = pool.free
  BY FinalTokensHashes
<1>4. \A b \in Blocks : p.hash[b] = pool.hash[b]
                          \/ (pool.hash[b] = NoKey /\ b \in Elements(rows[r]))
  BY FinalTokensHashes
<1>5. \A q \in Req \ {r} : \A j \in DOMAIN rows[q] :
        p.hash[rows[q][j]] = pool.hash[rows[q][j]]
  BY FinalTokensHashes
<1>6. \A j \in DOMAIN rows[r] : j <= Published(numCached[r], numTokens[r]) =>
        \/ p.hash[rows[r][j]] = BlockHash[r][j]
        \/ j <= numCached[r] /\ p.hash[rows[r][j]] = pool.hash[rows[r][j]]
  BY FinalTokensHashes
<1>7. \A b \in Elements(rows[r]) : b \in Blocks /\ pool.ref[b] > 0
  <2>1. \A b \in Elements(rows[r]) : b \in Blocks
    BY <1>1 DEF Elements
  <2>2. \A b \in Elements(rows[r]) : pool.ref[b] \in Nat
    BY <1>1, <2>1 DEF PoolInv, PoolType
  <2>3. \A b \in Elements(rows[r]) : pool.ref[b] >= 1
    BY <1>1, <2>1, <2>2, HeldIsReferenced
  <2> QED BY <2>1, <2>2, <2>3
<1>8. \A b \in Blocks : p.hash[b] = pool.hash[b]
                          \/ (pool.hash[b] = NoKey /\ pool.ref[b] > 0)
  BY <1>4, <1>7
<1>9. Ordered(p, TextLinks)
  BY <1>1, <1>2, <1>3, <1>8, TextLinksType, HashingKeepsOrder
<1>10. \A j \in DOMAIN rows[r] : j <= Published(numCached[r], numTokens[r]) =>
         p.hash[rows[r][j]] = BlockHash[r][j]
  BY <1>6 DEF RowsArePublished
<1>11. \A q \in Req \ {r} : \A j \in DOMAIN rows[q] :
         j <= numCached[q] => p.hash[rows[q][j]] = BlockHash[q][j]
  BY <1>5 DEF RowsArePublished
<1> QED BY <1>3, <1>9, <1>10, <1>11

\* The three ways a table is given back, in order.
LEMMA FreeingKeepsOrder ==
  ASSUME IInv, TextInv, RowsArePublished, Ordered(pool, TextLinks), NEW r \in Req,
         (\E late \in 0 .. Ahead + 1 : Preempt(r, late)) \/ Stop(r) \/ Abort(r)
  PROVE  RowsArePublished' /\ Ordered(pool', TextLinks)
<1>1. PoolInv(pool) /\ TypeOK /\ numCached[r] \in Nat
  BY DEF IInv, PoolConsistent, TypeOK
<1>2. ASSUME FreeRow(pool, r)
      PROVE  RowsArePublished' /\ Ordered(pool', TextLinks)
  <2> DEFINE last == numCached[r]
             p == pool
  <2>1. /\ last \in Nat /\ last * BlockSize <= computed[r]
        /\ PoolInv(p) /\ p.ref = pool.ref /\ FreeRow(p, r) /\ Ordered(p, TextLinks)
    BY <1>1, <1>2 DEF TextInv, PublishedIsComputed
  <2>2. \A j \in DOMAIN rows[r] : p.hash[rows[r][j]] # NoKey =>
          j <= last /\ p.hash[rows[r][j]] = BlockHash[r][j]
    BY DEF TextInv, RowHashes
  <2>3. \A j \in DOMAIN rows[r] : j <= last => p.hash[rows[r][j]] = BlockHash[r][j]
    BY DEF RowsArePublished
  <2>4. \A q \in Req \ {r} : \A j \in DOMAIN rows[q] :
          j <= numCached[q] => p.hash[rows[q][j]] = BlockHash[q][j]
    BY DEF RowsArePublished
  <2> HIDE DEF last, p
  <2> QED BY <2>1, <2>2, <2>3, <2>4, FreeRowKeepsOrder
<1>3. CASE (\E late \in 0 .. Ahead + 1 : Preempt(r, late)) \/ Abort(r)
  BY <1>2, <1>3 DEF Preempt, Abort
<1>4. CASE Stop(r)
  <2> DEFINE last == Published(numCached[r], numTokens[r])
             p == WithFinalTokens(r)
  <2>1. InFlight(r) > 0 /\ FreeRow(p, r)
    BY <1>4 DEF Stop
  <2>2. PoolInv(p) /\ p.ref = pool.ref
    BY <2>1, FinalTokensKeep
  <2>3. p = WithFinalTokens(r)
    OBVIOUS
  <2> HIDE DEF p
  <2>4. /\ last \in Nat /\ last * BlockSize <= computed[r]
    BY <2>1, <2>3, FinalTokensHashes
  <2>5. Ordered(p, TextLinks) /\ p.free = pool.free
    BY <1>1, <2>1, <2>2, <2>3, FinalTokensOrder
  <2>6. \A j \in DOMAIN rows[r] : p.hash[rows[r][j]] # NoKey =>
          j <= last /\ p.hash[rows[r][j]] = BlockHash[r][j]
    BY <2>1, <2>3, FinalTokensHashes
  <2>7. \A j \in DOMAIN rows[r] : j <= last => p.hash[rows[r][j]] = BlockHash[r][j]
    BY <2>1, <2>3, FinalTokensOrder
  <2>8. \A q \in Req \ {r} : \A j \in DOMAIN rows[q] :
          j <= numCached[q] => p.hash[rows[q][j]] = BlockHash[q][j]
    BY <2>1, <2>3, FinalTokensOrder
  <2> HIDE DEF last
  <2> QED BY <2>1, <2>2, <2>4, <2>5, <2>6, <2>7, <2>8, FreeRowKeepsOrder
<1> QED BY <1>3, <1>4

\* A sampled token publishes in order.
LEMMA SampledKeepsOrder ==
  ASSUME IInv, TextInv, RowsArePublished, Ordered(pool, TextLinks), NEW r \in Req,
         Sampled(r)
  PROVE  RowsArePublished' /\ Ordered(pool', TextLinks)
<1> DEFINE last == Published(numCached[r], numTokens[r])
           p == pool'
<1>1. /\ InFlight(r) > 0 /\ p = WithFinalTokens(r)
      /\ numCached' = [numCached EXCEPT ![r] = last]
      /\ rows' = rows
  BY DEF Sampled
<1>2. TypeOK
  BY DEF IInv
<1>3. /\ numCached'[r] = last
      /\ \A q \in Req \ {r} : numCached'[q] = numCached[q]
  BY <1>1, <1>2 DEF TypeOK
<1> HIDE DEF p
<1>4. Ordered(p, TextLinks)
  BY <1>1, FinalTokensOrder
<1>5. \A j \in DOMAIN rows[r] : j <= last => p.hash[rows[r][j]] = BlockHash[r][j]
  BY <1>1, FinalTokensOrder
<1>6. \A q \in Req \ {r} : \A j \in DOMAIN rows[q] :
        j <= numCached[q] => p.hash[rows[q][j]] = BlockHash[q][j]
  BY <1>1, FinalTokensOrder
<1> HIDE DEF last
<1>7. RowsArePublished'
  BY <1>1, <1>3, <1>5, <1>6 DEF RowsArePublished, p
<1> QED BY <1>4, <1>7 DEF p

\* The prefix cache is reset only while no table is in use.
LEMMA ResetFindsNoTable ==
  ASSUME IInv, CanResetPrefixCache(pool), NEW r \in Req
  PROVE  rows[r] = << >>
<1>1. /\ PoolInv(pool) /\ RefExact /\ rows[r] \in Seq(Blocks)
      /\ NullBlock \notin Elements(rows[r])
  BY DEF IInv, PoolConsistent, TypeOK, RefExact
<1>2. /\ pool.free \in Seq(Blocks) /\ Distinct(pool.free)
      /\ pool.numFree = Len(pool.free)
      /\ Elements(pool.free) = {b \in RealBlocks : pool.ref[b] = 0}
  BY <1>1 DEF PoolInv, PoolType, QueueExact
<1>3. Cardinality(Elements(pool.free)) = NumBlocks - 1
  <2> DEFINE f == pool.free
  <2>1. f \in Seq(Blocks) /\ Distinct(f)
    BY <1>2
  <2> HIDE DEF f
  <2>2. Cardinality(Elements(f)) = Len(f) /\ Len(f) \in Nat
    BY <2>1, DistinctLen
  <2>3. Cardinality(Elements(pool.free)) = Len(pool.free) /\ Len(pool.free) \in Nat
    BY <2>2 DEF f
  <2> QED BY <1>2, <2>3, BlockNumbers DEF CanResetPrefixCache
<1>4. IsFiniteSet(RealBlocks) /\ Cardinality(RealBlocks) = NumBlocks - 1
  <2>1. RealBlocks = 1 .. NumBlocks - 1 /\ NumBlocks - 1 \in Nat
    BY BlockNumbers DEF RealBlocks, Blocks, NullBlock
  <2> QED BY <2>1, FS_Interval
<1>5. Elements(pool.free) = RealBlocks
  <2>1. Elements(pool.free) \in SUBSET RealBlocks
    BY <1>2
  <2> QED BY <1>3, <1>4, <2>1, FS_Subset
<1>6. SUFFICES ASSUME NEW j \in DOMAIN rows[r]
               PROVE  FALSE
  <2>1. rows[r] = << >> \/ \E j : j \in DOMAIN rows[r]
    <3>1. Len(rows[r]) \in Nat /\ DOMAIN rows[r] = 1 .. Len(rows[r])
      BY <1>1
    <3>2. CASE Len(rows[r]) = 0
      BY <1>1, <3>2
    <3>3. CASE Len(rows[r]) # 0
      <4>1. 1 \in DOMAIN rows[r]
        BY <3>1, <3>3
      <4> QED BY <4>1
    <3> QED BY <3>2, <3>3
  <2> QED BY <2>1
<1>7. rows[r][j] \in Elements(rows[r]) /\ rows[r][j] \in Blocks
  BY <1>1 DEF Elements
<1>8. pool.ref[rows[r][j]] = 0
  BY <1>1, <1>2, <1>5, <1>7, BlockNumbers
<1> QED BY <1>1, <1>7, <1>8, IdleIsUnheld

\* An empty cache is ordered.
LEMMA UnhashedIsOrdered ==
  ASSUME NEW p, \A b \in Blocks : p.hash[b] = NoKey
  PROVE  Ordered(p, TextLinks)
BY PoolAssumption, TextLinksType DEF Ordered

LEMMA InitOrder == Init => OrderInv
<1> SUFFICES ASSUME Init
             PROVE  OrderInv
  OBVIOUS
<1>1. \A b \in Blocks : pool.hash[b] = NoKey
  BY DEF Init, NewPool
<1>2. \A r \in Req : rows[r] = << >>
  BY DEF Init
<1>3. RowsArePublished
  BY <1>2 DEF RowsArePublished
<1> QED BY <1>1, <1>3, UnhashedIsOrdered DEF OrderInv

\* No handler breaks the order.
LEMMA OrderInductive ==
  IInv /\ TextInv /\ OrderInv /\ TypeOK' /\ [Next]_vars => OrderInv'
<1> SUFFICES ASSUME IInv, TextInv, OrderInv, TypeOK', [Next]_vars, evictions' = 0
             PROVE  RowsArePublished' /\ Ordered(pool', TextLinks)
  BY DEF OrderInv
<1>1. TypeOK /\ PoolInv(pool)
  BY DEF IInv, PoolConsistent
<1>2. ASSUME evictions = 0
      PROVE  RowsArePublished /\ Ordered(pool, TextLinks)
  BY <1>2 DEF OrderInv
<1>3. CASE UNCHANGED vars
  BY <1>2, <1>3 DEF vars, RowsArePublished
<1>4. ASSUME NEW r \in Req, NEW n \in 1 .. MaxLen, Admit(r, n) \/ Extend(r, n)
      PROVE  RowsArePublished' /\ Ordered(pool', TextLinks)
  <2>1. PICK row, places, fresh, taken, from, to, already, final :
          Allocated(r, row, places, fresh, taken, from, to, already, final)
    BY <1>4, AdmitAllocates, ExtendAllocates
  <2>2. evictions = 0
    BY <1>4 DEF Admit, Extend, AllocateSlots
  <2> QED BY <1>1, <1>2, <2>1, <2>2, AllocatedKeepsOrder
<1>5. ASSUME NEW r \in Req, Sampled(r)
      PROVE  RowsArePublished' /\ Ordered(pool', TextLinks)
  <2>1. evictions = 0
    BY <1>5 DEF Sampled
  <2> QED BY <1>2, <1>5, <2>1, SampledKeepsOrder
<1>6. ASSUME NEW r \in Req,
             (\E late \in 0 .. Ahead + 1 : Preempt(r, late)) \/ Stop(r) \/ Abort(r)
      PROVE  RowsArePublished' /\ Ordered(pool', TextLinks)
  <2>1. evictions = 0
    BY <1>6 DEF Preempt, Stop, Abort, FreeRow
  <2> QED BY <1>2, <1>6, <2>1, FreeingKeepsOrder
<1>7. ASSUME NEW S \in SUBSET Blocks, Evict(S)
      PROVE  FALSE
  BY <1>1, <1>7 DEF Evict, TypeOK
<1>8. CASE Reset
  <2>1. CanResetPrefixCache(pool) /\ pool' = ResetPrefixCache(pool) /\ rows' = rows
    BY <1>8 DEF Reset
  <2>2. \A b \in Blocks : pool'.hash[b] = NoKey
    BY <1>1, <2>1, ResetPrefixCacheInv
  <2>3. \A r \in Req : rows'[r] = << >>
    BY <2>1, ResetFindsNoTable
  <2>4. RowsArePublished'
    BY <2>3 DEF RowsArePublished
  <2> QED BY <2>2, <2>4, UnhashedIsOrdered
<1> QED BY <1>3, <1>4, <1>5, <1>6, <1>7, <1>8 DEF Next

\* A cache that is ordered has no holes: the block before a cached one is in
\* use with it, or waits behind it.
LEMMA OrderedIsClosed ==
  IInv /\ TextInv /\ OrderInv => ReuseOrder
<1> SUFFICES ASSUME IInv, TextInv, OrderInv, evictions = 0
             PROVE  /\ \A r \in Req : \A i \in 2 .. MaxBlocks :
                         IsCached(pool, BlockHash[r][i]) =>
                           IsCached(pool, BlockHash[r][i - 1])
                    /\ \A i, j \in DOMAIN pool.free :
                         i < j /\ pool.hash[pool.free[j]] = NoKey =>
                           pool.hash[pool.free[i]] = NoKey
  BY DEF ReuseOrder, PrefixClosed, UnhashedFirst
<1>1. /\ PoolInv(pool) /\ RefExact /\ TypeOK
      /\ RowsArePublished /\ Ordered(pool, TextLinks)
  BY DEF IInv, PoolConsistent, OrderInv
<1>2. MaxBlocks \in Nat
  <2>1. 0 \in 0 .. MaxLen - 1
    BY CacheAssumption
  <2> QED BY <2>1, BlockCounts
<1>3. ASSUME NEW k \in Keys
      PROVE  IsCached(pool, k) <=> \E b \in Blocks : pool.hash[b] = k
  <2>1. /\ pool.index[k] \in Seq(Blocks)
        /\ Elements(pool.index[k]) = {b \in Blocks : pool.hash[b] = k}
    BY <1>1 DEF PoolInv, PoolType, IndexExact
  <2>2. pool.index[k] # << >> => 1 \in DOMAIN pool.index[k]
    BY <2>1
  <2>3. pool.index[k] # << >> => pool.index[k][1] \in Elements(pool.index[k])
    BY <2>2 DEF Elements
  <2>4. pool.index[k] = << >> => Elements(pool.index[k]) = {}
    BY DEF Elements
  <2> QED BY <2>1, <2>3, <2>4 DEF IsCached
<1>4. ASSUME NEW r \in Req, NEW i \in 2 .. MaxBlocks, IsCached(pool, BlockHash[r][i])
      PROVE  IsCached(pool, BlockHash[r][i - 1])
  <2>1. /\ i \in 1 .. MaxBlocks /\ i - 1 \in 1 .. MaxBlocks /\ i - 1 \in 1 .. i
        /\ BlockHash[r][i] \in Keys /\ BlockHash[r][i - 1] \in Keys
    <3>1. i \in 1 .. MaxBlocks /\ i - 1 \in 1 .. MaxBlocks /\ i - 1 \in 1 .. i
      BY <1>2
    <3> QED BY <3>1, CacheAssumption
  <2>2. PICK b \in Blocks : pool.hash[b] = BlockHash[r][i]
    BY <1>3, <1>4, <2>1
  <2>3. <<BlockHash[r][i - 1], pool.hash[b]>> \in TextLinks
    BY <2>1, <2>2 DEF TextLinks
  <2>4. CASE pool.ref[b] = 0
    <3>1. Anchored(pool, b, BlockHash[r][i - 1])
      BY <1>1, <2>1, <2>3, <2>4 DEF Ordered
    <3> QED BY <1>3, <2>1, <3>1 DEF Anchored
  <2>5. CASE pool.ref[b] # 0
    <3>1. PICK q \in Req : b \in Elements(rows[q])
      <4>1. Holders(b) # {}
        BY <1>1, <2>5, FS_EmptySet DEF RefExact
      <4> QED BY <4>1 DEF Holders
    <3>2. PICK j \in DOMAIN rows[q] : rows[q][j] = b
      BY <3>1 DEF Elements
    <3>3. rows[q] \in Seq(Blocks) /\ numCached[q] \in Nat
      BY <1>1 DEF TypeOK
    <3>4. j <= numCached[q] /\ pool.hash[b] = BlockHash[q][j]
      BY <2>1, <2>2, <3>2, PoolAssumption DEF TextInv, RowHashes
    <3>5. j \in 1 .. MaxBlocks
      <4>1. numCached[q] <= MaxBlocks
        BY <3>3, PublishedPlaces DEF TextInv, PublishedIsComputed
      <4> QED BY <1>2, <3>2, <3>3, <3>4, <4>1
    <3>6. i = j /\ BlockHash[r][i - 1] = BlockHash[q][i - 1]
      <4>1. ChainedHashes /\ BlockHash[r][i] = BlockHash[q][j]
        BY <2>2, <3>4, CacheAssumption
      <4>2. i = j /\ \A m \in 1 .. i : BlockHash[r][m] = BlockHash[q][m]
        BY <2>1, <3>5, <4>1 DEF ChainedHashes
      <4> QED BY <2>1, <4>2
    <3>7. i - 1 \in DOMAIN rows[q] /\ i - 1 <= numCached[q]
      BY <1>2, <3>2, <3>3, <3>4, <3>6
    <3>8. pool.hash[rows[q][i - 1]] = BlockHash[r][i - 1] /\ rows[q][i - 1] \in Blocks
      BY <1>1, <3>3, <3>6, <3>7 DEF RowsArePublished
    <3> QED BY <1>3, <2>1, <3>8
  <2> QED BY <2>4, <2>5
<1>5. ASSUME NEW i \in DOMAIN pool.free, NEW j \in DOMAIN pool.free, i < j,
             pool.hash[pool.free[j]] = NoKey
      PROVE  pool.hash[pool.free[i]] = NoKey
  <2>1. pool.free[i] \in Blocks /\ pool.free[j] \in Blocks
    BY <1>1 DEF PoolInv, PoolType
  <2>2. Before(pool.free, pool.free[i], pool.free[j])
    BY <1>5 DEF Before
  <2> QED BY <1>1, <1>5, <2>1, <2>2 DEF Ordered
<1> QED BY <1>4, <1>5

\* Until blocks are evicted out of band the cache never has a hole, and no
\* cached block is reused while a block that serves no hit is free: whatever
\* is shared, preempted, stopped or aborted, in whatever order.
THEOREM ReuseStaysOrdered == Spec => []ReuseOrder
<1>1. Init => IInv /\ TextInv /\ OrderInv
  BY InitHolds, InitText, InitOrder
<1>2. IInv /\ TextInv /\ OrderInv /\ [Next]_vars => IInv' /\ TextInv' /\ OrderInv'
  <2>1. IInv' => TypeOK'
    BY DEF IInv
  <2> QED BY <2>1, Inductive, TextInductive, OrderInductive
<1> QED BY <1>1, <1>2, OrderedIsClosed, PTL DEF Spec

==============================================================================
