------------------------------ MODULE BlockPool ------------------------------
(***************************************************************************)
(* The block pool of the KV-cache allocator (vtl-sched/src/block_pool.rs): *)
(* the arena of blocks with its eviction queue, and the prefix-cache index *)
(* from a block hash to the blocks that hold it.                           *)
(*                                                                         *)
(* The module has no variables: a pool is a record, and every method of    *)
(* the code that changes the pool is an operator from a pool to a pool.    *)
(* The modules that own a pool (FullAttentionCache and its successors)     *)
(* compose the operators into the steps of their handlers.                 *)
(*                                                                         *)
(*   free     the free queue, front first: the order blocks are reused in  *)
(*   numFree  num_free_blocks, the counter the code keeps beside the queue *)
(*   ref      ref_cnt of every block                                       *)
(*   hash     the hash a block is cached under, NoKey if none              *)
(*   index    for every hash the blocks cached under it, oldest first      *)
(*                                                                         *)
(* Abstracted: the queue is the doubly linked list threaded through the    *)
(* arena, so unlinking is removal from a sequence; an index entry One(b)   *)
(* is <<b>>; a HashKey is a member of Keys.  enable_caching is TRUE: when  *)
(* it is FALSE nothing is ever hashed and every clause about hashes is     *)
(* vacuous.  Secondary hashes (cached_by_block) are left out, because only *)
(* cache_partial_block creates one and nothing in the engine calls it.     *)
(***************************************************************************)
EXTENDS Integers, Sequences, FiniteSets

CONSTANTS NumBlocks,  \* num_gpu_blocks
          Keys,       \* the block hashes that occur
          NoKey       \* hash = None

ASSUME PoolAssumption == /\ NumBlocks \in Nat \ {0}
                         /\ NoKey \notin Keys

Blocks == 0 .. NumBlocks - 1

\* The placeholder block, popped out of the queue when the pool is built.
NullBlock == 0

RealBlocks == Blocks \ {NullBlock}

Elements(s) == {s[i] : i \in DOMAIN s}

Distinct(s) == \A i, j \in DOMAIN s : s[i] = s[j] => i = j

\* The elements of s that belong to S, in their order in s.  This is
\* SelectSeq(s, LAMBDA x : x \in S) in closed form: position k of the result
\* is the position of s with exactly k kept positions up to it.
Keep(s, S) ==
  LET pos    == {i \in DOMAIN s : s[i] \in S}
      upTo(i) == {j \in pos : j <= i}
  IN  [k \in 1 .. Cardinality(pos) |->
         s[CHOOSE i \in pos : Cardinality(upTo(i)) = k]]

Drop(s, S) == Keep(s, Elements(s) \ S)

------------------------------------------------------------------------------
PoolType ==
  [ free    : Seq(Blocks),
    numFree : Nat,
    ref     : [Blocks -> Nat],
    hash    : [Blocks -> Keys \cup {NoKey}],
    index   : [Keys -> Seq(Blocks)] ]

\* BlockPool::new
NewPool ==
  [ free    |-> [i \in 1 .. NumBlocks - 1 |-> i],
    numFree |-> NumBlocks - 1,
    ref     |-> [b \in Blocks |-> 0],
    hash    |-> [b \in Blocks |-> NoKey],
    index   |-> [k \in Keys |-> << >>] ]

\* remove_cached_block_hashes, for every block of S.
ForgetHashes(p, S) ==
  [p EXCEPT !.hash  = [b \in Blocks |-> IF b \in S THEN NoKey ELSE p.hash[b]],
            !.index = [k \in Keys |->
                         Drop(p.index[k], {b \in S : p.hash[b] = k})]]

\* maybe_evict_cached_block over a list: evict_blocks.
EvictBlocks(p, S) == ForgetHashes(p, S)

\* get_one_block and get_cached_block for one group.
IsCached(p, k) == p.index[k] # << >>
GetCachedBlock(p, k) == p.index[k][1]

\* block_still_cached_as: both halves, the block's own hash and the index.
BlockStillCachedAs(p, b, k) == p.hash[b] = k /\ b \in Elements(p.index[k])

\* Mutant: blocks are handed out still hashed.
GetNewBlocksKeepsHashes(p, n) ==
  LET got == Elements(SubSeq(p.free, 1, n))
  IN  [p EXCEPT
         !.free    = SubSeq(p.free, n + 1, Len(p.free)),
         !.numFree = p.numFree - n,
         !.ref     = [b \in Blocks |->
                        IF b \in got THEN p.ref[b] + 1 ELSE p.ref[b]]]

\* get_new_blocks: refused when the counter says there are too few; otherwise
\* the first n blocks leave the queue, lose their hashes and are referenced.
CanGetNewBlocks(p, n) == n <= p.numFree
NewBlocks(p, n) == SubSeq(p.free, 1, n)
GetNewBlocks(p, n) ==
  LET got == Elements(NewBlocks(p, n))
  IN  [ForgetHashes(p, got) EXCEPT
         !.free    = SubSeq(p.free, n + 1, Len(p.free)),
         !.numFree = p.numFree - n,
         !.ref     = [b \in Blocks |->
                        IF b \in got THEN p.ref[b] + 1 ELSE p.ref[b]]]

\* Mutant: a hit block stays in the queue.
TouchLeavesQueued(p, S) ==
  [p EXCEPT !.ref = [b \in Blocks |-> IF b \in S \ {NullBlock}
                                      THEN p.ref[b] + 1 ELSE p.ref[b]]]

\* Mutant: a hit counts a reference only to a block that was idle.
TouchCountsIdle(p, S) ==
  LET evictable == {b \in S \ {NullBlock} : p.ref[b] = 0}
  IN  [p EXCEPT
         !.free    = Drop(p.free, evictable),
         !.numFree = p.numFree - Cardinality(evictable),
         !.ref     = [b \in Blocks |->
                        IF b \in evictable THEN 1 ELSE p.ref[b]]]

\* touch: a block nobody references is unlinked from the queue first.  The
\* null block is skipped.
Touch(p, S) ==
  LET real     == S \ {NullBlock}
      evictable == {b \in real : p.ref[b] = 0}
  IN  [p EXCEPT
         !.free    = Drop(p.free, evictable),
         !.numFree = p.numFree - Cardinality(evictable),
         !.ref     = [b \in Blocks |->
                        IF b \in real THEN p.ref[b] + 1 ELSE p.ref[b]]]

\* free_blocks: a block whose last reference goes is queued, in front if it
\* has no hash (it can serve no hit), at the back if it has one.
FreeBlocks(p, ordered) ==
  LET freed    == Elements(ordered) \ {NullBlock}
      released == {b \in freed : p.ref[b] = 1}
      hashed   == {b \in released : p.hash[b] # NoKey}
  IN  [p EXCEPT
         !.free    = Keep(ordered, released \ hashed)
                       \o p.free \o Keep(ordered, hashed),
         !.numFree = p.numFree + Cardinality(released),
         !.ref     = [b \in Blocks |->
                        IF b \in freed THEN p.ref[b] - 1 ELSE p.ref[b]]]

\* cache_full_blocks: blocks first+1..last of the row are cached under the
\* hashes of the same positions.  A hash the block has already is removed
\* first; the null block is skipped.
CacheFullBlocks(p, row, hashes, first, last) ==
  LET todo    == {i \in first + 1 .. last : row[i] # NullBlock}
      cached  == {row[i] : i \in todo}
      cleared == ForgetHashes(p, cached)
      at(b)   == CHOOSE i \in todo : row[i] = b
      under(k) == {i \in todo : hashes[i] = k}
  IN  [cleared EXCEPT
         !.hash  = [b \in Blocks |->
                      IF b \in cached THEN hashes[at(b)] ELSE p.hash[b]],
         !.index = [k \in Keys |->
                      IF under(k) = {} THEN cleared.index[k]
                      ELSE Append(cleared.index[k],
                                  row[CHOOSE i \in under(k) : TRUE])]]

\* reset_prefix_cache: refused unless only the null block is in use.
CanResetPrefixCache(p) == NumBlocks - p.numFree = 1
ResetPrefixCache(p) ==
  [p EXCEPT !.hash  = [b \in Blocks |-> NoKey],
            !.index = [k \in Keys |-> << >>]]

------------------------------------------------------------------------------
(***************************************************************************)
(* What must hold of a pool between two calls.                             *)
(***************************************************************************)

\* The queue holds every unreferenced block once and no other, and the
\* counter is its length: no block is lost, queued twice or queued in use.
QueueExact(p) ==
  /\ Distinct(p.free)
  /\ Elements(p.free) = {b \in RealBlocks : p.ref[b] = 0}
  /\ p.numFree = Len(p.free)
  /\ p.ref[NullBlock] = 0

\* Index and block agree on what the block is cached under: the index never
\* answers with a block that was evicted or re-hashed, and never loses one.
IndexExact(p) ==
  /\ \A k \in Keys :
       /\ Distinct(p.index[k])
       /\ Elements(p.index[k]) = {b \in Blocks : p.hash[b] = k}
  /\ p.hash[NullBlock] = NoKey

PoolInv(p) == p \in PoolType /\ QueueExact(p) /\ IndexExact(p)
==============================================================================
