-------------------------- MODULE FullAttentionCache --------------------------
(***************************************************************************)
(* The KV-cache manager of an engine with one full-attention group and no  *)
(* connector: Manager::allocate_slots (manager.rs) with the Coordinator's  *)
(* unitary arm and the Kind::FullAttention arms of TypeManager, over the   *)
(* pool of module BlockPool.                                               *)
(*                                                                         *)
(* The scheduling loop is left open: any request may be scheduled,         *)
(* preempted, stopped or aborted at any moment, for any number of tokens   *)
(* the loop could pass, so what is shown here holds for every policy.      *)
(*                                                                         *)
(*   pool       the block pool                                             *)
(*   rows       req_to_blocks: the block table of every request            *)
(*   numCached  num_cached_block, 0 for "no entry"                         *)
(*   numTokens  num_tokens: prompt and finalized output                    *)
(*   computed   num_computed_tokens: tokens whose KV has been scheduled    *)
(*   kv         what the model runner has written into each block: the     *)
(*              first `filled` tokens of the block of text named by `key`  *)
(*   evictions  calls of evict_blocks, to bound them                       *)
(*                                                                         *)
(* A request has a row exactly while it is running; a waiting one is new   *)
(* or preempted.  Preemption keeps numTokens, the end of a request gives   *)
(* its id to one with the same prompt.  Steps run on the device in the      *)
(* order they are scheduled, so a step's writes are part of scheduling it, *)
(* and a write left in flight by a request that was freed lands before the *)
(* next owner's.                                                           *)
(***************************************************************************)
EXTENDS BlockPool

CONSTANTS Req,           \* the requests
          BlockSize,     \* tokens per block, also the hash granularity
          MaxLen,        \* max_model_len
          PromptLen,     \* PromptLen[r]: tokens of r's prompt
          BlockHash,     \* BlockHash[r][i]: hash of the i-th block of r's text
          Ahead,         \* placeholders an asynchronous step may schedule past
          Lookahead,     \* num_lookahead_tokens
          Watermark,     \* watermark_blocks
          MaxEvictions   \* bound on evict_blocks calls

Lesser(a, b) == IF a <= b THEN a ELSE b
Greater(a, b) == IF a >= b THEN a ELSE b
CeilDiv(a, b) == (a + b - 1) \div b

MaxBlocks == CeilDiv(MaxLen, BlockSize)

\* A block hash covers the whole text up to its block (hash.rs chains the
\* parent's hash in), so equal hashes mean equal position and equal prefix.
ChainedHashes ==
  \A q, r \in Req : \A i, j \in 1 .. MaxBlocks :
    BlockHash[q][i] = BlockHash[r][j] =>
      i = j /\ \A m \in 1 .. i : BlockHash[q][m] = BlockHash[r][m]

ASSUME CacheAssumption ==
  /\ IsFiniteSet(Req)
  /\ BlockSize \in Nat \ {0} /\ MaxLen \in Nat \ {0}
  /\ PromptLen \in [Req -> 1 .. MaxLen - 1]
  /\ BlockHash \in [Req -> [1 .. MaxBlocks -> Keys]]
  /\ Ahead \in Nat /\ Lookahead \in Nat /\ Watermark \in Nat
  /\ MaxEvictions \in Nat
  /\ ChainedHashes

VARIABLES pool, rows, numCached, numTokens, computed, kv, evictions

vars == <<pool, rows, numCached, numTokens, computed, kv, evictions>>

Running(r) == rows[r] # << >>

\* Mutant: the row is freed head first.
Forwards(s) == s

Backwards(s) == [i \in 1 .. Len(s) |-> s[Len(s) - i + 1]]

------------------------------------------------------------------------------
(***************************************************************************)
(* The cache walk and the allocation.                                      *)
(***************************************************************************)

\* find_longest_cache_hit: blocks hit from the left up to the first miss, in
\* the text that is hashed, and never the last token, which must be computed
\* to have logits to sample from.
HitLimit(r) == (numTokens[r] - 1) \div BlockSize
Hits(r) == {h \in 0 .. HitLimit(r) :
              \A i \in 1 .. h : IsCached(pool, BlockHash[r][i])}
HitLen(r) == CHOOSE h \in Hits(r) : \A g \in Hits(r) : g <= h
HitBlocks(r) ==
  [i \in 1 .. HitLen(r) |-> GetCachedBlock(pool, BlockHash[r][i])]

\* num_tokens_need_slot in blocks, for a request that will have `target`
\* tokens computed.
RequiredBlocks(target) ==
  CeilDiv(Lesser(target + Lookahead, MaxLen), BlockSize)

\* The blocks allocate_new_blocks takes.
NumNew(r, hit, target) ==
  Greater(RequiredBlocks(target) - Len(rows[r]) - Len(hit), 0)

\* Mutant: the hit blocks taken out of the queue are not counted.
CountOnlyNew(r, hit, target) == NumNew(r, hit, target)

\* get_num_blocks_to_allocate: new blocks, plus the hit blocks that touching
\* will take out of the free queue.
BlocksToAllocate(r, hit, target) ==
  NumNew(r, hit, target)
    + Cardinality({b \in Elements(hit) : pool.ref[b] = 0})

Fits(r, hit, target, headroom) ==
  BlocksToAllocate(r, hit, target) + headroom <= pool.numFree

\* The pool after the hit was touched.
Touched(hit) == Touch(pool, Elements(hit))

\* Mutant: the last, partly filled block is published too.
FullBlocksRoundedUp(tokens) == CeilDiv(tokens, BlockSize)

\* Only blocks full of finalized tokens are published in the index.
FullBlocks(tokens) == tokens \div BlockSize

\* TypeManager::cache_blocks: publish the full blocks of r's first `tokens`
\* tokens that are not published already.
Published(already, tokens) == Greater(already, FullBlocks(tokens))
Publish(p, r, row, already, tokens) ==
  CacheFullBlocks(p, row, BlockHash[r], already, FullBlocks(tokens))

\* The text of r's block j after tokens from + 1 .. to were written, given
\* what block b held: what was not there cannot be completed.
Written(b, r, j, from, to) ==
  LET start == Greater(from - (j - 1) * BlockSize, 0)
      end   == Lesser(to - (j - 1) * BlockSize, BlockSize)
  IN  IF start = 0 \/ (kv[b].key = BlockHash[r][j] /\ kv[b].filled >= start)
      THEN [key |-> BlockHash[r][j], filled |-> end]
      ELSE [key |-> NoKey, filled |-> 0]

\* The model runner writes the KV of tokens from + 1 .. to through row.
WriteKV(r, row, from, to) ==
  LET hitBy(b) == {j \in DOMAIN row : /\ row[j] = b
                                      /\ (j - 1) * BlockSize < to
                                      /\ j * BlockSize > from}
  IN  kv' = [b \in Blocks |->
               IF hitBy(b) = {} THEN kv[b]
               ELSE Written(b, r, CHOOSE j \in hitBy(b) : TRUE, from, to)]

\* allocate_slots with a hit of Len(hit) blocks on top of `base` computed
\* tokens, scheduling n more: the hit is touched, new blocks are taken, and
\* the full blocks of finalized tokens are published in the index.
AllocateSlots(r, hit, base, n, headroom) ==
  LET from    == base + Len(hit) * BlockSize
      target  == from + n
      count   == NumNew(r, hit, target)
      row     == rows[r] \o hit \o NewBlocks(Touched(hit), count)
      taken   == GetNewBlocks(Touched(hit), count)
      already == numCached[r] + Len(hit)
      final   == Lesser(target, numTokens[r])
  IN  /\ Fits(r, hit, target, headroom)
      /\ CanGetNewBlocks(Touched(hit), count)
      /\ rows' = [rows EXCEPT ![r] = row]
      /\ computed' = [computed EXCEPT ![r] = target]
      /\ numCached' = [numCached EXCEPT ![r] = Published(already, final)]
      /\ pool' = Publish(taken, r, row, already, final)
      /\ WriteKV(r, row, from, target)
      /\ UNCHANGED <<numTokens, evictions>>

------------------------------------------------------------------------------
Init ==
  /\ pool = NewPool
  /\ rows = [r \in Req |-> << >>]
  /\ numCached = [r \in Req |-> 0]
  /\ numTokens = PromptLen
  /\ computed = [r \in Req |-> 0]
  /\ kv = [b \in Blocks |-> [key |-> NoKey, filled |-> 0]]
  /\ evictions = 0

\* The waiting loop admits r with the longest hit, for n of the tokens that
\* are left.  The watermark must stay free when anything else is running.
Headroom == IF \E q \in Req : Running(q) THEN Watermark ELSE 0
Admit(r, n) ==
  /\ ~Running(r)
  /\ n <= numTokens[r] - HitLen(r) * BlockSize
  /\ AllocateSlots(r, HitBlocks(r), 0, n, Headroom)

\* Mutant: the last position is computed.
LeftOffByOne(r) == MaxLen - computed[r]

\* The last position of the model's context is never computed.
LeftToMaxLen(r) == MaxLen - (computed[r] + 1)

\* The running loop schedules r for n more tokens, at most Ahead of them
\* placeholders of tokens still being sampled.
Extend(r, n) ==
  /\ Running(r)
  /\ n <= numTokens[r] + Ahead - computed[r]
  /\ n <= LeftToMaxLen(r)
  /\ AllocateSlots(r, << >>, computed[r], n, 0)

\* A sampled token is appended once its position was computed, and the tokens
\* before it are final: cache_blocks up to num_computed_tokens less what is
\* still in flight, which is all tokens but the new one.
InFlight(r) == Greater(computed[r] + 1 - numTokens[r], 0)
WithFinalTokens(r) == Publish(pool, r, rows[r], numCached[r], numTokens[r])
Sampled(r) ==
  /\ Running(r)
  /\ InFlight(r) > 0
  /\ numTokens[r] + 1 < MaxLen
  /\ numTokens' = [numTokens EXCEPT ![r] = @ + 1]
  /\ pool' = WithFinalTokens(r)
  /\ numCached' = [numCached EXCEPT ![r] = Published(@, numTokens[r])]
  /\ UNCHANGED <<rows, computed, kv, evictions>>

\* Manager::free: the row goes back in reverse, so that its tail is evicted
\* before its head.
FreeRow(p, r) ==
  /\ pool' = FreeBlocks(p, Backwards(rows[r]))
  /\ rows' = [rows EXCEPT ![r] = << >>]
  /\ numCached' = [numCached EXCEPT ![r] = 0]
  /\ computed' = [computed EXCEPT ![r] = 0]
  /\ UNCHANGED <<kv, evictions>>

\* A preempted request starts over, with the `late` tokens that were in flight
\* for it: they land before it can be admitted again.
Preempt(r, late) ==
  /\ Running(r)
  /\ late <= InFlight(r) /\ numTokens[r] + late < MaxLen
  /\ FreeRow(pool, r)
  /\ numTokens' = [numTokens EXCEPT ![r] = @ + late]

\* The token that was sampled stops the request: it is final, then freed.
Stop(r) ==
  /\ Running(r)
  /\ InFlight(r) > 0
  /\ FreeRow(WithFinalTokens(r), r)
  /\ numTokens' = [numTokens EXCEPT ![r] = PromptLen[r]]

\* finish_requests: running or waiting, at any moment.
Abort(r) ==
  /\ FreeRow(pool, r)
  /\ numTokens' = [numTokens EXCEPT ![r] = PromptLen[r]]

\* Manager::evict_blocks, out of band.
Evict(S) ==
  /\ evictions < MaxEvictions
  /\ evictions' = evictions + 1
  /\ pool' = EvictBlocks(pool, S)
  /\ UNCHANGED <<rows, numCached, numTokens, computed, kv>>

Reset ==
  /\ CanResetPrefixCache(pool)
  /\ pool' = ResetPrefixCache(pool)
  /\ UNCHANGED <<rows, numCached, numTokens, computed, kv, evictions>>

Next ==
  \/ \E r \in Req : \/ \E n \in 1 .. MaxLen : Admit(r, n) \/ Extend(r, n)
                    \/ Sampled(r)
                    \/ \E late \in 0 .. Ahead + 1 : Preempt(r, late)
                    \/ Stop(r) \/ Abort(r)
  \/ \E S \in SUBSET Blocks : Evict(S)
  \/ Reset

Spec == Init /\ [][Next]_vars

------------------------------------------------------------------------------
(***************************************************************************)
(* Properties.                                                             *)
(***************************************************************************)

\* Every variable keeps its type, and lengths stay below max_model_len; the
\* type of the pool is part of PoolInv.
TypeOK ==
  /\ rows \in [Req -> Seq(Blocks)]
  /\ numCached \in [Req -> Nat]
  /\ numTokens \in [Req -> 1 .. MaxLen - 1]
  /\ computed \in [Req -> 0 .. MaxLen - 1]
  /\ kv \in [Blocks -> [key : Keys \cup {NoKey}, filled : Nat]]
  /\ evictions \in Nat

\* Between two calls the free queue, its counter, the reference counts and
\* the hash index of block_pool.rs agree with each other.
PoolConsistent == PoolInv(pool)

\* A block's reference count is the number of block tables that hold it, and
\* no table holds the null block or a block twice: no leak, no early free.
Holders(b) == {r \in Req : b \in Elements(rows[r])}
RefExact ==
  /\ \A r \in Req : Distinct(rows[r]) /\ NullBlock \notin Elements(rows[r])
  /\ \A b \in Blocks : pool.ref[b] = Cardinality(Holders(b))

\* The prefix cache never lies: a block found under a hash holds exactly the
\* text of that hash, complete.
CacheNeverLies ==
  \A b \in Blocks : pool.hash[b] # NoKey =>
    kv[b] = [key |-> pool.hash[b], filled |-> BlockSize]

\* Every request reads its own text: through its table, the KV of all the
\* tokens it counts as computed is the KV of its text, whoever wrote it.
RowsHoldTheirText ==
  \A r \in Req : \A j \in 1 .. CeilDiv(computed[r], BlockSize) :
    LET block == kv[rows[r][j]]
    IN  /\ block.key = BlockHash[r][j]
        /\ block.filled >= Lesser(computed[r] - (j - 1) * BlockSize, BlockSize)

\* Nobody reads a text that is not his, by a hit or through his own table.
TextIsRight == CacheNeverLies /\ RowsHoldTheirText

\* Whatever the running loop or the waiting loop asks for, an allocation that
\* passes the block count of get_num_blocks_to_allocate never finds the
\* queue short when it takes the blocks, half-way through.
AdmissionSound ==
  \A r \in Req : \A n \in 1 .. MaxLen :
    LET hit    == IF Running(r) THEN << >> ELSE HitBlocks(r)
        target == computed[r] + Len(hit) * BlockSize + n
    IN  Fits(r, hit, target, 0) =>
          CanGetNewBlocks(Touched(hit), NumNew(r, hit, target))

\* A prefix cache without holes: if a block of a text is cached, so is every
\* earlier block of the text.  It rests on tails being freed before heads.
\* (Until the first evict_blocks, which may punch a hole.)
PrefixClosed ==
  evictions = 0 =>
  \A r \in Req : \A i \in 2 .. MaxBlocks :
    IsCached(pool, BlockHash[r][i]) => IsCached(pool, BlockHash[r][i - 1])

\* Blocks that can serve no hit are reused before any cached block is
\* evicted.  (Again until the first evict_blocks.)
UnhashedFirst ==
  evictions = 0 =>
  \A i, j \in DOMAIN pool.free :
    i < j /\ pool.hash[pool.free[j]] = NoKey => pool.hash[pool.free[i]] = NoKey

\* The order in which blocks are freed and reused keeps what the cache holds
\* reachable, and costs it nothing while other blocks are free.
ReuseOrder == PrefixClosed /\ UnhashedFirst

\* What a step may never do: write into a block that another request's table
\* holds, or change the contents of a block that stays in the cache.
WriteChangesPrivate ==
  \A b \in Blocks : kv'[b] # kv[b] =>
    /\ \A q, r \in Req : (b \in Elements(rows'[q]) /\ b \in Elements(rows'[r]))
                           => q = r
    /\ pool.hash[b] # pool'.hash[b] \/ pool.hash[b] = NoKey
WritesArePrivate == [][WriteChangesPrivate]_vars
==============================================================================
