---------------------------- MODULE ScheduleLoop ----------------------------
(***************************************************************************)
(* The scheduling loop of vtl-sched/src/sched.rs: which requests a step    *)
(* runs, with how many tokens, whom it preempts and whom it admits.        *)
(*                                                                         *)
(* The module has no variables.  Schedule is a function of what the code   *)
(* reads: the entries of the requests, the two queues and the blocks every *)
(* request holds.  ResidentTable composes it into the steps of the engine. *)
(*                                                                         *)
(* An entry is the SchedReq of one request:                                *)
(*   T       num_tokens, prompt and output tokens known so far             *)
(*   C       num_computed_tokens                                           *)
(*   P       num_output_placeholders, tokens promised by steps in flight   *)
(*   chunk   is_prefill_chunk                                              *)
(*   status  of the request                                                *)
(*                                                                         *)
(* Abstracted: a request holds a number of blocks, not a row of them (rows *)
(* are the subject of FullAttentionCache); one full-attention group with   *)
(* caching off, so an admission has no hit and a freed block is free at    *)
(* once; num_sampled_tokens_per_step is 1; no connector; the waiting queue *)
(* is first come first served (sjf_reorder off).                           *)
(***************************************************************************)
EXTENDS Integers, SequencesExt

CONSTANTS Req,            \* requests, numbered in the order they arrive
          PromptLen,      \* num_prompt_tokens of every request
          MaxTokens,      \* max_tokens of every request
          MaxModelLen,    \* max_model_len
          BlockSize,      \* cache_block_size
          NumBlocks,      \* blocks of the pool that can be allocated
          Watermark,      \* watermark_blocks
          Lookahead,      \* num_lookahead_tokens
          TokenBudget,    \* max_num_scheduled_tokens
          MaxRunning,     \* max_num_running_reqs
          ChunkThreshold, \* long_prefill_token_threshold, 0 for none
          ChunkedPrefill, \* enable_chunked_prefill
          AlignedSplit    \* need_mamba_block_aligned_split

ASSUME LoopAssumption ==
  /\ Req \subseteq Nat /\ IsFiniteSet(Req)
  /\ PromptLen \in [Req -> Nat \ {0}]
  /\ MaxTokens \in [Req -> Nat \ {0}]
  /\ {MaxModelLen, BlockSize, NumBlocks, TokenBudget, MaxRunning} \subseteq Nat \ {0}
  /\ {Watermark, Lookahead, ChunkThreshold} \subseteq Nat
  /\ {ChunkedPrefill, AlignedSplit} \subseteq BOOLEAN
  /\ \A r \in Req : PromptLen[r] < MaxModelLen

Minus(a, b) == Max({a - b, 0})       \* saturating_sub

BlocksFor(tokens) == (tokens + BlockSize - 1) \div BlockSize

------------------------------------------------------------------------------
(* How many tokens a request gets *)

\* Two steps ago the request was already given its last token.
PromisedItsLast(r, e) ==
  /\ e.P > 0
  /\ e.C + 2 >= PromptLen[r] + MaxTokens[r] + e.P

\* mamba_block_aligned_split: a prefill stops at a block boundary unless it
\* reaches the end of the request.  An admission has no hit here, and
\* therefore no uncached common prefix to stop at.
AlignToBlocks(r, e, n) ==
  LET prefillEnd == Max({PromptLen[r], e.T - 1})
      lastCached == e.T - (e.T % BlockSize)
      after == e.C + n
  IN  IF ~AlignedSplit \/ e.C >= prefillEnd THEN n
      ELSE IF after < lastCached THEN (n \div BlockSize) * BlockSize
      ELSE IF e.C < lastCached /\ lastCached < after THEN lastCached - e.C
      ELSE n

Chunked(n) == IF ChunkThreshold > 0 THEN Min({ChunkThreshold, n}) ELSE n

\* An entry whose C has run past T + P is counted and skipped.
Inconsistent(e) == e.T + e.P < e.C

ContextRoom(e) == Minus(MaxModelLen, e.C + 1)

RunningTokens(r, e, budget) ==
  IF PromisedItsLast(r, e) \/ Inconsistent(e) THEN 0
  ELSE AlignToBlocks(r, e, Min({Chunked(e.T + e.P - e.C), budget, ContextRoom(e)}))

WaitingTokens(r, e, budget) ==
  IF ~ChunkedPrefill /\ Chunked(e.T - e.C) > budget THEN 0
  ELSE AlignToBlocks(r, e, Min({Chunked(e.T - e.C), budget}))

------------------------------------------------------------------------------
(* allocate_slots, counted in blocks *)

FreeBlocks(held) == NumBlocks - SumFunction(held)

BlocksNeeded(e, n) ==
  BlocksFor(Min({Min({e.C, MaxModelLen}) + n + Lookahead, MaxModelLen}))

Fits(held, r, e, n, headroom) ==
  Minus(BlocksNeeded(e, n), held[r]) + headroom <= FreeBlocks(held)

Allocate(held, r, e, n) ==
  [held EXCEPT ![r] = Max({@, BlocksNeeded(e, n)})]

\* Mutant: a victim is only taken off the queue, its blocks stay held.
ReleaseNothing(held, S) == held

Release(held, S) == [r \in Req |-> IF r \in S THEN 0 ELSE held[r]]

------------------------------------------------------------------------------
(* The two loops.  Their state:                                            *)
(*   run        the running queue        held       blocks of each request *)
(*   tokens     scheduled so far         budget     what is left to spend  *)
(*   preempted  in the order it happened admitted   from the waiting queue *)
(*   over       the loop has left                                          *)

LastOf(s, k) == SubSeq(s, Len(s) - k + 1, Len(s))

\* The requests popped off the back of the queue until the request at i fits,
\* itself included when nobody is left behind it.
Victims(s, i, e, n) ==
  LET r == s.run[i]
      after(k) == Release(s.held, ToSet(LastOf(s.run, k)))
      behind == Len(s.run) - i
  IN  Min({k \in 0 .. behind : Fits(after(k), r, e, n, 0)} \cup {behind + 1})

RunOne(entry, s, i) ==
  IF s.over \/ i > Len(s.run) \/ s.budget = 0 THEN s
  ELSE
  LET r == s.run[i]
      e == entry[r]
      n == RunningTokens(r, e, s.budget)
      k == Victims(s, i, e, n)
      gone == Reverse(LastOf(s.run, k))
      held == Release(s.held, ToSet(gone))
      fits == i + k <= Len(s.run)
      shrunk == [s EXCEPT !.run = SubSeq(@, 1, Len(@) - k),
                          !.preempted = @ \o gone,
                          !.held = held,
                          !.over = ~fits]
  IN  IF n = 0 THEN s
      ELSE IF fits THEN [shrunk EXCEPT !.tokens[r] = n,
                                       !.budget = @ - n,
                                       !.held = Allocate(held, r, e, n)]
      ELSE shrunk

HasSeat(run) == Len(run) < MaxRunning

Headroom(run) == IF run = <<>> THEN 0 ELSE Watermark

AdmitOne(entry, s, r) ==
  LET e == entry[r]
      n == WaitingTokens(r, e, s.budget)
  IN  IF s.over THEN s
      ELSE IF \/ s.budget = 0
              \/ ~HasSeat(s.run)
              \/ n = 0
              \/ ~Fits(s.held, r, e, n, Headroom(s.run))
           THEN [s EXCEPT !.over = TRUE]
      ELSE [s EXCEPT !.run = Append(@, r),
                     !.admitted = Append(@, r),
                     !.tokens[r] = n,
                     !.budget = @ - n,
                     !.held = Allocate(@, r, e, n)]

Start(run, held) ==
  [ run |-> run, held |-> held, tokens |-> [r \in Req |-> 0],
    budget |-> TokenBudget, preempted |-> <<>>, admitted |-> <<>>, over |-> FALSE ]

\* f(s), with s evaluated before f uses it.
Once(f(_), s) == CHOOSE x \in {f(t) : t \in {s}} : TRUE

\* schedule_phase1: over the running queue.
Phase1(entry, run, held) ==
  LET runs(s, i) == Once(LAMBDA t : RunOne(entry, t, i), s)
  IN  FoldLeft(runs, Start(run, held), [i \in DOMAIN run |-> i])

\* schedule_phase2: over the waiting queue, unless phase 1 had to preempt.
Phase2(entry, s, waiting) ==
  LET admits(t, r) == Once(LAMBDA u : AdmitOne(entry, u, r), t)
  IN  IF s.preempted # <<>> THEN s
      ELSE FoldLeft(admits, [s EXCEPT !.over = FALSE], waiting)

Schedule(entry, run, waiting, held) ==
  Once(LAMBDA s : Phase2(entry, s, waiting), Phase1(entry, run, held))

Scheduled(d) == {r \in Req : d.tokens[r] > 0}

BurstEligible(d, cap) ==
  /\ d.preempted = <<>> /\ d.admitted = <<>>
  /\ Scheduled(d) # {}
  /\ Cardinality(Scheduled(d)) <= cap
  /\ \A r \in Scheduled(d) : d.tokens[r] = 1

------------------------------------------------------------------------------
(* What a step does to an entry *)

\* Mutant: a prefill chunk promises a token too.
AdvancePromisesChunks(e, n) ==
  [e EXCEPT !.C = @ + n, !.chunk = e.C + n < e.T + e.P, !.P = @ + 1]

\* A prefill chunk promises no token.  The flag is read before the promise.
Advance(e, n) ==
  LET c == e.C + n
      isChunk == c < e.T + e.P
  IN  [e EXCEPT !.C = c, !.chunk = isChunk,
                !.P = IF isChunk THEN @ ELSE @ + 1]

Preempt(e) ==
  [e EXCEPT !.status = "PREEMPTED", !.C = 0, !.P = 0, !.chunk = 0 < e.T]

\* Mutant: tokens that did not come stay counted as computed.
RetractPromisesOnly(e, short) ==
  LET p == Minus(e.P, short)
  IN  [e EXCEPT !.P = p, !.chunk = e.C < e.T + p]

\* The extra tokens of a burst, and the ones it did not produce.
BurstAdvance(e, delta) ==
  [e EXCEPT !.C = @ + delta, !.chunk = e.C + delta < e.T + e.P, !.P = @ + delta]

BurstRetract(e, short) ==
  LET c == Minus(e.C, short)
      p == Minus(e.P, short)
  IN  [e EXCEPT !.C = c, !.P = p, !.chunk = c < e.T + p]
==============================================================================
