----------------------------- MODULE HybridCache -----------------------------
(***************************************************************************)
(* The KV-cache manager of a hybrid model: one full-attention group and    *)
(* one mamba group in align mode over one block pool (coordinator.rs and   *)
(* the two arms of TypeManager in single_type.rs), under the scheduling    *)
(* loop of sched.rs, with Depth steps in flight and no connector.          *)
(*                                                                         *)
(* A mamba layer keeps one state, not one entry per token.  The mamba row  *)
(* of a request has a place for every block of its text, but only the      *)
(* places of the running state, and of the state it was last copied from,  *)
(* hold a block; the others hold the null block.  A state that stands at a *)
(* block boundary is published under that block's hash.                    *)
(*                                                                         *)
(*   pool       the block pool of both groups                              *)
(*   kv, ssm    req_to_blocks of the two groups                            *)
(*   numCached  num_cached_block: blocks published, the same in both       *)
(*   lastState  last_state_block_idx of the mamba group, from 1, 0 for none*)
(*   cachedNow  cached_blocks_this_step of the mamba group                 *)
(*   content    what the device has written into every block, by the key   *)
(*              it would be published under                                *)
(*   status     "new", "waiting", "running" or "done"                      *)
(*   numTokens, computed, placeholders                                     *)
(*              num_tokens, num_computed_tokens, num_output_placeholders   *)
(*   running, waiting   the queues                                         *)
(*   steps      steps in flight, oldest first: who runs, who is sampled    *)
(*   turn       must the engine take a result before it schedules again    *)
(*   now        the locals of the schedule() that is running               *)
(*                                                                         *)
(* Both groups have the scheduler's block size; no speculative tokens, no  *)
(* lookahead, no chunk threshold, and no max_tokens but the context.  The  *)
(* hash of a block is the text up to its end, and the text of a request is *)
(* a function of the request.                                              *)
(*                                                                         *)
(* Steps run on the device in the order they are scheduled, so a step's    *)
(* writes are part of its schedule().  The runner copies the state of every*)
(* request to its new block before it computes any of them.                *)
(***************************************************************************)
EXTENDS BlockPool, SequencesExt

CONSTANTS Req, BlockSize, MaxLen, PromptLen,
          Text,            \* Text[r][i]: the i-th token of r
          TokenBudget,     \* max_num_scheduled_tokens
          MaxRunning,      \* max_num_running_reqs
          Watermark,       \* watermark_blocks
          Depth            \* steps in flight (async scheduling: 2)

Prefix(r, n) == SubSeq(Text[r], 1, n)

\* The key of the i-th block of r's text in a group.
Key(r, group, i) == <<group, Prefix(r, i * BlockSize)>>

ASSUME HybridAssumption ==
  /\ BlockSize \in Nat \ {0} /\ TokenBudget >= BlockSize
  /\ PromptLen \in [Req -> 1 .. MaxLen - 1]
  /\ \A r \in Req : \A i \in 1 .. MaxLen \div BlockSize :
       {Key(r, "kv", i), Key(r, "ssm", i)} \subseteq Keys

VARIABLES pool, kv, ssm, numCached, lastState, cachedNow, content, status,
          numTokens, computed, placeholders, running, waiting, steps, turn,
          now

kvVars == <<pool, kv, ssm, numCached, lastState, cachedNow>>
reqVars == <<status, numTokens, computed, placeholders>>
vars == <<kvVars, content, reqVars, running, waiting, steps, turn, now>>

Lesser(a, b) == IF a <= b THEN a ELSE b
Greater(a, b) == IF a >= b THEN a ELSE b
CeilDiv(a, b) == (a + b - 1) \div b

\* Outside schedule().
Idle == [at |-> "idle", pos |-> 1, budget |-> 0, preempted |-> << >>,
         plan |-> [r \in Req |-> 0]]

------------------------------------------------------------------------------
(***************************************************************************)
(* The cache walk: full attention from the left to the first miss, then    *)
(* the last mamba state within it.                                         *)
(***************************************************************************)
KvHitLen(r) ==
  LET hits == {h \in 0 .. (numTokens[r] - 1) \div BlockSize :
                 \A i \in 1 .. h : IsCached(pool, Key(r, "kv", i))}
  IN  CHOOSE h \in hits : \A g \in hits : g <= h

HitLen(r) ==
  LET states == {0} \cup {i \in 1 .. KvHitLen(r) :
                            IsCached(pool, Key(r, "ssm", i))}
  IN  CHOOSE h \in states : \A g \in states : g <= h

\* num_uncached_common_prefix_tokens.
Uncached(r) == (KvHitLen(r) - HitLen(r)) * BlockSize

\* hit_blocks of the two groups: attention is cut to the length of the hit,
\* mamba padded with null blocks.
KvHit(r) == [i \in 1 .. HitLen(r) |-> GetCachedBlock(pool, Key(r, "kv", i))]
SsmHit(r) == [i \in 1 .. HitLen(r) |->
                IF i < HitLen(r) THEN NullBlock
                ELSE GetCachedBlock(pool, Key(r, "ssm", i))]

------------------------------------------------------------------------------
(***************************************************************************)
(* remove_skipped_blocks: the states r is past at c computed tokens.       *)
(***************************************************************************)

\* _remove_blocks_in_range, from the right up to the first null block, and
\* then the state the running one was copied from.
Behind(r, c) ==
  LET skipped == Lesser(Greater(c - 1, 0) \div BlockSize, Len(ssm[r]))
  IN  {i \in 1 .. skipped : \A j \in i .. skipped : ssm[r][j] # NullBlock}

\* Mutant: only the places right behind are looked at.
CopiedFromNone(r, c) == {}

CopiedFrom(r, c) ==
  {i \in {lastState[r]} \ (Behind(r, c) \cup {0}) :
     i < CeilDiv(c, BlockSize) /\ ssm[r][i] # NullBlock}

AtPlaces(row, S) == {row[i] : i \in S}
TrimmedPool(r, c) ==
  FreeBlocks(FreeBlocks(pool, Reverse(Keep(ssm[r], AtPlaces(ssm[r], Behind(r, c))))),
             Keep(ssm[r], AtPlaces(ssm[r], CopiedFrom(r, c))))

\* Mutant: the freed states stay in the row.
TrimmedSsmKeepsPlaces(r, c) == ssm[r]

TrimmedSsm(r, c) ==
  [i \in DOMAIN ssm[r] |->
     IF i \in Behind(r, c) \cup CopiedFrom(r, c) THEN NullBlock ELSE ssm[r][i]]

------------------------------------------------------------------------------
(***************************************************************************)
(* allocate_slots, on a pool and a mamba row already trimmed.              *)
(***************************************************************************)
Evictable(p, S) == Cardinality({b \in S \ {NullBlock} : p.ref[b] = 0})

KvNew(r, hit, target) ==
  Greater(CeilDiv(target, BlockSize) - Len(kv[r]) - Len(hit), 0)

\* With no speculative blocks a mamba group takes one block or none.
SsmNew(r, hit, target) ==
  IF CeilDiv(target, BlockSize) > Len(ssm[r]) + Len(hit) THEN 1 ELSE 0

\* Mutant: a state published in this step can be reused at once.
PublishedNowNever(p, hit) == FALSE

\* A state that another request publishes in this step is not there yet when
\* the states are copied.
PublishedNow(p, hit) == hit # << >> /\ p.hash[Last(hit)] \in cachedNow

\* get_num_blocks_to_allocate, summed over the groups.
BlocksToAllocate(p, r, kvHit, ssmHit, target) ==
  KvNew(r, kvHit, target) + Evictable(p, Elements(kvHit))
    + IF PublishedNow(p, ssmHit) THEN NumBlocks + 1
      ELSE SsmNew(r, ssmHit, target) + Evictable(p, Elements(ssmHit))

Fits(p, r, kvHit, ssmHit, target, headroom) ==
  BlocksToAllocate(p, r, kvHit, ssmHit, target) + headroom <= p.numFree

\* cache_blocks of the coordinator: whole blocks, in both groups.
KeysOf(r, group) == [i \in 1 .. MaxLen \div BlockSize |-> Key(r, group, i)]
Publish(p, r, kvRow, ssmRow, already, tokens) ==
  LET full == tokens \div BlockSize
  IN  CacheFullBlocks(CacheFullBlocks(p, kvRow, KeysOf(r, "kv"), already, full),
                      ssmRow, KeysOf(r, "ssm"), already, full)
Published(already, tokens) == Greater(already, tokens \div BlockSize)
NewStates(r, ssmRow, already, tokens) ==
  {Key(r, "ssm", i) : i \in {j \in already + 1 .. tokens \div BlockSize :
                               ssmRow[j] # NullBlock}}

\* The mamba row with a block for the state at `target`, the places between
\* left null.
Padded(row, count, block) ==
  IF Len(row) >= count THEN row
  ELSE [i \in 1 .. count |-> IF i <= Len(row) THEN row[i]
                             ELSE IF i < count THEN NullBlock ELSE block]

\* The hit is touched in both groups, then the new blocks of full attention
\* and the new state are taken, then the full blocks of known tokens are
\* published.
AllocateSlots(p, r, kvHit, ssmHit, trimmed, target) ==
  LET touched == Touch(Touch(p, Elements(kvHit)), Elements(ssmHit))
      count   == KvNew(r, kvHit, target)
      state   == SsmNew(r, ssmHit, target)
      fresh   == NewBlocks(touched, count + state)
      kvRow   == kv[r] \o kvHit \o SubSeq(fresh, 1, count)
      ssmHad  == trimmed \o ssmHit
      ssmRow  == IF state = 0 THEN ssmHad
                 ELSE Padded(ssmHad, CeilDiv(target, BlockSize), Last(fresh))
      already == numCached[r] + Len(kvHit)
      known   == Lesser(target, numTokens[r])
  IN  /\ kv' = [kv EXCEPT ![r] = kvRow]
      /\ ssm' = [ssm EXCEPT ![r] = ssmRow]
      /\ lastState' = [lastState EXCEPT ![r] =
                         IF state = 1 /\ ssmHad # << >> THEN Len(ssmHad) ELSE @]
      /\ numCached' = [numCached EXCEPT ![r] = Published(already, known)]
      /\ cachedNow' = cachedNow \cup NewStates(r, ssmRow, already, known)
      /\ pool' = Publish(GetNewBlocks(touched, count + state), r, kvRow, ssmRow,
                         already, known)

\* Manager::free: each group's row goes back in reverse.
FreeRows(p, reqs) ==
  FoldLeft(LAMBDA q, r : FreeBlocks(FreeBlocks(q, Reverse(kv[r])), Reverse(ssm[r])),
           p, reqs)
ForgetRows(S) ==
  /\ kv' = [r \in Req |-> IF r \in S THEN << >> ELSE kv[r]]
  /\ ssm' = [r \in Req |-> IF r \in S THEN << >> ELSE ssm[r]]
  /\ lastState' = [r \in Req |-> IF r \in S THEN 0 ELSE lastState[r]]

------------------------------------------------------------------------------
NoContent == <<"none", << >>>>

Init ==
  /\ pool = NewPool
  /\ kv = [r \in Req |-> << >>] /\ ssm = [r \in Req |-> << >>]
  /\ numCached = [r \in Req |-> 0]
  /\ lastState = [r \in Req |-> 0]
  /\ cachedNow = {}
  /\ content = [b \in Blocks |-> NoContent]
  /\ status = [r \in Req |-> "new"]
  /\ numTokens = PromptLen
  /\ computed = [r \in Req |-> 0]
  /\ placeholders = [r \in Req |-> 0]
  /\ running = << >> /\ waiting = << >>
  /\ steps = << >>
  /\ turn = FALSE
  /\ now = Idle

\* add_request.
Arrive(r) ==
  /\ now.at = "idle"
  /\ status[r] = "new"
  /\ status' = [status EXCEPT ![r] = "waiting"]
  /\ waiting' = Append(waiting, r)
  /\ UNCHANGED <<kvVars, content, numTokens, computed, placeholders, running,
                 steps, turn, now>>

------------------------------------------------------------------------------
(***************************************************************************)
(* schedule()                                                              *)
(***************************************************************************)

\* Mutant: the states of the last step stay unusable.
KeptFromLastStep == cachedNow

\* new_step_starts.
AtStepStart == {}

Schedule ==
  /\ now.at = "idle" /\ ~turn
  /\ waiting # << >> \/ running # << >>
  /\ cachedNow' = AtStepStart
  /\ now' = [Idle EXCEPT !.at = "running", !.budget = TokenBudget]
  /\ UNCHANGED <<pool, kv, ssm, numCached, lastState, content, reqVars, running,
                 waiting, steps, turn>>

\* Mutant: a chunk in the middle of the text may end inside a block.
AlignedSplitAnywhere(r, c, n, uncached) ==
  LET lastCached == numTokens[r] - (numTokens[r] % BlockSize)
  IN  IF c < lastCached /\ lastCached < c + n THEN lastCached - c ELSE n

\* mamba_block_aligned_split: a prefill stops at a block boundary, at the last
\* one of the text, and at the end of a prefix whose state is not cached.
AlignedSplit(r, c, n, uncached) ==
  LET prefillEnd == Greater(PromptLen[r], numTokens[r] - 1)
      lastCached == numTokens[r] - (numTokens[r] % BlockSize)
      split == IF c + n < lastCached THEN (n \div BlockSize) * BlockSize
               ELSE IF c < lastCached /\ lastCached < c + n THEN lastCached - c
               ELSE n
  IN  IF c >= prefillEnd THEN n
      ELSE IF uncached >= BlockSize /\ split > uncached
      THEN (uncached \div BlockSize) * BlockSize
      ELSE split

Work(r) ==
  AlignedSplit(r, computed[r],
    Greater(0, Lesser(Lesser(numTokens[r] + placeholders[r] - computed[r], now.budget),
                      MaxLen - (computed[r] + 1))), 0)

\* One iteration of the running loop.
Looping == now.at = "running" /\ now.pos <= Len(running) /\ now.budget > 0
RunningFits(r) ==
  Fits(TrimmedPool(r, computed[r]), r, << >>, << >>, computed[r] + Work(r), 0)
ScheduleRunning ==
  LET r == running[now.pos]
      n == Work(r)
  IN  /\ Looping
      /\ now' = [now EXCEPT !.pos = @ + 1, !.budget = @ - n, !.plan[r] = n]
      /\ \/ n = 0 /\ UNCHANGED kvVars
         \/ /\ n > 0 /\ RunningFits(r)
            /\ AllocateSlots(TrimmedPool(r, computed[r]), r, << >>, << >>,
                             TrimmedSsm(r, computed[r]), computed[r] + n)
      /\ UNCHANGED <<content, reqVars, running, waiting, steps, turn>>

\* The states that are behind go back even if the rest does not fit; then the
\* last running request is preempted, possibly r itself.
Preempt ==
  LET r == running[now.pos]
      victim == Last(running)
      c == computed[r]
      trimmed == TrimmedPool(r, c)
      victimSsm == IF victim = r THEN TrimmedSsm(r, c) ELSE ssm[victim]
  IN  /\ Looping
      /\ Work(r) > 0 /\ ~RunningFits(r)
      /\ pool' = FreeBlocks(FreeBlocks(trimmed, Reverse(kv[victim])),
                            Reverse(victimSsm))
      /\ kv' = [kv EXCEPT ![victim] = << >>]
      /\ ssm' = [ssm EXCEPT ![r] = TrimmedSsm(r, c), ![victim] = << >>]
      /\ numCached' = [numCached EXCEPT ![victim] = 0]
      /\ lastState' = [lastState EXCEPT ![victim] = 0]
      /\ running' = Front(running)
      /\ now' = [now EXCEPT !.preempted = Append(@, victim)]
      /\ UNCHANGED <<cachedNow, content, reqVars, waiting, steps, turn>>

\* The waiting loop: the request at the head, with the longest hit.
Candidate == Head(waiting)
WaitingArm ==
  /\ now.at = "running" /\ ~Looping
  /\ waiting # << >> /\ now.preempted = << >>
  /\ now.budget > 0 /\ Len(running) < MaxRunning

Headroom == IF running = << >> THEN 0 ELSE Watermark

Base(r) == HitLen(r) * BlockSize
AdmitTokens(r) ==
  AlignedSplit(r, Base(r), Lesser(numTokens[r] - Base(r), now.budget), Uncached(r))
Admissible(r) ==
  /\ AdmitTokens(r) > 0
  /\ Fits(pool, r, KvHit(r), SsmHit(r), Base(r) + AdmitTokens(r), Headroom)

Admit ==
  LET r == Candidate
      n == AdmitTokens(r)
  IN  /\ WaitingArm /\ Admissible(r)
      /\ AllocateSlots(pool, r, KvHit(r), SsmHit(r), << >>, Base(r) + n)
      /\ computed' = [computed EXCEPT ![r] = Base(r)]
      /\ running' = Append(running, r)
      /\ waiting' = Tail(waiting)
      /\ now' = [now EXCEPT !.pos = Len(running) + 2, !.plan[r] = n,
                            !.budget = @ - n]
      /\ UNCHANGED <<content, status, numTokens, placeholders, steps, turn>>

\* What the device writes for r in this step: the state of its text at the
\* end, if the state it starts from is the one at the start; and the blocks
\* of keys and values, each complete up to there.
Scheduled == {r \in Elements(running) : now.plan[r] > 0}
Advanced(r) == computed[r] + now.plan[r]
StatePlace(c) == CeilDiv(c, BlockSize)
NewState(r) ==
  IF computed[r] = 0
     \/ content[ssm[r][StatePlace(computed[r])]] = <<"ssm", Prefix(r, computed[r])>>
  THEN <<"ssm", Prefix(r, Advanced(r))>> ELSE NoContent
NewKv(r, i) ==
  IF computed[r] <= (i - 1) * BlockSize
     \/ content[kv[r][i]] = <<"kv", Prefix(r, computed[r])>>
  THEN <<"kv", Prefix(r, Lesser(Advanced(r), i * BlockSize))>> ELSE NoContent

Written(b) ==
  LET states == {r \in Scheduled : ssm[r][StatePlace(Advanced(r))] = b}
      keys == {<<r, i>> \in Scheduled \X (1 .. StatePlace(MaxLen)) :
                 /\ i <= StatePlace(Advanced(r)) /\ i * BlockSize > computed[r]
                 /\ kv[r][i] = b}
  IN  IF states # {} THEN NewState(CHOOSE r \in states : TRUE)
      ELSE IF keys # {} THEN LET w == CHOOSE w \in keys : TRUE IN NewKv(w[1], w[2])
      ELSE content[b]

\* The end of schedule(): queues, counters, and the step is handed over.  A
\* request is sampled when the step reaches the end of what it knows.
Finish ==
  LET gone == Elements(now.preempted)
      samples == {r \in Scheduled : Advanced(r) >= numTokens[r] + placeholders[r]}
  IN  /\ now.at = "running" /\ ~Looping
      /\ ~(WaitingArm /\ Admissible(Candidate))
      /\ status' = [r \in Req |-> IF r \in gone THEN "waiting"
                                  ELSE IF r \in Elements(running) THEN "running"
                                  ELSE status[r]]
      /\ computed' = [r \in Req |-> IF r \in gone THEN 0 ELSE Advanced(r)]
      /\ placeholders' = [r \in Req |-> IF r \in gone THEN 0
                                        ELSE IF r \in samples
                                        THEN placeholders[r] + 1
                                        ELSE placeholders[r]]
      /\ waiting' = Reverse(now.preempted) \o waiting
      /\ content' = [b \in Blocks |-> Written(b)]
      /\ steps' = Append(steps,
           [order   |-> SelectSeq(running, LAMBDA r : r \in Scheduled),
            samples |-> samples])
      /\ turn' = (Scheduled = {} \/ Len(steps) + 1 = Depth)
      /\ now' = Idle
      /\ UNCHANGED <<kvVars, numTokens, running>>

------------------------------------------------------------------------------
(***************************************************************************)
(* update_from_output().                                                    *)
(***************************************************************************)

\* fold_cache_blocks, for the running requests that were sampled.
FinalTokens(r) == computed[r] - Greater(placeholders[r] - 1, 0)
Folded(reqs) ==
  FoldLeft(LAMBDA p, r : Publish(p, r, kv[r], ssm[r], numCached[r], FinalTokens(r)),
           pool, reqs)

\* The oldest step: every sampled token is appended, of a preempted request
\* too; those in `stop` end with it, and all at the end of the context must.
Process(stop) ==
  LET s       == Head(steps)
      sampled == {r \in s.samples : status[r] # "done"}
      decided == Keep(s.order, {r \in sampled : status[r] = "running"})
      tokens(r) == IF r \in Elements(decided) THEN FinalTokens(r) ELSE 0
  IN  /\ now.at = "idle" /\ steps # << >>
      /\ stop \subseteq sampled
      /\ \A r \in sampled : numTokens[r] + 1 >= MaxLen => r \in stop
      /\ steps' = Tail(steps)
      /\ turn' = FALSE
      /\ pool' = FreeRows(Folded(decided), Keep(s.order, stop))
      /\ cachedNow' = cachedNow \cup UNION {NewStates(r, ssm[r], numCached[r], tokens(r)) :
                                              r \in Req}
      /\ ForgetRows(stop)
      /\ numCached' = [r \in Req |-> IF r \in stop THEN 0
                                     ELSE Published(numCached[r], tokens(r))]
      /\ status' = [r \in Req |-> IF r \in stop THEN "done" ELSE status[r]]
      /\ numTokens' = [r \in Req |-> IF r \in sampled \ stop THEN numTokens[r] + 1
                                     ELSE numTokens[r]]
      /\ placeholders' = [r \in Req |->
                            IF r \in sampled THEN Greater(placeholders[r] - 1, 0)
                            ELSE placeholders[r]]
      /\ running' = Drop(running, stop)
      /\ waiting' = Drop(waiting, stop)
      /\ UNCHANGED <<computed, content, now>>

------------------------------------------------------------------------------
Engine == \/ Schedule \/ ScheduleRunning \/ Preempt \/ Admit \/ Finish
          \/ \E stop \in SUBSET Req : Process(stop)

Next == Engine \/ \E r \in Req : Arrive(r)

Spec == Init /\ [][Next]_vars

\* The engine thread runs while it has a request or a result: what enables
\* Engine is written out, and every step that is no arrival is one of it.
HasWork == \/ now.at # "idle" \/ steps # << >>
           \/ waiting # << >> \/ running # << >>
NoArrival == \A r \in Req : status[r] = "new" => status'[r] = "new"
FairSpec == Spec /\ ([]<>~HasWork \/ []<><<NoArrival>>_vars)

------------------------------------------------------------------------------
(***************************************************************************)
(* Properties.                                                             *)
(***************************************************************************)

\* Every variable has its type, and the pool is consistent between two calls.
TypeOK ==
  /\ PoolInv(pool)
  /\ {kv[r] : r \in Req} \cup {ssm[r] : r \in Req} \subseteq Seq(Blocks)
  /\ cachedNow \subseteq Keys
  /\ status \in [Req -> {"new", "waiting", "running", "done"}]
  /\ \A r \in Req : /\ numTokens[r] \in PromptLen[r] .. MaxLen - 1
                    /\ computed[r] \in 0 .. MaxLen - 1
                    /\ numCached[r] \in 0 .. Len(kv[r])
                    /\ lastState[r] \in 0 .. Len(ssm[r])
                    /\ placeholders[r] \in 0 .. Depth
  /\ {running, waiting} \subseteq Seq(Req)
  /\ Len(steps) <= Depth

Between == now.at = "idle"

\* A block found under a hash holds what the hash stands for: the keys and
\* values of the block's text, or the state at exactly the end of it, however
\* the prefill was cut and whoever reused or evicted the blocks on the way.
CacheNeverLies ==
  Between => \A b \in Blocks : pool.hash[b] # NoKey => content[b] = pool.hash[b]

\* A running request finds its own state where the runner will read it: never
\* one that was freed under it, taken before it was written, or left behind.
StateIsOwn ==
  Between => \A r \in Elements(running) : computed[r] > 0 =>
    /\ StatePlace(computed[r]) \in DOMAIN ssm[r]
    /\ content[ssm[r][StatePlace(computed[r])]] = <<"ssm", Prefix(r, computed[r])>>

\* And its own keys and values in every block of its attention row.
KvIsOwn ==
  Between => \A r \in Elements(running) : \A i \in 1 .. StatePlace(computed[r]) :
    content[kv[r][i]] = <<"kv", Prefix(r, Lesser(computed[r], i * BlockSize))>>

\* What a request attends to and continues from is its own.
OwnMemory == StateIsOwn /\ KvIsOwn

\* Every reference of a block is that of a place in a row of either group:
\* the states freed in the middle of a row are not freed again with it.
Count(s, b) == Cardinality({i \in DOMAIN s : s[i] = b})
BlocksAccountedFor ==
  \A b \in RealBlocks :
    pool.ref[b] = SumFunction([r \in Req |-> Count(kv[r], b) + Count(ssm[r], b)])

\* The pool agrees with itself and with the rows of both groups.
Consistent == TypeOK /\ BlocksAccountedFor

\* A request holds two states at most: the one it runs on and the one that was
\* copied from.
TwoStatesAtMost ==
  Between => \A r \in Req : Cardinality(Elements(ssm[r]) \ {NullBlock}) <= 2

\* Every request comes to its end: a state that is not there yet is waited for
\* one step and no longer, and the watermark never keeps the last one out.
EveryRequestEnds == \A r \in Req : status[r] = "waiting" ~> status[r] = "done"
==============================================================================
