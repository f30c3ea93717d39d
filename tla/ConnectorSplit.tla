---------------------------- MODULE ConnectorSplit ----------------------------
(***************************************************************************)
(* Scheduling under a live KV connector: schedule() of rust_sched.py in    *)
(* two crate calls (schedule_phase1 and schedule_phase2 of sched.rs) with  *)
(* the connector's query between them, asynchronous loads that are parked  *)
(* until their transfer lands, and the deferred return of the blocks of a  *)
(* request that ends while a step with it is in flight.                    *)
(*                                                                         *)
(*   rows, numCached  the block table, and how much of it is published     *)
(*   content     the hash of the text each block holds                     *)
(*   status      "new", "waiting", "loading" (WAITING_FOR_REMOTE_KVS) or   *)
(*               "running"; a request that ended is "new" again            *)
(*   numTokens, computed, placeholders                                     *)
(*               num_tokens, num_computed_tokens, num_output_placeholders  *)
(*   running, waiting, skipped   the queues (skipped is skipped_waiting)   *)
(*   prefills    _inflight_prefills                                        *)
(*   loads       where a transfer in flight starts in the text, and the    *)
(*               blocks it fills from there                                *)
(*   received    finished_recving_kv_req_ids                               *)
(*   steps       steps handed to the device, oldest first                  *)
(*   deferred    deferred_frees; a fence counts the steps still to come in *)
(*   turn        must the engine take a result before it schedules again   *)
(*   now         the locals of the schedule() that is running              *)
(*   later, aborts   answers "ask me later" and aborts, to bound them      *)
(*                                                                         *)
(* One full-attention group with a block size of one token; hashes are     *)
(* chained as in FullAttentionCache, and the text of a request is a        *)
(* function of the request.  An ended request's id goes to one with the    *)
(* same prompt once no step in flight names it.                            *)
(*                                                                         *)
(* The engine thread runs schedule() and update_from_output() one after    *)
(* the other; schedule() is cut at its crate calls and loop iterations.    *)
(* The device takes the steps in order and its writes land with the        *)
(* result; a transfer lands at any moment after its step was handed over.  *)
(***************************************************************************)
EXTENDS BlockPool, SequencesExt

CONSTANTS Req, MaxLen, PromptLen, BlockHash,
          TokenBudget,     \* max_num_scheduled_tokens
          LongPrefill,     \* long_prefill_token_threshold, 0 for none
          MaxRunning,      \* max_num_running_reqs
          Watermark,       \* watermark_blocks
          Depth,           \* steps in flight (async scheduling: 2)
          MaxExternal,     \* most tokens the connector holds past a local hit
          MaxLater,        \* bound on "ask me later" answers
          MaxAborts        \* bound on aborts

\* A hash stands for the text from its beginning, so those of one text differ.
\* A prompt of one token is no block a connector could hold.  The scheduler
\* runs at most a step ahead.
ASSUME SplitAssumption ==
  /\ IsFiniteSet(Req) /\ MaxLen \in Nat
  /\ PromptLen \in [Req -> 2 .. MaxLen - 1]
  /\ BlockHash \in [Req -> [1 .. MaxLen -> Keys]]
  /\ \A r \in Req : \A i, j \in 1 .. MaxLen : BlockHash[r][i] = BlockHash[r][j] => i = j
  /\ Depth \in 1 .. 2
  /\ {TokenBudget, LongPrefill, MaxRunning, Watermark, MaxExternal} \subseteq Nat

VARIABLES pool, rows, numCached, content, status, numTokens, computed,
          placeholders, running, waiting, skipped, prefills, loads, received,
          steps, deferred, turn, now, later, aborts

kvVars == <<pool, rows, numCached>>
reqVars == <<status, numTokens, computed, placeholders>>
queueVars == <<running, waiting, skipped, prefills>>
deviceVars == <<content, loads, received, steps>>
vars == <<kvVars, reqVars, queueVars, deviceVars, deferred, turn, now, later,
          aborts>>

Lesser(a, b) == IF a <= b THEN a ELSE b
Greater(a, b) == IF a >= b THEN a ELSE b

NoLoad == [from |-> 0, blocks |-> << >>]
Later == -1

\* Outside schedule().
Idle == [at |-> "idle", stock |-> FALSE, seats |-> 0, pos |-> 1, budget |-> 0,
         cand |-> << >>, skips |-> << >>, parked |-> << >>, stale |-> << >>,
         preempted |-> << >>, plan |-> [r \in Req |-> 0],
         probed |-> {}, probe |-> [r \in Req |-> << >>],
         ext |-> [r \in Req |-> 0], reserved |-> 0]

------------------------------------------------------------------------------
(***************************************************************************)
(* The manager's calls, as in FullAttentionCache with BlockSize = 1.       *)
(***************************************************************************)
Hits(r) == {h \in 0 .. numTokens[r] - 1 :
              \A i \in 1 .. h : IsCached(pool, BlockHash[r][i])}
HitBlocks(r) ==
  LET len == CHOOSE h \in Hits(r) : \A g \in Hits(r) : g <= h
  IN  [i \in 1 .. len |-> GetCachedBlock(pool, BlockHash[r][i])]

NumNew(r, hit, target) == Greater(target - Len(rows[r]) - Len(hit), 0)

\* allocate_slots: the blocks to take, with the hits that leave the free
\* queue, must be free beside the watermark and the reserved blocks; the
\* difference is signed.
Fits(r, hit, target, watermark, reserved) ==
  NumNew(r, hit, target)
      + Cardinality({b \in Elements(hit) : pool.ref[b] = 0}) + watermark
    <= pool.numFree - reserved

\* The text published with an allocation: nothing under delay_cache_blocks.
CacheUpTo(r, target, delay) == IF delay THEN 0 ELSE Lesser(target, numTokens[r])

AllocateSlots(r, hit, target, delay) ==
  LET touched == Touch(pool, Elements(hit))
      count   == NumNew(r, hit, target)
      row     == rows[r] \o hit \o NewBlocks(touched, count)
      already == numCached[r] + Len(hit)
      upTo    == CacheUpTo(r, target, delay)
  IN  /\ rows' = [rows EXCEPT ![r] = row]
      /\ numCached' = [numCached EXCEPT ![r] = Greater(already, upTo)]
      /\ pool' = CacheFullBlocks(GetNewBlocks(touched, count), row, BlockHash[r],
                                 already, upTo)

\* Calls on the pool, one after the other: a row is published or freed.
Publishing(r, tokens) ==
  [frees |-> FALSE, row |-> rows[r], hashes |-> BlockHash[r],
   first |-> numCached[r], last |-> tokens]
Freeing(row) ==
  [frees |-> TRUE, row |-> Reverse(row), hashes |-> << >>, first |-> 0, last |-> 0]
Call(p, c) == IF c.frees THEN FreeBlocks(p, c.row)
              ELSE CacheFullBlocks(p, c.row, c.hashes, c.first, c.last)
Calls(p, calls) == FoldLeft(Call, p, calls)

\* Manager::free of every request of a sequence.
FreeRows(p, reqs) == Calls(p, [i \in DOMAIN reqs |-> Freeing(rows[reqs[i]])])
ForgetRows(S) ==
  /\ rows' = [r \in Req |-> IF r \in S THEN << >> ELSE rows[r]]
  /\ numCached' = [r \in Req |-> IF r \in S THEN 0 ELSE numCached[r]]

\* remaining_blocks: what r still needs to hold its whole sequence.
RemainingBlocks(r) == Greater(numTokens[r] - Len(rows[r]), 0)
RemainingOf(S) == SumFunctionOnSet([r \in Req |-> RemainingBlocks(r)], S)

------------------------------------------------------------------------------
Init ==
  /\ pool = NewPool
  /\ rows = [r \in Req |-> << >>]
  /\ numCached = [r \in Req |-> 0]
  /\ content = [b \in Blocks |-> NoKey]
  /\ status = [r \in Req |-> "new"]
  /\ numTokens = PromptLen
  /\ computed = [r \in Req |-> 0]
  /\ placeholders = [r \in Req |-> 0]
  /\ running = << >> /\ waiting = << >> /\ skipped = << >>
  /\ prefills = {}
  /\ loads = [r \in Req |-> NoLoad]
  /\ received = {}
  /\ steps = << >>
  /\ deferred = << >>
  /\ turn = FALSE
  /\ now = Idle
  /\ later = 0 /\ aborts = 0

InFlight(r) == \E i \in DOMAIN steps : steps[i].to[r] # 0

\* add_request.
Arrive(r) ==
  /\ now.at = "idle"
  /\ status[r] = "new" /\ ~InFlight(r)
  /\ status' = [status EXCEPT ![r] = "waiting"]
  /\ waiting' = Append(waiting, r)
  /\ UNCHANGED <<kvVars, numTokens, computed, placeholders, running, skipped,
                 prefills, deviceVars, deferred, turn, now, later, aborts>>

------------------------------------------------------------------------------
(***************************************************************************)
(* schedule()                                                              *)
(***************************************************************************)

\* bail_reason: a request parked in any status but the one parked here.
Bails == \E i \in DOMAIN skipped : status[skipped[i]] # "loading"

\* _update_waiting_for_remote_kv: a received load is published, and after a
\* full hit the last token is computed again to have logits.
Promotable == {r \in Elements(skipped) : r \in received}
Promoted(p) ==
  LET s == Keep(skipped, Promotable)
  IN  Calls(p, [i \in DOMAIN s |-> Publishing(s[i], computed[s[i]])])

\* assemble_candidates: the skipped queue and then the waiting one, received
\* loads promoted and the others skipped again.  A step that bails runs the
\* stock loop over the same queues.
Schedule ==
  LET blocked == {r \in Elements(skipped) : status[r] = "loading"} \ Promotable
  IN  /\ now.at = "idle" /\ ~turn
      /\ waiting # << >> \/ running # << >> \/ skipped # << >>
      /\ pool' = Promoted(pool)
      /\ numCached' = [r \in Req |-> IF r \in Promotable THEN computed[r]
                                     ELSE numCached[r]]
      /\ status' = [r \in Req |-> IF r \in Promotable THEN "waiting"
                                  ELSE status[r]]
      /\ computed' = [r \in Req |-> IF r \in Promotable
                                    THEN Lesser(computed[r], numTokens[r] - 1)
                                    ELSE computed[r]]
      /\ received' = received \ Promotable
      /\ now' = [Idle EXCEPT
                   !.at = "running", !.stock = Bails, !.budget = TokenBudget,
                   !.seats = MaxRunning - Len(running),
                   !.cand = Drop(skipped, blocked) \o waiting,
                   !.skips = Keep(skipped, blocked)]
      /\ UNCHANGED <<rows, numTokens, placeholders, queueVars, content, loads,
                     steps, deferred, turn, later, aborts>>

Chunk(n) ==
  Lesser(now.budget,
         IF LongPrefill > 0 THEN Lesser(n, LongPrefill) ELSE n)

\* One iteration of phase 1's running loop: r gets the tokens it is behind by,
\* or nothing if it has none to compute.
Work(r) == Greater(0, Lesser(Chunk(numTokens[r] + placeholders[r] - computed[r]),
                             MaxLen - (computed[r] + 1)))
Looping == now.at = "running" /\ now.pos <= Len(running) /\ now.budget > 0
ScheduleRunning ==
  LET r == running[now.pos]
      n == Work(r)
  IN  /\ Looping
      /\ now' = [now EXCEPT !.pos = @ + 1, !.budget = @ - n, !.plan[r] = n]
      /\ \/ n = 0 /\ UNCHANGED kvVars
         \/ /\ n > 0 /\ Fits(r, << >>, computed[r] + n, 0, 0)
            /\ AllocateSlots(r, << >>, computed[r] + n, FALSE)
      /\ UNCHANGED <<reqVars, queueVars, deviceVars, deferred, turn, later,
                     aborts>>

\* Otherwise the last running request is preempted, possibly r itself, and
\* its blocks go back at once.
Preempt ==
  LET r == running[now.pos]
      victim == Last(running)
  IN  /\ Looping
      /\ Work(r) > 0 /\ ~Fits(r, << >>, computed[r] + Work(r), 0, 0)
      /\ pool' = FreeRows(pool, <<victim>>)
      /\ ForgetRows({victim})
      /\ running' = Front(running)
      /\ now' = [now EXCEPT !.preempted = Append(@, victim)]
      /\ UNCHANGED <<reqVars, waiting, skipped, prefills, deviceVars, deferred,
                     turn, later, aborts>>

Phase1Over == now.at = "running" /\ ~Looping

\* The probe: candidates with nothing computed, up to the free seats and until
\* their tokens fill the step.
Probed ==
  LET fresh == Keep(now.cand, {r \in Req : computed[r] = 0})
      before(i) == FoldLeft(LAMBDA t, r : t + numTokens[r], 0,
                            SubSeq(fresh, 1, i - 1))
  IN  {fresh[i] : i \in {j \in DOMAIN fresh :
                           j <= now.seats /\ before(j) < TokenBudget}}

\* get_num_new_matched_tokens: what the connector holds past the local hit.
Answers(r, hit) == {Later} \cup 0 .. Lesser(MaxExternal, numTokens[r] - Len(hit))

\* Phase 1 ends with the probe of the cache; every probed candidate's hit is
\* told to the connector, and "ask me later" drops it from the step.  The
\* prefills in flight before the step reserve what they still need.
AskConnector ==
  LET hit == [r \in Req |-> IF r \in Probed THEN HitBlocks(r) ELSE << >>]
  IN  /\ Phase1Over /\ ~now.stock
      /\ \E answer \in [Probed -> -1 .. MaxExternal] :
           LET dropped == {r \in Probed : answer[r] = Later}
           IN  /\ \A r \in Probed : answer[r] \in Answers(r, hit[r])
               /\ later + Cardinality(dropped) <= MaxLater
               /\ later' = later + Cardinality(dropped)
               /\ now' = [now EXCEPT
                            !.at = "waiting",
                            !.cand = Drop(@, dropped),
                            !.skips = @ \o Keep(now.cand, dropped),
                            !.probed = Probed \ dropped,
                            !.probe = hit,
                            !.ext = [r \in Req |-> IF r \in Probed \ dropped
                                                   THEN answer[r] ELSE 0],
                            !.reserved = RemainingOf(prefills)]
      /\ UNCHANGED <<kvVars, reqVars, queueVars, deviceVars, deferred, turn,
                     aborts>>

\* The stock loop goes on to its waiting arm without a probe.
SkipProbe ==
  /\ Phase1Over /\ now.stock
  /\ now' = [now EXCEPT !.at = "waiting"]
  /\ UNCHANGED <<kvVars, reqVars, queueVars, deviceVars, deferred, turn, later,
                 aborts>>

\* Phase 2's waiting loop, and the candidate at its head.
WaitingArm ==
  /\ now.at = "waiting" /\ now.cand # << >> /\ now.preempted = << >>
  /\ now.budget > 0 /\ Len(running) < MaxRunning

Candidate == Head(now.cand)

\* Admitted in this step for part of its prompt.
StartedPrefills ==
  {r \in Elements(running) : /\ status[r] = "waiting"
                             /\ computed[r] + now.plan[r] < numTokens[r]}

\* The stock loop walks and queries each candidate when it gets to it, and
\* reserves for every prefill in flight by then.
AskForOne ==
  LET r == Candidate
      hit == HitBlocks(r)
  IN  /\ WaitingArm /\ now.stock
      /\ computed[r] = 0 /\ r \notin now.probed
      /\ \E answer \in Answers(r, hit) :
           IF answer = Later
           THEN /\ later < MaxLater
                /\ later' = later + 1
                /\ now' = [now EXCEPT !.cand = Tail(@),
                                      !.skips = Append(@, r)]
           ELSE /\ now' = [now EXCEPT
                             !.probed = @ \cup {r}, !.probe[r] = hit,
                             !.ext[r] = answer,
                             !.reserved = RemainingOf(prefills
                                            \cup Elements(now.parked)
                                            \cup StartedPrefills)]
                /\ UNCHANGED later
      /\ UNCHANGED <<kvVars, reqVars, queueVars, deviceVars, deferred, turn,
                     aborts>>

Asked(r) == now.stock => computed[r] # 0 \/ r \in now.probed

\* Mutant: a recorded hit is installed without another look at its blocks.
StaleNever(r) == FALSE

\* take_probe_hit: an admission ahead in this step took a block of the hit.
Stale(r) ==
  /\ r \in now.probed
  /\ \E i \in DOMAIN now.probe[r] :
       ~BlockStillCachedAs(pool, now.probe[r][i], BlockHash[r][i])

LocalHit(r) ==
  IF computed[r] # 0 THEN << >>
  ELSE IF r \in now.probed /\ ~Stale(r) THEN now.probe[r]
  ELSE HitBlocks(r)

Admission == IF running # << >> THEN Watermark ELSE 0

\* Mutant: a stale hit is walked again although the connector was told it.
TurnedAwayNever(r) == FALSE

\* The connector's load is keyed to the hit it was told: a stale candidate
\* with external tokens is handed back.
TurnedAway(r) == Stale(r) /\ now.ext[r] > 0

TurnAway ==
  /\ WaitingArm /\ Asked(Candidate)
  /\ TurnedAway(Candidate)
  /\ now' = [now EXCEPT !.cand = Tail(@), !.stale = Append(@, Candidate)]
  /\ UNCHANGED <<kvVars, reqVars, queueVars, deviceVars, deferred, turn, later,
                 aborts>>

\* Mutant: a parked load reserves nothing for those behind it.
ReservedByNone(r) == 0

\* What a load that is parked reserves for those behind it in the step.
ReservedBy(r) == Greater(numTokens[r] - (Len(LocalHit(r)) + now.ext[r]), 0)

\* The parked arm: blocks for the local hit and the external tokens, nothing
\* computed and nothing published.
ParkedTarget(r) == Len(LocalHit(r)) + now.ext[r]
Park ==
  LET r == Candidate
  IN  /\ WaitingArm /\ Asked(r) /\ ~TurnedAway(r)
      /\ now.ext[r] > 0
      /\ Fits(r, LocalHit(r), ParkedTarget(r), Admission, now.reserved)
      /\ AllocateSlots(r, LocalHit(r), ParkedTarget(r), TRUE)
      /\ now' = [now EXCEPT !.cand = Tail(@), !.parked = Append(@, r),
                            !.reserved = @ + ReservedBy(r)]
      /\ UNCHANGED <<reqVars, queueVars, deviceVars, deferred, turn, later,
                     aborts>>

\* The ordinary arm.  num_computed_tokens of the request is what was cached.
Base(r) == IF computed[r] # 0 THEN computed[r] ELSE Len(LocalHit(r))
Admit ==
  LET r == Candidate
      n == Chunk(numTokens[r] - Base(r))
  IN  /\ WaitingArm /\ Asked(r) /\ now.ext[r] = 0
      /\ Fits(r, LocalHit(r), Base(r) + n, Admission, 0)
      /\ AllocateSlots(r, LocalHit(r), Base(r) + n, FALSE)
      /\ computed' = [computed EXCEPT ![r] = Base(r)]
      /\ running' = Append(running, r)
      /\ now' = [now EXCEPT !.cand = Tail(@), !.plan[r] = n, !.budget = @ - n]
      /\ UNCHANGED <<status, numTokens, placeholders, waiting, skipped,
                     prefills, deviceVars, deferred, turn, later, aborts>>

\* The loop ends at a candidate that does not fit.
Refused ==
  LET r == Candidate
  IN  /\ WaitingArm /\ Asked(r) /\ ~TurnedAway(r)
      /\ IF now.ext[r] > 0
         THEN ~Fits(r, LocalHit(r), ParkedTarget(r), Admission, now.reserved)
         ELSE ~Fits(r, LocalHit(r), Base(r) + Chunk(numTokens[r] - Base(r)),
                    Admission, 0)

\* Mutant: the candidates handed back as stale are forgotten.
StepSkippedWithoutStale == now.skips \o now.parked

\* step_skipped at the end of the step: kept back, parked, handed back.
StepSkipped == now.skips \o now.parked \o now.stale

\* The queues of the next step.  The stock loop leaves a candidate that it
\* promoted but did not admit in the skipped queue.
Leftover == IF now.stock THEN Drop(now.cand, Elements(skipped)) ELSE now.cand
KeptSkipped == IF now.stock THEN Keep(now.cand, Elements(skipped)) ELSE << >>

\* The step handed to the device: of every request scheduled the row, the
\* text computed and whether a token is sampled.
Advanced(r) ==
  IF r \in Elements(now.preempted) THEN 0
  ELSE IF r \in Elements(now.parked) THEN Len(rows[r])
  ELSE computed[r] + now.plan[r]
Known(r) == numTokens[r] + placeholders[r]
Scheduled == {r \in Elements(running) : now.plan[r] > 0}
ThisStep ==
  [ order   |-> Keep(running, Scheduled),
    from    |-> [r \in Req |-> IF r \in Scheduled THEN computed[r] ELSE 0],
    to      |-> [r \in Req |-> IF r \in Scheduled THEN Advanced(r) ELSE 0],
    row     |-> [r \in Req |-> IF r \in Scheduled THEN rows[r] ELSE << >>],
    samples |-> {r \in Scheduled : Advanced(r) >= Known(r)} ]

\* Everything after phase 2: parked loads, both queues, preempted and
\* admitted requests, the step's bookkeeping, and the step goes out with the
\* loads in its connector metadata.
Finish ==
  LET gone == Elements(now.preempted)
      parked == Elements(now.parked)
  IN  /\ now.at = "waiting"
      /\ ~WaitingArm \/ Refused
      /\ status' = [r \in Req |->
                      IF r \in gone THEN "waiting"
                      ELSE IF r \in parked THEN "loading"
                      ELSE IF r \in Elements(running) THEN "running"
                      ELSE status[r]]
      /\ computed' = [r \in Req |-> Advanced(r)]
      /\ placeholders' = [r \in Req |->
                            IF r \in gone THEN 0
                            ELSE IF r \in ThisStep.samples
                                 THEN placeholders[r] + 1 ELSE placeholders[r]]
      /\ waiting' = Reverse(now.preempted) \o Leftover
      /\ skipped' = StepSkipped \o KeptSkipped
      /\ prefills' = (prefills \cup parked \cup StartedPrefills)
                       \ (gone \cup ThisStep.samples)
      /\ loads' = [r \in Req |->
                     IF r \in parked
                     THEN [from   |-> Len(now.probe[r]) + 1,
                           blocks |-> SubSeq(rows[r], Len(now.probe[r]) + 1,
                                             Len(rows[r]))]
                     ELSE loads[r]]
      /\ steps' = Append(steps, ThisStep)
      /\ turn' = (Scheduled = {} \/ Len(steps) + 1 = Depth)
      /\ now' = Idle
      /\ UNCHANGED <<kvVars, numTokens, running, content, received, deferred,
                     later, aborts>>

------------------------------------------------------------------------------
(***************************************************************************)
(* The device, the connector's workers, and update_from_output().          *)
(***************************************************************************)

\* A transfer lands: its blocks hold the text it was asked for, and the
\* request is reported as received.
Land(r) ==
  LET l == loads[r]
  IN  /\ l # NoLoad
      /\ content' = [b \in Blocks |->
                       IF b \in Elements(l.blocks)
                       THEN BlockHash[r][l.from - 1
                              + CHOOSE i \in DOMAIN l.blocks : l.blocks[i] = b]
                       ELSE content[b]]
      /\ loads' = [loads EXCEPT ![r] = NoLoad]
      /\ received' = received \cup {r}
      /\ UNCHANGED <<kvVars, reqVars, queueVars, steps, deferred, turn, now,
                     later, aborts>>

\* What block b holds once the device is through with step s.
WrittenBy(s, b, before) ==
  LET at == {w \in Req \X (1 .. MaxLen) :
               /\ s.from[w[1]] < w[2] /\ w[2] <= s.to[w[1]]
               /\ s.row[w[1]][w[2]] = b}
  IN  IF at = {} THEN before
      ELSE LET w == CHOOSE w \in at : TRUE IN BlockHash[w[1]][w[2]]

\* Mutant: the drain is one step early.
DuePastFence(fence) == fence <= 1

\* drain_deferred_frees: entries whose fence step was processed.
Due(fence) == fence <= 0

Entries(left) == {i \in DOMAIN deferred : \A j \in 1 .. i :
                    Due(deferred[j].fence - left)}

\* Mutant: the drained ids go back to the python pool, which hands out nothing.
DrainedToPython(p, n) == p

\* The ids go back to the crate's pool: free_block_ids.
Drained(p, n) == Calls(p, [i \in 1 .. n |-> Freeing(deferred[i].blocks)])

\* fold_cache_blocks: what is final of a running request is published when its
\* token arrives.
FinalTokens(r) == computed[r] - Greater(placeholders[r] - 1, 0)
Folded(p, reqs) ==
  Calls(p, [i \in DOMAIN reqs |-> Publishing(reqs[i], FinalTokens(reqs[i]))])

\* update_from_output of the oldest step: the fence moves and the drain runs,
\* every sampled token is appended, of a preempted request too, and those in
\* `stop` end with it, as all at the end of the context must.  An ended
\* request that is in a step still in flight defers its blocks behind it.
Process(stop) ==
  LET s        == Head(steps)
      rest     == Tail(steps)
      counted  == IF s.order = << >> THEN 0 ELSE 1
      due      == Cardinality(Entries(counted))
      sampled  == {r \in s.samples : status[r] # "new"}
      ended    == Keep(s.order, stop)
      defers   == {r \in stop : \E i \in DOMAIN rest : rest[i].to[r] # 0}
      fence    == Cardinality({i \in DOMAIN rest : rest[i].order # << >>})
      parking  == Keep(ended, defers)
      decided  == {r \in sampled : status[r] = "running"}
  IN  /\ now.at = "idle" /\ steps # << >>
      /\ stop \subseteq sampled
      /\ \A r \in sampled : numTokens[r] + 1 >= MaxLen => r \in stop
      /\ content' = [b \in Blocks |-> WrittenBy(s, b, content[b])]
      /\ steps' = rest
      /\ turn' = FALSE
      /\ pool' = FreeRows(Folded(Drained(pool, due), Keep(s.order, decided)),
                          Drop(ended, defers))
      /\ deferred' =
           [i \in 1 .. Len(deferred) - due |->
              [deferred[due + i] EXCEPT !.fence = @ - counted]]
           \o [i \in DOMAIN parking |->
                 [fence |-> fence, blocks |-> rows[parking[i]]]]
      /\ rows' = [r \in Req |-> IF r \in stop THEN << >> ELSE rows[r]]
      /\ numCached' = [r \in Req |->
                         IF r \in stop THEN 0
                         ELSE IF r \in decided
                              THEN Greater(numCached[r], FinalTokens(r))
                         ELSE numCached[r]]
      /\ status' = [r \in Req |-> IF r \in stop THEN "new" ELSE status[r]]
      /\ numTokens' = [r \in Req |-> IF r \in stop THEN PromptLen[r]
                                     ELSE IF r \in sampled
                                          THEN numTokens[r] + 1
                                     ELSE numTokens[r]]
      /\ placeholders' = [r \in Req |->
                            IF r \in stop THEN 0
                            ELSE IF r \in sampled
                                 THEN Greater(placeholders[r] - 1, 0)
                            ELSE placeholders[r]]
      /\ computed' = [r \in Req |-> IF r \in stop THEN 0 ELSE computed[r]]
      /\ running' = Drop(running, stop)
      /\ waiting' = Drop(waiting, stop)
      /\ skipped' = Drop(skipped, stop)
      /\ prefills' = prefills \ stop
      /\ UNCHANGED <<loads, received, now, later, aborts>>

\* finish_requests, for a request that is not loading.
Abort(r) ==
  /\ now.at = "idle" /\ aborts < MaxAborts
  /\ status[r] \in {"waiting", "running"}
  /\ aborts' = aborts + 1
  /\ IF InFlight(r)
     THEN /\ deferred' = Append(deferred,
               [fence  |-> Cardinality({i \in DOMAIN steps :
                                          steps[i].order # << >>}),
                blocks |-> rows[r]])
          /\ UNCHANGED pool
     ELSE pool' = FreeRows(pool, <<r>>) /\ UNCHANGED deferred
  /\ ForgetRows({r})
  /\ status' = [status EXCEPT ![r] = "new"]
  /\ numTokens' = [numTokens EXCEPT ![r] = PromptLen[r]]
  /\ computed' = [computed EXCEPT ![r] = 0]
  /\ placeholders' = [placeholders EXCEPT ![r] = 0]
  /\ running' = Drop(running, {r})
  /\ waiting' = Drop(waiting, {r})
  /\ skipped' = Drop(skipped, {r})
  /\ prefills' = prefills \ {r}
  /\ UNCHANGED <<deviceVars, turn, now, later>>

------------------------------------------------------------------------------
Engine ==
  \/ Schedule \/ ScheduleRunning \/ Preempt \/ AskConnector \/ SkipProbe
  \/ AskForOne \/ TurnAway \/ Park \/ Admit \/ Finish
  \/ \E stop \in SUBSET Req : Process(stop)

Next == \/ Engine
        \/ \E r \in Req : Arrive(r) \/ Land(r) \/ Abort(r)

Spec == Init /\ [][Next]_vars

\* The engine thread runs while it has a request or a result (what it is
\* enabled by, written out), and a transfer lands in the end.
HasWork == \/ now.at # "idle" \/ steps # << >>
           \/ waiting # << >> \/ running # << >> \/ skipped # << >>
FairSpec == /\ Spec
            /\ []<>~HasWork \/ []<><<Engine>>_vars
            /\ \A r \in Req : WF_vars(Land(r))

------------------------------------------------------------------------------
(***************************************************************************)
(* Properties.                                                             *)
(***************************************************************************)
Texts == Keys \cup {NoKey}

\* Every variable has its type, and the pool is consistent between two calls.
TypeOK ==
  /\ PoolInv(pool)
  /\ rows \in [Req -> Seq(Blocks)]
  /\ content \in [Blocks -> Texts]
  /\ status \in [Req -> {"new", "waiting", "loading", "running"}]
  /\ \A r \in Req : /\ numTokens[r] \in PromptLen[r] .. MaxLen
                    /\ numCached[r] \in 0 .. Len(rows[r])
                    /\ computed[r] \in 0 .. MaxLen
                    /\ placeholders[r] \in 0 .. Depth
                    /\ loads[r].from \in 0 .. MaxLen
  /\ {running, waiting, skipped} \subseteq Seq(Req)
  /\ prefills \subseteq Req /\ received \subseteq Req
  /\ Len(steps) <= Depth
  /\ now.at \in {"idle", "running", "waiting"}

\* What a block that holds x will hold when the device is through with steps s,
\* and with those it has.
Held(x, b, s) == FoldLeft(LAMBDA t, u : WrittenBy(u, b, t), x, s)
Eventually(b) == Held(content[b], b, steps)

\* Between two steps, whatever probes, parked loads, evictions, preemptions
\* and late writes did, every position a request counts as computed holds the
\* request's own text (or will, when the steps before its next one are done),
\* unless a transfer is still on its way there: no request attends to another
\* one's KV.
RowsHoldTheirText ==
  now.at = "idle" =>
  \A r \in Req : \A i \in 1 .. Lesser(computed[r], Len(rows[r])) :
    loads[r] = NoLoad \/ i < loads[r].from
      => Eventually(rows[r][i]) = BlockHash[r][i]

\* A transfer runs beside the steps in flight and in no order with them, so
\* none of them may use a block it writes, nor may any other request.
LoadsAreExclusive ==
  \A r \in Req : \A b \in Elements(loads[r].blocks) :
    /\ \A i \in DOMAIN steps : \A q \in Req : b \notin Elements(steps[i].row[q])
    /\ \A q \in Req \ {r} : b \notin Elements(rows[q])

\* The transfer fills the row exactly from the end of the local hit that is
\* installed: the hit the connector was told is the one the row begins with.
LoadsStartAfterTheHit ==
  \A r \in Req : loads[r] # NoLoad =>
    /\ loads[r].from = numCached[r] + 1
    /\ Len(loads[r].blocks) = computed[r] - numCached[r]

Count(s, b) == Cardinality({i \in DOMAIN s : s[i] = b})

\* Every reference of a block is that of a row or of a deferred entry: blocks
\* on their way back through the fence are neither lost nor returned twice.
BlocksAccountedFor ==
  \A b \in RealBlocks :
    pool.ref[b] =
      SumFunction([r \in Req |-> Count(rows[r], b)])
        + SumFunction([i \in DOMAIN deferred |-> Count(deferred[i].blocks, b)])

\* Between two steps every request that is not finished is in exactly one
\* queue, once, and where its status says: a request the connector put off,
\* parked or handed back as stale is never dropped or doubled.
EveryRequestQueued ==
  now.at = "idle" =>
    LET all == running \o waiting \o skipped
    IN  /\ Distinct(all)
        /\ Elements(running) = {r \in Req : status[r] = "running"}
        /\ \A r \in Req : /\ status[r] = "waiting" =>
                               r \in Elements(waiting) \cup Elements(skipped)
                          /\ status[r] = "loading" => r \in Elements(skipped)

\* Requests and blocks are where their owners look for them: each request in
\* its queue, each reference in a row or behind the fence.
Consistent == TypeOK /\ EveryRequestQueued /\ BlocksAccountedFor

\* Whoever is parked leaves enough free blocks for every prefill in flight to
\* hold its whole sequence: those from before the step, those parked and those
\* started earlier in it.
ParkingLeavesRoom ==
  [][\A r \in Req :
       now'.parked = Append(now.parked, r) =>
         pool'.numFree >=
           RemainingOf(prefills \cup Elements(now.parked) \cup StartedPrefills)]_vars

\* Unless the connector puts one off, every request is served: parked, handed
\* back or preempted, it runs, and it is done, in the end.
EveryRequestEnds ==
  [](later = 0) => \A r \in Req : (status[r] # "new") ~> (status[r] = "new")
===============================================================================
