# TLA+ specifications of the LLM inference engine patches

The repository turns a stock vLLM into the served engine of round 2 by means
of a plugin (`round-2/vtl`, Python) and a native extension
(`round-2/vtl-sched`, Rust) that takes over vLLM's scheduler and KV-cache
manager. This directory models the parts of it whose correctness depends on
an order of events: the KV-cache block allocator and prefix cache, for
attention and for hybrid models; the thread that computes the next scheduling
step ahead of time on the live state; the scheduling loop with the two records
of every running request it keeps; scheduling with a KV connector, whose loads
land when they like; the handshake with the runner that samples on the device;
and the channels that carry requests in and output out over two transports.
The pure algorithms these rest on (the hash index, the stop decision, the token
and hash store, what a burst and a fast decode step do to the worker's buffers)
are modelled as operators and proved about; the order of the waiting queue is
modelled as operators and checked.

    tlc -config FullAttentionCache.cfg      MCFullAttentionCache
    tlc -config HybridCache.cfg             MCHybridCache
    tlc -config ConnectorSplit.cfg          MCConnectorSplit
    tlc -config ConnectorWedge.cfg          MCConnectorSplit  # fails: finding 3
    tlc -config Speculation.cfg             MCSpeculation
    tlc -config ResidentTable.cfg           MCResidentTable
    tlc -config ResidentTableQueues.cfg     MCResidentTable
    tlc -config ResidentTablePreempted.cfg  MCResidentTable   # fails: finding 1
    tlc -config RunnerHandshake.cfg         MCRunnerHandshake
    tlc -config OutputChannel.cfg           MCOutputChannel
    tlc -config OutputChannelRunner.cfg     MCOutputChannel   # fails: finding 2
    tlc -config RequestChannel.cfg          RequestChannel
    tlapm BlockPoolProofs.tla
    tlapm FullAttentionCacheProofs.tla
    tlapm StepProofs.tla
    tlapm RunnerHandshakeProofs.tla
    tlapm OutputChannelProofs.tla
    tlapm RequestChannelProofs.tla
    tlapm ResidentTableProofs.tla
    tlapm ConnectorSplitProofs.tla

Paths below are relative to `round-2/vtl-sched/src/` unless they begin with
`vtl/`, which stands for `round-2/vtl/`.

## 1. Inventory

| Part | Code | State it keeps | Operations |
|---|---|---|---|
| Block pool | `block_pool.rs`, `radix.rs` | arena of blocks (`ref_cnt`, hash, queue links), free queue with its counter, index hash -> blocks | `get_new_blocks`, `touch`, `free_blocks`, `cache_full_blocks`, `evict_blocks`, `reset_prefix_cache` |
| Single-type managers | `single_type.rs` | `req_to_blocks`, `num_cached_block`; for the mamba group `cached_blocks_this_step`, `last_state_block_idx`, `allocated_block_reqs` | block counting, hit walk, allocation, caching, `remove_skipped_blocks`, free |
| Coordinator | `coordinator.rs` | one manager per group over one pool | unitary and hybrid hit walk, allocation over groups in a fixed order |
| Manager | `manager.rs` | slots of requests, resident request table, probes, reserved blocks, deferred frees, bursts | `allocate_slots`, `cache_blocks`, `free`, `take_probe_hit`, `update_step`, `intern`/`forget` |
| Scheduling loop | `sched.rs` | token budget, running and waiting order of one step, decisions | `run`, or `schedule_phase1` and `schedule_phase2` with the KV connector asked in between |
| Stop decision | `update.rs` | none of its own | `check_stop`, `apply_tokens`, `merge_step_verdicts` |
| Speculative precompute | `spec.rs`, `journal.rs`, `python.rs` | mailbox, pending result, undo journal, window flag, poison flags | worker loop, `kick`, `take_speculative`, `invalidate`, `rollback` |
| Python scheduler | `vtl/patches/rust_sched.py` | request objects, resident-table generation, dirty and off flags, deferred frees, bursts | `schedule`, `update_from_output`, `maybe_kick`, burst commit and undo |
| Waiting-queue policy | `vtl/patches/sched_policy.py`, `kv_cache_manager.py`, `sched.rs` | the order of the waiting queue | sort by uncached prompt, those that do not fit last |
| Burst decode | `vtl/patches/nstep_decode.py`, `rust_sched.py` | steps in a burst, accepted tokens; on the device the token, accumulator and counter buffers, captured graphs per size | eligibility, commit, uncommit; capture, demotion, the rungs of `_run_burst` |
| Decode fast path | `vtl/patches/decode_fastpath.py` | the cached batch: key, rows, gathered tables | `_eligible`, `_recache`, `_fast_inputs`, `_fast_attn`, `reset` |
| Output and input channels | `vtl/patches/shm_ipc.py`, `out.rs`, `input.rs` | shared ring, ZMQ sockets, connected latch, pub thread | publish with fallback, pre-delivery, request channel |
| Token store, hashing | `tokens.rs`, `hash.rs` | tokens and block hashes of every request | append, hash full blocks |
| Runner | `vtl/patches/rust_runner.py`, `gpu.rs` | captured graphs, rows of requests | dispatch, slot ownership |
| Kernels, quantization, sampling | `vtl/patches/*.py`, `vtl/csrc`, `vtl/kernels` | weights on the device | numerics |
| Plugin | `vtl/plugin.py`, `vtl/registry.py` | which patches are on | applied once, in order |

How they meet. The engine core calls the Python scheduler, which hands a step
to Rust (`schedule`, or the two phases with the connector queried between
them). The loop calls the manager for every request, the manager calls the
coordinator, the coordinator its single-type managers, and these the pool.
`update_from_output` reports sampled tokens back (`update_step`), which
publishes full blocks and decides stops; blocks are freed in it or, when the
device may still write to them, after a later step. All of that runs under
one lock, which a worker thread takes as well: after every step the engine
*kicks* it with the parameters of the next step, and the worker runs that step
on the real state with an undo journal armed. The next `schedule()` takes the
result if nothing it depends on has changed, and otherwise every call that is
about to change the state rolls the journal back first.

What is hard here:

* a block is in the queue, in tables and in the index in all combinations;
  correctness is a relation between the four structures after any history;
* hits share blocks between requests that come, stop, are preempted and
  return in any order, while the computed length runs ahead of the final one;
* the worker writes the state the engine will use, and every call of two
  other threads may come at any moment of its run; the run may fail or panic
  half-way, and so may a call that holds the lock;
* the phase-split step leaves the lock in its middle;
* counters, caps and watermarks meet at the boundary of the pool and of the
  context;
* a mamba layer has one state where attention has a block per page of text:
  it is copied, published, freed behind and reused in the same step in which
  others do so;
* a transfer of the connector writes blocks in no order with the steps on the
  device, and its request waits outside the queues while it does;
* the scheduler runs a step ahead of the update, the worker samples between
  the two, and what each leaves for the other is keyed by step, slot or request,
  any of which may be gone when it is read;
* a stream changes its transport in the middle, decided on either side.

What makes each part correct:

* *Pool*: the queue is the set of unreferenced blocks, each once; counter,
  hashes and index agree (`PoolInv`).
* *Manager*: references are exactly the holders; a hit holds the text it is
  found under; every request reads its own text; nothing shared or cached is
  written; admission never lets an allocation fail half-way; the reuse order
  leaves no cached block without its prefix.
* *Speculation*: the engine cannot tell it from a scheduler without it;
  rolling back is exact at every moment; the lock is given back.
* *Hybrid cache*: every state a request continues from is its own, written,
  and at the text it stands for; what is published is the state at the end of
  its block; nobody holds more than two.
* *Connector*: a hit that was probed is revalidated before it is touched; the
  blocks of a load are nobody else's until it lands, and what it was parked
  with leaves the prefills in flight their room.
* *Loop, queues*: nobody is lost, queued twice or overtaken by a rebuild of the
  queue; blocks held cover what is computed and promised; everybody finishes.
* *Bursts, resident table*: the Rust table and the Python objects agree
  whenever a step is computed from the table; promises count the tokens the
  steps in flight will bring, also when a burst comes back short.
* *Runner*: a request gets the tokens its steps computed, once and in order,
  whoever commits them and whatever became of its slot.
* *Channels*: output arrives once and in order, whichever transport carries
  it; a request or an abort is handled once, and an abort ends its request.
* *Burst on the device*: n tokens of a burst are those of n stock steps, however
  the burst is cut into graphs, and leave the device where they leave it.
* *Decode fast path*: a step that reuses the last batch reads what stock would
  have built for it.
* *Token store, index, stop decision*: each stands for a simpler thing (the
  text, a flat map, the decision about all tokens at once) after any history.

## 2. The modules

| Module | Models | Kind |
|---|---|---|
| `BlockPool` | `block_pool.rs` | operators from pool to pool, no variables |
| `FullAttentionCache` | `Manager::allocate_slots` and what it calls, for one full-attention group | state machine over `BlockPool` |
| `DirectScheduler` | what the engine asks of a scheduler: a step, or its two phases | abstract specification |
| `Speculation` | `spec.rs`, `journal.rs`, the lock discipline of `python.rs` | state machine, implements `DirectScheduler` |
| `ScheduleLoop` | the two loops of `sched.rs`, and what a step writes to an entry | operators, no variables |
| `ResidentTable` | `schedule()` and `update_from_output()` of `rust_sched.py` on the Python objects and the resident table, with bursts | state machine over `ScheduleLoop` |
| `HybridCache` | the manager with a full-attention and a mamba group (`coordinator.rs`, `single_type.rs`) under the loop of `sched.rs` | state machine over `BlockPool` |
| `ConnectorSplit` | `schedule()` in two crate calls with the connector between them, parked loads, deferred frees | state machine over `BlockPool` |
| `RunnerHandshake` | stash, pinned ring and commit between scheduler, worker and crate (`rust_runner.py`, `nstep_decode.py`, `rust_sched.py`) | state machine |
| `OutputStream` | what the output path promises | abstract specification |
| `OutputChannel` | the output path of `shm_ipc.py`, the inline publish, the front end's readers | state machine, implements `OutputStream` |
| `RequestChannel` | the request path: the front end's sink, two receiving threads, the engine's two queues | state machine |
| `RadixIndex` | the prefix-cache index as a flat map and as buckets (`radix.rs`) | operators, no variables |
| `StopDecision` | `update.rs`: one token, one step, the launches of a step | operators, no variables |
| `TokenStore` | who keeps tokens and block hashes: `tokens.rs`, the facade, the mirror | operators from state to state, no variables |
| `BurstDecode` | a burst on the device, the graphs and when they are captured (`nstep_decode.py`) | operators from device state to device state, no variables |
| `WaitingQueue` | the orders of the waiting queue (`sched.rs`, `sched_policy.py`, `kv_cache_manager.py`), what a step is offered, the queues it leaves (`rust_sched.py`) | operators, no variables |
| `DecodeFastpath` | `decode_fastpath.py`, with the worker's rows and tables | operators from state to state, no variables |
| `MC...` | values of the constants, and comparisons of the pure modules | instances for TLC |
| `...Proofs` | | proofs about the module they are named after; those about `RadixIndex` are in `BlockPoolProofs`, those about `Speculation`, `BurstDecode`, `DecodeFastpath`, `StopDecision` and `TokenStore` in `StepProofs`, those about `ScheduleLoop` in `ResidentTableProofs` |

### BlockPool

A pool is a record: `free`, `numFree`, `ref`, `hash`, `index`. Each method of
`BlockPool` that changes it is an operator (`GetNewBlocks`, `Touch`,
`FreeBlocks`, `CacheFullBlocks`, `EvictBlocks`, `ResetPrefixCache`); methods
that can refuse have their guard as an operator of its own
(`CanGetNewBlocks`, `CanResetPrefixCache`). The doubly linked list becomes a
sequence. `Keep` (filtering a sequence) is written in closed form instead of
recursively so that it can be reasoned about; `MCFullAttentionCache` assumes,
and TLC evaluates, that it is `SelectSeq`. Secondary hashes are left out:
only `cache_partial_block` makes them, which nothing in the engine calls.

### FullAttentionCache

One action per handler: `Admit` (waiting loop), `Extend` (running loop),
`Sampled` and `Stop` (`update_from_output`, with the `cache_blocks` call at
the end of it), `Preempt`, `Abort`, `Evict`, `Reset`. `AllocateSlots` is
`allocate_slots` from its admission test to its `cache_blocks`, in that order:
touch the hit, take new blocks, publish the full blocks of final tokens.

The scheduling *policy* is left open on purpose: any request may be admitted,
extended by any number of tokens, preempted or aborted at any moment, so the
properties hold for every policy, budget and preemption order. `Ahead` is the
number of placeholders an asynchronous step schedules past the final tokens.
`kv` is what the device wrote, kept as "the first `filled` tokens of the text
block named `key`"; it exists so that "the cache answers with the right text"
can be said at all. `BlockHash` chains (`ChainedHashes`), as `hash.rs` does.
A step's writes are part of scheduling it: steps run on the device in the
order they are scheduled, and a write in flight for a request that was freed
lands before the writes of the block's next owner.

### Speculation and DirectScheduler

`DirectScheduler` is the engine's view: a state, a generation, and the
decisions it received last. The scheduling functions are constants
(`Result`, `Decision`, `Probe`, `ProbeResult`, `Admission`, `AdmitResult`),
so the results hold for any scheduler. `Speculation` adds the worker. A locked
call is one step, possible when the worker is not running; the worker's run is
`Begin`, any number of `Write`s, each journaled, and `Complete`, `Abandon`
(the run returns `Err`) or `Panic`. `Reader` and `Writer` are `r()` and `w()`:
what `lock_shared` does on a poisoned lock, and `invalidate`. `base` is an
auxiliary variable, the state without the speculation in flight; the
refinement maps the abstract state to it. The order in which `rust_sched.py`
makes its calls is not assumed, nor which thread makes them.

### ScheduleLoop and ResidentTable

`Schedule` is one `ScheduleCore::run`: `Phase1`, a fold of `RunOne` over the
running queue, then `Phase2`, a fold of `AdmitOne` over the waiting queue if
nobody was preempted. `Without` is `remove_all`. An entry is `T` (known tokens), `C` (computed), `P` (promised), `chunk` and
`status`. Blocks are counted, not named: which block a row holds is the
subject of `FullAttentionCache`. The fold evaluates each loop state once
(`Once`); that changes the time TLC needs and not the value.

`ResidentTable` keeps both records of a request, `req` (Python) and `table`
(crate). Every step advances and updates them by their own code, so that
`TableMatches` compares two translations: `UpdatedObject` is
`_update_request_with_output`, `UpdatedEntry` is `update_step` and
`table_burst`. One action per handler:

| Action | Code |
|---|---|
| `AddRequest`, `Abort` | `add_request`, `finish_requests` |
| `ScheduleStep` | `schedule()`: marshal or read the table, cap admissions, run the loop, rebuild the queue, advance both records, commit a burst, fail to, or leave it |
| `StockStep` | a bail: stock vLLM schedules, the table is dirty |
| `Update` | `update_from_output()` of the oldest step in flight and `maybe_kick`'s resync |

A request accepts any number of the tokens offered, with or without a stop, as
`check_stop` allows. A step that promised bursts offers some or all of them, or
one token (the runner could not take it). The failing commit leaves any subset
of the table moved. Two steps can be in flight (`Depth`), the engine's batch queue under
asynchronous scheduling. The subtraction of accepted tokens on the Python side
is `AsyncScheduler`'s, which is not in the repository and is modelled from the
comments and tests around it; the R9 residue loop, which saturates itself, is
another arm and is not modelled. The result of a speculation equals the
direct step (run `speculation`), so the loop is called directly here.

### HybridCache

`schedule()` is cut at its iterations (`Schedule`, `ScheduleRunning`,
`Preempt`, `Admit`, `Finish`); `Process` is `update_from_output`. A request has
two rows over one pool. `kv` is as in `FullAttentionCache`; `ssm` has a place
for every block of the text, and all places but those of the running state
and of the state it was copied from hold the null block. The walk is over both
groups (a hit must be found in both), `remove_skipped_blocks` comes before the
admission test as it does in the code, so that a refused request has already
given states back, and `cachedNow` is `cached_blocks_this_step`: a state that
another request publishes in this step is not there yet when the runner copies
states. `content` is what the device wrote, by the key it would be published
under.

### ConnectorSplit

The engine thread runs `schedule()` and `update_from_output()` one after the
other; the module cuts `schedule()` at its two crate calls and at every
candidate:

| Action | Code |
|---|---|
| `Schedule`, `ScheduleRunning`, `Preempt` | promotion of landed loads, `schedule_phase1` |
| `AskConnector`, `SkipProbe` | the probes, and `get_num_new_matched_tokens` for each |
| `AskForOne`, `TurnAway` | a candidate that was not probed, or put off |
| `Park`, `Admit` | `schedule_phase2`: an asynchronous load, or a start; a stale probe is handed back |
| `Finish` | the queues rebuilt, the step handed over |
| `Land` | the transfer is done |
| `Process`, `Abort` | an update, a request ended from outside; blocks go back at once or behind the fence |

The connector answers anything: no tokens, some past the local hit, or "ask me
later". A step after a promotion goes to stock vLLM's loop where the code bails.
A fence counts the steps still to come in before a deferred entry is freed. A
request that ended may come again under its id, with the same prompt.

### RunnerHandshake

A token is `<<step, launch>>`, so that "the tokens its steps computed" can be
said: as a set, with the order of steps and launches on it. `Schedule` bumps the sequence and writes the stash, `SampleInPython`,
`SampleByLaunch`, `LaunchRaises` and `SampleAndCommit` are the worker's
`sample_tokens`, `Update` is `update_from_output`: from the ring, from `done`,
or by `decide()`. Both values of `VTL_RUST_RUNNER_COMMIT` are in the run.
Requests are interned by the input thread on arrival and forgotten at their
end, and the slot goes to the next.

### OutputStream and OutputChannel

`OutputStream` is a queue: batches are emitted and sent once, in order.
`OutputChannel` has the engine thread (`Schedule`, which takes the answer of
`out_publish_ready`, and `UpdateDecide`, which uses it one update later;
`BeginCommit`, `Launch`, `EndCommit` around the launches of a runner step;
utility replies; its death), the output thread (`OpenChannel`, `Take`,
`SendOverShm`, `SendOverZmq`, `Count`, `SendDead`) and the front end
(`Subscribe`, `ReaderFails`, `ReadShm`, `ReadZmq`). The order of the stream is
that in which batches are handed to a transport; what the two readers of the
front end do with one batch on each is outside it. The refinement maps
`pending` to what the output thread holds, the queue, and the records a commit
has kept.

### RequestChannel

One task per message in the front end (`Check` the live flag, `Publish`,
`Notify`, or clear the flag and `SendZmq`); the shared-memory thread of either
kind (Python's or the crate's) that drains, waits and may die; the ZMQ thread;
the engine thread, which takes `input_queue` in order and `aborts_queue` whole.
The two copies of an abort are put on the two queues in two steps.

### RadixIndex, StopDecision, TokenStore

`RadixIndex` has every operation of the flat map and of the buckets, and
`StandsFor`, the relation between the two. `StopDecision` has `check_stop` and
`apply_tokens` in closed form (the first token at which one of the conditions
holds), and the launches of a runner step, each decided on the totals of those
before. `TokenStore` is what happens to a request's tokens and hashes from its
arrival (`Arrived`) to its end (`Drop`): the mirror's slot of it (`SlotOf`),
the store taking over (`TakeOver`), a step that accepts tokens for a batch, all
through the store or all in Python (`Step`), the hand-back (`Materialize`). A
hash is the text it covers. `Sound` says that slots are their owners' and that
every request's text is whole with whoever keeps it. Arming and the boot-wide
disable are taken as done. A slot interned early by the input thread is the
same as one interned on first sight, and a hand-back after the slot is gone owes
nothing but the class of the object.

### BurstDecode

A device state is a record of the buffers a decode step uses: what
`prepare_inputs` writes, the keys and recurrent states, the persistent hidden
states, and the burst's own token, accumulator and counter. Every kernel is an
operator on it (`Sample`, `Feed`, `AccumTail`, `Forward`), a captured graph a
composition of them (`Body`, `UnrollGraph`, `ContinueGraph`), and `RunBurst` and
`RunBurstRust` are the arms of `_run_burst` and `_run_burst_rust`. `StockStep` is
what stock vLLM does for one token. The model is two operators, `Recur` (a
recurrent state and a token) and `Decode` (a text and a recurrent state): nothing
is assumed of them. The recurrent state is kept in the columns of the align mode,
one per block, and a step into a new block copies it first (`PreCopied`); a burst
does neither the copy nor the change of column, which is why there is an align
gate (`Gated`). Rows past `num_reqs` are padding; the captured graphs run over them.
`CaptureSize`, `Demote` and `CaptureDone` are what a boot makes of captures that
fail, and `Rung` which of the graphs a step then takes.

### DecodeFastpath

The state is the worker's rows and tables and the cached batch of `_Cache`.
`Step` is a step of the worker through the three wrapped seams: `Updated` (what
vLLM does with the scheduler's output), then the fast path or stock and
`Recached`; the first seam that raises falls back in the same step, the last
resets the cache for the next. A step of no tokens changes the rows and does not
come to the seams: the cache then names requests that may be gone, which `Fresh`
has to allow. `plain` and `settled` stand for the conditions of `decode_key` and
`_recache` that are about the kind of a step and not about its requests.

### WaitingQueue

With `VTL_ENABLE_SCHED_POLICY` on, the request with the fewest uncached prompt
tokens is admitted first, and in a pool under pressure those that fit the free
blocks before those that do not. The crate does this in `reorder_waiting`
(`ReorderWaiting`, a sort of keys that end in the index); a step that falls back
to stock vLLM goes through the policy patch instead (`PolicyOrder`, a stable
sort). The two must agree, or a step that falls back admits others than the
step before promised. `Offered`, `Withheld` and `Rebuilt` are the queues of one
step under a connector, in the order of the code: candidates from both queues,
the cap, "ask me later", the crate's order, and the two queues cleared and built
again; without a connector `skipped` is empty. The state machines admit in
order of arrival; `ResidentTable` has the cap in its steps.

## 3. Runs

| Run | Question | Distinct states |
|---|---|---|
| `full_attention` | Does the cache stay consistent and truthful, and its prefixes whole, whatever the loop does? | 82,845 |
| `hybrid_cache` | Does every request of a hybrid model find its own state, and every block hold what its hash says? | 97,094 |
| `connector_split` | Do probes, parked loads, preemptions and steps in flight leave rows, transfers and queues right? | 64,820 |
| `speculation` | Is a precomputed step indistinguishable from a direct one, and does the lock always come back? | 209,032 |
| `resident_table` | Do the two records of a request stay the same numbers through bursts, fallbacks and stock steps? | 55,619 |
| `resident_queues` | Is a request lost, duplicated or overtaken; are blocks counted right; does everybody finish? | 44,332 |
| `runner_handshake` | Does every request get exactly the tokens its steps computed? | 1,370,409 |
| `output_channel` | Is the output path an ordered exactly-once stream? | 100,413 |
| `request_channel` | Is a message lost, doubled or missed; does an abort end its request? | 284,962 |
| `resident_preempted` | finding 1 | violation |
| `output_runner` | finding 2 | violation |
| `connector_wedge` | finding 3 | violation |

*full_attention*. Two requests with the same first block of text and a
different second one, blocks of two tokens, three usable blocks, a context of
six tokens. Three blocks are fewer than two full tables need, so refusal,
preemption, eviction of cached blocks and re-caching of a hash by a second
block all occur; two tokens per block is the least with a partly filled
block; the watermark of one block is the least that matters. `MaxEvictions`
bounds the out-of-band `evict_blocks` calls to one, which is enough to make a
hole in a cached prefix (the property about the reuse order takes evicted
hashes into account). Deadlock is checked. The run evaluates three
assumptions as well: `KeepIsSelectSeq`; `RadixIsFlat`, all histories of five
inserts and pops with hashes that share a bucket and blocks that share a hash;
`StoreIsSound`, all histories of nine calls of `TokenStore` with two requests,
two slots, blocks of two tokens and texts of at most six.

*hybrid_cache*. Seven usable blocks of two tokens, two seats, a budget of four
tokens so that prompts are cut, three requests of two, three and six tokens of
prompt, of which two share two blocks of text, the second being generated by
one and given to the other: a state is published by a decode and hit by
a prefill. Two steps in flight. The three do not fit together, so requests are
preempted and states evicted. Each request comes once.

*connector_split*. Three usable blocks of one token, two requests with prompts
of two and a context of three, which do not fit together. The connector
may hold a whole prompt; one "ask me later" and one abort occur. The texts share
nothing: what a request hits locally is then its own from an earlier life,
which suffices for a stale probe, since the other request evicts it. Deadlock
is checked. *connector_wedge* gives the context one token more, so that a
preempted request needs all but what a promoted one holds.

*speculation*. Two cells, values and parameters small enough that results
differ between generations, slots and parameters, one generation change and a
journal of two entries: two writes to one cell are the least that tell the
first recorded value from the last, and a full journal is reached. The
run also checks, as an assumption, that the closed form of `Undo` is the
reverse pass of `Journal::rollback`.

*resident_table*. Two requests of different lengths, one that ends at its
`max_tokens` and one at the context; blocks of four tokens, bursts of two
tokens and one or two bursts in a step, so that the gate refuses at a block
boundary and at the cap, and grants one where two do not fit; a budget of two
tokens, so that a prefill advances by single tokens beside a decoding request,
which is the state that sets off the burst alarm. The six
blocks are a whole context for both seats: nobody is preempted in this run, which
is what `RecordsAgree` asks (section 5), and `TableMatches` and
`PromisesInFlight` are claimed under that condition only. What preemption does
to them is finding 1.

*resident_queues*. Four requests, three seats, eight blocks of two tokens. The
first prompt is 16 tokens in chunks of eight: its second chunk takes four
blocks and preempts both requests behind it in one step, the least in which
the order of the preempted can go wrong. The cap on mixed admissions is one, so
requests are withheld; some steps are scheduled by stock code. No bursts.

*runner_handshake*. Three requests on two slots, so that a slot is recycled
while a launch of its last owner is unread; four steps, which is two more than
are in flight; up to two launches in a step; both commit modes; requests are
symmetric. The run also evaluates the assumptions of `MCRunnerHandshake`:
`LaunchesAreOneStep`, `StopDecision` over every step of two launches of two
tokens for two rows; `BurstIsStockSteps`, every rung of `_run_burst` and one or
two launches of `_run_burst_rust` against as many stock steps, from every gated
position of two rows in a batch of three whose buffers hold what a wider batch
left; `GateIsNeeded` (the comparison fails without the gate, and with the unrolled
graph launched twice); `GateIsAboutTheDevice`, below; `LaddersAreSound`, every
outcome of the captures at two sizes; and `FastStepsReadStockInputs`, every four
steps of two requests, with the fast path taken both with the cached tables
and with tables gathered again.

*output_channel*. Two set-ups: inline publish without a runner, and everything
through the queue, with a runner's records and utility replies. Three batches
and a buffer of one: one batch can be held, one queued and one emitted, and the
buffer is full after one. Batches with tensors outside the message, which
take ZMQ, occur.

*connector_split* also evaluates the assumptions of `MCConnectorSplit`:
`OrdersAgree`, both orders of three requests (fresh, resumed, with more or less of
their text cached) at four degrees of pressure; `QueuesAreWhole`, that nobody is
lost or doubled when the queues of four waiting requests are rebuilt, for every
split, cap, answer and outcome; `WithheldIsDiscounted`, that a burst waits for
exactly the requests the crate was offered and left, the preempted and the
skipped; and `CapOfOneIsArrivalOrder`, below.

*request_channel*. Two requests, each with its ADD and its ABORT, either
reader, a buffer of two records.

No deadlock is checked where the system may rest: the engine is idle once all
requests have finished, a channel once all has been said. The
liveness properties say that nobody stops earlier.

*Findings.* 1: a request preempted with a token in flight keeps a promise of
-1 on its Python object, because the clamp runs before the subtraction;
admitted again, object and table differ by one, against the comments at
`rust_sched.py:6090` and `rust_sched.py:2803`. With bursts on, that request is
off the shape of `burst_invariant_broken` for the rest of its life and sets off
the alarm. 2: with the inline publish and the runner on, as `docker-compose.yaml`
ships them, the answer of `out_publish_ready` is taken when a step is scheduled
(`rust_sched.py:3817`) and used when it is updated, behind the update of the step
before: a batch that one has queued is overtaken, against `rust_runner.py:181`
("inline shm publish is safe this step"). `ImplementsStream` therefore holds,
and is checked, for the set-ups without that combination only. 3: a request whose load has landed is
promoted into `waiting`; if the same step preempts another, the preempted one is
put before it (`rust_sched.py:6103`), and the promoted one keeps the blocks of
its load. Where the preempted one needs more than the rest of the pool, the
second phase stops at it in every step, nothing runs that could give blocks
back, and both hang. The comment at `rust_sched.py:5049` says that "the
very next schedule admits it". Stock vLLM keeps a promoted request in
`skipped_waiting`, which is served first. (In a pool too small for a
request that was put off and stands before a promoted one, stock hangs too; the
bounds keep that out.)

*Disagreements noted and not kept as runs.* Each is between a comment
and the code beside it; none is a run of its own.

* `rust_sched.py:3616` says that `published` is "bumped by the output thread
  after each queue item is actually sent" and that the two counters "must start
  from the same step or their gap never closes". Replies to utility calls take the
  queue without a bump of `enqueued` and are counted in `published`
  (`shm_ipc.py:1119`): an inline publish overtakes them, and the gap does not
  close. The passing run has utility replies where nothing is published inline.
* `sched.rs:394` (and `sched.rs:632`) says that the reservation of a parked load
  grows with what the loop admits, "exactly as stock's `_inflight_prefills.add`
  makes the next iteration see" it. Added are the loads parked in the loop; a
  prefill that the loop has started on part of its prompt is not. With a
  `long_prefill_token_threshold` the loop can go on behind such a one, and a load is
  then parked on its room: `ConnectorSplit.cfg` with `LongPrefill = 1` fails
  `ParkingLeavesRoom`. Without a threshold, as in the run and by default, what
  starts in part has used up the budget.
* `docker-compose.yaml:195` turns the shortest-prefill order on and
  `docker-compose.yaml:471` sets the cap to one. While anything runs, the crate is
  then offered a single candidate and its order is that of arrival
  (`CapOfOneIsArrivalOrder`): the policy acts on steps with nothing running only.
  `rust_sched.py:6066` says of a withheld request that "it is at the head of the
  queue for the very next `schedule()`"; it is behind whatever the crate was
  offered and left.
* `shm_ipc.py:1100` calls the demotion to ZMQ "FOR GOOD"; `DemotionIsFinal`
  states what holds, of set-ups without an inline publish only: for good once
  shared memory has carried a batch and another has gone over ZMQ. With the inline
  publish, which `docker-compose.yaml:422` ships, the latch is the output thread's
  alone: the crate does not look at it and publishes over shared memory again.
* `rust_sched.py:3902` says "Cannot happen: a multi-launch commit requires the
  inline publish"; with more than one launch in the set-up of `output_runner`, a
  subscriber that is gone or full at the commit leaves two records, of which one
  is queued and the other is lost (`AllAccountedFor` fails).
* `rust_sched.py:4358` says of a step in which stock `check_stop` decided for
  some request that the table "missed a token delta and must be resynced before
  it can be scheduled from again". The resync is in `maybe_kick`, which
  `update_from_output` calls only with `VTL_RUST_SCHED_SPEC` on
  (`rust_sched.py:4499`). With it off and `VTL_RUST_SCHED_TABLE` on, the table
  stays clean and misses the tokens: `ResidentTable.cfg` with `Speculate = FALSE`
  fails `TableMatches`. `docker-compose.yaml:453` ships both on; the comment above
  it has "SPEC->0 (table only)" as the first rung of a revert ladder.
* `rust_sched.py:6028` says a promoted request that was not admitted "keeps
  its place at the FRONT of the rebuilt queue"; those preempted in the step are
  put before it (finding 3).
* `vtl/patches/nstep_decode.py:872` says of a burst refused on the device that
  it "costs the step its N-1 extra tokens and nothing else". The gate of the next
  burst is evaluated on the count the scheduler promised
  (`rust_sched.py:5070`), which the device has not reached until the refusal is
  reconciled, one update later: a burst that fits its block at the promised count
  may cross into the next one where the device is, and then uses the recurrent
  state of the wrong column. `GateIsAboutTheDevice` is such a case; the theorems
  take the gate where the device is. A hybrid model is needed for the difference.
* `vtl/patches/nstep_decode.py:397` says "In graph mode `rows == pad` by
  construction (a burst graph is only used when the real batch is exactly the
  captured size)"; line 802 that padded batches "ARE NOW ALLOWED", which is what the
  code does and `BurstDecode` has.
* `shm_ipc.patch:115` says one channel for all requests means "an ABORT can
  never overtake the ADD it aborts", and line 417 that the transport "never
  flip-flops mid-stream". Tasks of two messages run concurrently in the sink,
  and the first copy of an abort does overtake its ADD in the engine;
  `AbortEndsRequest` claims the end of the request where both took the same
  transport.

Every property has a mutant of the code (an operator marked *Mutant* beside
the one it changes) under which its run fails.

## 4. Properties

A property that a run checks is often the conjunction of named parts, each
with a comment of its own in the module; the parts are in parentheses.

`FullAttentionCache`: `PoolConsistent` and `RefExact` (no leak, no double
use), `TextIsRight` (`CacheNeverLies`, `RowsHoldTheirText`: content),
`WritesArePrivate` (an action property: a write never changes a block that a
second table holds or that stays cached), `AdmissionSound` (an admitted request
never fails half-way), `ReuseOrder` (`PrefixClosed`, `UnhashedFirst`).

`HybridCache`: `Consistent` (the pool, and a reference for every place in a row
of either group), `CacheNeverLies`, `OwnMemory` (`StateIsOwn`, `KvIsOwn`),
`TwoStatesAtMost`, and the liveness property `EveryRequestEnds`.

`ConnectorSplit`: `Consistent` (`TypeOK`, `EveryRequestQueued`,
`BlocksAccountedFor`), `RowsHoldTheirText` (with the steps in flight taken
to their end), `LoadsAreExclusive`, `LoadsStartAfterTheHit`,
`ParkingLeavesRoom` (an action property), `EveryRequestEnds` (liveness).

`Speculation`: `Scoped` (`JournalScope`, `OneSpeculation`, `PendingIsTheStep`,
`WindowQuiet`), `RollbackExact`, the refinement `ImplementsDirect`, and the
liveness property `WorkerAnswers` (`KickAnswered`: a kick is eventually taken
out of the mailbox; `LockReleased`: the worker's run ends).

`ResidentTable`: `TableMatches` (a clean table is what marshalling would give),
`PromisesInFlight` (a running request's promise is the tokens its steps in
flight will bring), `SteadyDecode` (while tokens are promised all but the last
are computed, and no entry runs past its tokens, where the loop would skip it
for good), `Bounded` (`TypeOK`, `WithinContext`, `BlocksCover`), `QueuesInOrder`
(`QueuesPartition`, `ArrivalOrder`), and `EveryRequestFinishes` (liveness).

`RunnerHandshake`: `TokensAsComputed`, `StashSurvives` (no update, sample or
rollback of another step takes a stash away, and none is left behind),
`ResultsInOrder` (`TypeOK`, `RingIsOwned`, `DoneIsNext`).

`OutputChannel`: `Accounted` (`WireInOrder`, `AllAccountedFor`),
`DemotionIsFinal`, the refinement `ImplementsStream` with its liveness, and
`EveryBatchArrives`. `RequestChannel`: `Accounted` (`EachInOnePlace`),
`AbortEndsRequest`, `EveryAddHandled` (liveness).

*Fairness of `ResidentTable`.* `FairSpec` assumes weak fairness of scheduling
(by the crate or by stock code) and of `Update`: the engine's busy loop calls
`schedule` while it has requests and room for a step, and takes the oldest
step when the device is done with it, which is assumed to happen. Nobody has
to send or abort a request.

*Fairness of `HybridCache` and `ConnectorSplit`.* The engine's loop runs while
it has a request or a result: stated as "infinitely often no work, or
infinitely often a step of the engine", with the work written out. Requests need not
arrive. In `ConnectorSplit` every transfer lands; the property is about
connectors that stop saying "ask me later", since one that never stops starves
its request in the code as well.

*Fairness of `OutputChannel`.* The output thread runs, a runner step that has
begun goes on (`Launch`, `EndCommit`), and the front end's two readers run. The
engine owes no step, and a shared-memory reader may fail.

*Fairness of `RequestChannel`.* A task of the front end that has begun finishes,
the two receiving threads run and the engine takes its queue. Nothing has to be
sent, and a shared-memory thread may die.

*Fairness of `Speculation`.* Only the worker is assumed fair (`WorkerFairness`): it is an
operating-system thread that is woken when the mailbox fills, it gets the lock
between calls (std's mutex is not held across Python code), and
a run of `schedule_resident` is a bounded loop that returns. Nothing is assumed of
the engine or the input thread. That a run reaches its end is an assumption
about `sched.rs`, not a result.

## 5. Proofs

Assumptions: those on the constants (`PoolAssumption`, `CacheAssumption`,
`SpeculationAssumption`, `RadixAssumption`, `HandshakeAssumption`,
`ChannelAssumption`, `RequestAssumption`, `LoopAssumption`, `TableAssumption`,
`EntryAssumption`, `SplitAssumption`), evaluated by TLC on every run of the module. Five are
hypotheses of theorems instead: `StoreConstants`, of those about
`TokenStore` (it is part of `StoreIsSound`); `OrderedSetups`, of
`PathAccounted` and `PathImplementsStream`: with an inline publish there is no
runner step and no reply to a utility call, which the set-ups of the run
`output_channel` satisfy, and without which the order is lost (finding 2). The
set-up of `docker-compose.yaml` has all three and is excluded by it; what is
proved of that one is `PathNeverDoubles`. `PathLosesNothing` assumes at most one
launch a step. `Fallbacks => Speculate` and `Roomy` are hypotheses of theorems
about the two records, below.

*BlockPoolProofs*. Lemmas about sequences without repetition (what `Keep`,
`\o`, `Append` and `SubSeq` do to elements and distinctness, and that their
length is the cardinality of their elements), then one lemma per method: under
the contract its callers keep, `PoolInv` survives, and the effect on counts
and hashes is as stated. The contracts are those the code relies on: freed
blocks are distinct and referenced, `get_new_blocks` asks for no more than the
counter, `cache_full_blocks` gets distinct blocks and distinct hashes
(`Cacheable`).

The second part is about the order of the free queue. `Ordered(p, L)`, for any
relation `L` between the key of a block of text and that of the next: unhashed
blocks stand in front, and for each idle block of the cache some block with
the key of its predecessor is in use or stands behind it. Each method keeps
this (`TouchKeepsOrder`, `GetNewBlocksKeepsOrder`, `HashingKeepsOrder`,
`FreeBlocksKeepsOrder`); freeing does if what is freed is in reverse order of
the text, and its unhashed part comes first.

The third part is about the index. For every set of hashes and any way they
fall into buckets, `RadixIsTheFlatIndex`: `StandsFor` holds of the new indexes
and survives every insert and pop, and under it both answer alike.
`SnapshotRestores`: what the journal keeps of a bucket puts it back. The work is
in `RemoveAtFacts`: taking a position out of a sequence keeps the order of the
others.

*FullAttentionCacheProofs*. For every request set, pool, block and context
size and every text: `CacheTypeCorrect`, `PoolStaysConsistent`,
`ReferencesAreExact`, `AdmissionIsSound`. The inductive invariant is

    IInv == TypeOK /\ PoolConsistent /\ RefExact /\ RowCovers

`PoolConsistent` is not inductive alone: a call to `free_blocks` is legal
only if the counts cover the tables (`RefExact`), and publishing reads the
table up to the full blocks of the final tokens, which must exist
(`RowCovers`: a table is long enough for what is computed). The core of
`AllocateSlotsKeeps` is `TakenIsFresh`: once the hit is touched it is off the
queue, so the blocks taken next are different ones and were in no table.

Content: `TextStaysRight` and `WritesStayPrivate`. A request reads what is
written in its table, and a hit hands on what others wrote, so the invariant
says when a block may be believed:

    TextInv == TableCovers /\ PublishedIsComputed /\ RowHashes
               /\ SharedArePublished /\ Filled /\ CacheNeverLies /\ RowsHoldTheirText

The table has room for what is computed (`TableCovers`); only full, computed
blocks are published (`PublishedIsComputed`); a hashed block of a table is one
of the published places, under the hash of its place (`RowHashes`); a block in
two tables is published in both (`SharedArePublished`), so the blocks still
written are private. `AllocateSlots` is brought to the form `Grown` (hit, fresh
blocks, tokens written, blocks published) once, for an admission and for an
extension, and `GrownKeepsText` is about that form.

Reuse: `ReuseStaysOrdered`. The hit walk stops at the first miss, so a cached
block is of use only while its predecessors are. The invariant is

    OrderInv == evictions = 0 => RowsArePublished /\ Ordered(pool, TextLinks)

with `TextLinks` the pairs of keys of adjacent blocks of some text.
`RowsArePublished` is needed when a table is freed: its cached blocks are the
head of its text, so that in reverse order the predecessor of each goes behind
it. It is guarded because `evict_blocks` takes hashes out of the middle of a
text; `reset_prefix_cache` keeps it, since it does nothing while a table is in
use.

*StepProofs*. For any state space, scheduling functions and journal
length: `TypeCorrect`, `RollbackIsExact`, `JournalIsScoped`,
`PendingIsDirect`, `WindowIsQuiet`, and `SpeculationImplementsDirect`. The
invariant `SpecInv` is the conjunction of the checked ones with
*QuietIsBase* (without a journal the state is the base). The central lemma is
`UndoWrite`: a write that records the old value first leaves what undoing
gives unchanged.

That the conjuncts hold together is `SpeculationIsScoped`.

*RunnerHandshakeProofs*. For any number of requests, slots, steps and
launches per step, in either commit mode: `StashesSurvive`,
`ResultsReadInOrder`, `TokensAreAsComputed`. The invariant `Inv` adds to these
`Registry` (a slot is of one request that waits or runs, or is free, once),
`Seen` (`decide()` has seen whom the crate knows, in a step updated), `Batches`
(a request is in every step from its first until it ends), `Stamped` (stashes
are numbered in the order of their steps), `Stashes` (a stash has the rows of
its step, and the slots of those of them that still run), and `Modes` (no
launch waits in sample mode, no result in update mode). The core of
`TokensAreAsComputed` is that whoever holds the slots of a stash is whom they
were stashed for. In update mode `runner_owns` asks. In sample mode
`runner_packable` asks only whether the holders of the slots are known, and that
is enough: whom an update before the step has seen, and who still runs, was in
the step (`Seen`, `Batches`), under the slot the stash has for it. `Interlock` is
what `DoneIsNext` needs.

*OutputChannelProofs*. For every buffer and number of batches: `TypeCorrect`;
`PathDemotion`, which is about the set-ups without an inline publish; and under
`OrderedSetups` `PathAccounted` and the refinement `PathImplementsStream`, step by
step. `InLine` says that what was
sent, the item held, the queue and the records of a commit, one after the
other, are the batches emitted. `SentinelIsLast` and `HeldItem` say what the
output thread may hold, `Backlog` that the two counters differ by what it has
still to send: that is what makes the answer of `out_publish_ready` safe to use
one update later. `OneRecord` carries `OrderedSetups` through the steps.

Where the order is lost, two facts remain. `PathNeverDoubles`, of every set-up: no
batch is sent twice, or sent and still on its way. `PathLosesNothing`, of every
set-up with at most one launch a step: every batch has its place
(`AllAccountedFor`). With more launches a commit may keep two records and hand
back one (section 3), so that this bound is needed. Both follow from what a step
does to `Everything`, what is sent followed by what is not (`Moves`): it stays, it
takes in the new batch at some point, or a commit of several launches cuts its
end off.

*RequestChannelProofs*. For every set of requests, buffer size and either
receiving thread: `TypeCorrect`, `RequestsAccounted`, `AbortsEndRequests`. The last is about an abort
that took its ADD's transport and has been taken from every queue; its first,
eager copy may be handled ahead of the ADD (section 3), and an abort by the other
transport is not covered. Where
a message is, is counted (`Count`, in each queue), so that "in one place" is a
sum that each step leaves at one. An abort ends its request if it went the way
of its ADD; the invariant `AddAhead` follows the two: on the transport, in what
the thread holds and on `input_queue` the ADD is ahead of the abort, and once an
abort is taken its ADD is not left behind.

*StepProofs*, stop decision. `LaunchByLaunchIsOneStep`: for any condition, width and
number of launches, deciding launch by launch, each on the totals of those
before, gives for every row what deciding all its tokens at once gives. The
core is `DecisionSplits`, the decision of a sequence in two adjacent parts; the
induction over the launches is by a least counterexample (`LeastNatural`),
because the library's induction theorems are out of the provers' reach.

*StepProofs*, token store. `Sound` survives every call: `ArrivedIsSound`,
`SlotOfIsSound`, `TakeOverIsSound` (the seed it takes over always fits),
`PackTokenIsSound`, `StockTokenIsSound`, `HandBackIsWhole` (what Python gets
back is the whole text and all its hashes), `DropIsSound`; and
`OwnedIsNotPushedAgain`: what the mirror counts as pushed is what the slot has.
The core is `PushCovers`: hashing token by token as a block fills is hashing
the whole; `OthersAreWhole` is the frame, a call to one request leaves the
others' texts whole.

*StepProofs*, bursts. `BurstIsStockSteps`: take any trace of kernels that begins
with the prologue after a forward pass and goes on with iterations and stores,
and any trace of stock steps from the same state; if the batch passed the gate
where the device is and the counter ends at n - 1, the accumulator has the tokens
of n stock steps, and the keys, recurrent states, counts and last tokens are
theirs, padded rows untouched. The unrolled graph, the continuations and the host's
loop are all such traces. The invariant relates the two traces row by row: after
k iterations the buffers are those of stock step k + 1 and the accumulator has the
tokens before it; a store at a counter that does not move changes nothing but
the token it stores. The step needs the gate twice, for the column and for the clamps
of `_advance`. `LaunchesPassTheGate` is the arithmetic of `burst_steps`.
`LadderIsNested` is that no capture failure leaves a graph without the one it
presupposes. That `UnrollGraph`, `ContinueGraph` and `RunBurst` as written are such
traces is model-checked.

*StepProofs*, fast path. `StepReadsStockInputs`: whatever the scheduler sends, the
step reads stock's inputs and leaves a worker and a cache of which the same holds.
The invariant is `Fresh`; the core is `EligibleBatch`: a step with the cached key
brings no arrival and no departure, so the rows are those the batch was
built with, and no request of the key has lost its row since (`Legal`: what is
scheduled has one).

*ResidentTableProofs*. For any requests, prompts, limits, pool, budget, watermark,
chunking and burst: `QueuesStayInOrder` and `StaysBounded`, and of the two records below. The inductive
invariant of the first two (TLC has checked it on the three runs of the module) is

    IInv == TypeOK /\ Placed /\ Housed /\ Lives
            /\ (~dirty => Agrees)

`Placed` is the queues by status, and running followed by waiting in order of
arrival; `Housed` the blocks. Neither is inductive without `Lives`: a request
that waits has computed nothing, one that has not ended is short of its
`LengthCap`, and a request arrives after those with smaller numbers. `Agrees`
says that the table, unless it is dirty, has the objects' count of computed
tokens, because the loop schedules by the table and `BlocksCover` is about the
objects.

The two loops are folds. A fold is a `CHOOSE` of a function on the subsets of
the index set; it is taken apart once (`FoldExists`), by building that function
with a well-founded recursion, and what every step keeps it has at the end
(`Stays`). On that stand `Phase1Result` and `Phase2Result`, with
the cases of one step (`RunOneCases`, `AdmitOneCases`): whom the loop preempts
is taken from the end of the running queue, whom it admits from the front of
the waiting queue, and no request runs ahead of its blocks or its context.
`ScheduleKeeps` joins the two: what is running, then preempted, then waiting is
still the line there was (`LineStays`). Then one lemma per part of a step:
`AppliedKeeps` (commit), `CommitKeeps` (the burst; `BurstHasRoom` is
that what the gate grants ends in the block of the last token), `LeaveKeeps`
(stops and aborts, with `WithoutFacts` for the queues), and the update.

The two records: `PromisesAreKept`, `DecodesStaySteady`, `TableStaysMatched`.
These three do not hold of every behaviour. A request that is preempted with a
token in flight loses the promise and gets the token (finding 1), and a table that
is not resynced after a fallback misses its tokens (section 3, the disagreements
noted). The hypotheses are
the complements of the two: `[][KeepsPromises]_vars`, a step preempts nobody who
has a promise outstanding, and `Fallbacks => Speculate`. With those the invariant is

    RInv == AllPromised /\ Positive /\ (~dirty => Mirrors)

`AllPromised` is `PromisesInFlight` and `SteadyDecode` for every request that has
not ended, waiting ones included (they are owed nothing), because an admission
reads a waiting request's object. `Positive` says that a step in flight
promises at least one token, without which "no promise" and "nothing in flight"
would differ. `Mirrors` is the equality of entry and object without `Pack`, which
`AllPromised` makes the identity (`PackSame`): the promise is never negative. What
the invariant buys is that both translations of each event are applied to
the same values. Then: one lemma per event that both agree on it (`AppliedSame`,
`CommitPromises` for a burst granted, refused or failing, `UpdatedSame` for the
verdicts), and one that the promises move with the pipeline
(`StepPromises`, `EnqueuePromises`, `DueOfOneLess`). `UpdatedObjectSteady` is the
arithmetic of a burst that came back short: handing the rest back leaves the
computed count one short of the tokens.

`RecordsAgree` has the conclusion of the three for every behaviour, with a condition on the
constants in place of the one on the behaviour: `Roomy`, the pool has the blocks of
a whole context (`BlocksFor(MaxModelLen)`) for every seat. The
invariant added is `Slim`, nobody holds more than that; then whoever runs can have
what it asks for (`AlwaysFits`: blocks are held by those who run, and the sum of what
at most `MaxRunning` of them hold is in the pool), so the first loop never takes a victim
(`RunOneSpares`), no step preempts, and `KeepsPromises` holds (`RoomForAll`).
`ResidentTable.cfg` is such an instance. A served engine need not be one: what is
claimed of it is the form with `KeepsPromises`.

*ConnectorSplitProofs*. For any requests, texts, pool, budget, watermark, connector
and one or two steps in flight: `IsConsistent`, `LoadsStartThere`, `ExclusiveHolds`,
`TextHolds`; and `ParkedLoadsLeaveRoom` where `LongPrefill = 0`.
The inductive invariant comes in three layers, each checked by TLC before it was
proved.

    SplitInv == BlocksInv /\ Control
    BlocksInv == BlocksTyped /\ Rows /\ Lengths /\ Refs /\ Hashes

`BlocksInv` is the cache without the loop: the pool (`PoolInv`), tables and deferred
entries without repetition, a reference for each of them, and the hash of a
published place. The calls on the pool of one step are folds (`Calls`); each kind
(publish, free a table, free a deferred entry) has a lemma about the fold, by an
invariant over its prefixes (`PublishStage`, `FreeStage`, `DrainStage`), and
`ProcessBlocks` puts the three behind one another as the update does. `Control` is
the loop: `StepQueues` says where every request is while the loop has it (running,
preempted, candidate, put off, parked or handed back: six places that part the
requests), `IdleQueues` the same between two steps, `Sizes` and `Owed` the numbers,
`Probes` what the probe and the connector said, `Transfers` that a load is of a
request that waits for it and fills its table from the end of the published part.
`Flying` says that who is in a step in flight is running or has ended, or was
preempted since, and then no step is scheduled before its result is in.

The second layer is

    Flights /\ Exclusive

`Flights`: the blocks of a step in flight are held for it, by the table of its
request or by a deferred entry whose fence counts past the step. `Exclusive`: no
step in flight has a block of a transfer. `FinishFlights` is the step at which the
two meet, a load goes out behind the steps in flight: its blocks are unpublished and
in one table (`LoadedBlocks`), and those of the steps are held by others.
The exception of `Flights`, the step of a request preempted since, is safe because
a step that preempts parks nothing (`WaitingArm` asks for it) and the next one is
not scheduled until the result is in (`turn`).

The third layer is

    TextInv == CachedText /\ RowTexts

`CachedText`: a published block will hold the text its hash names. `RowTexts`: every
position a table counts as computed will hold the text of its request. "Will",
because a step is in flight while the next is scheduled: what a block holds is read
after the steps in flight have written (`Eventually`, a fold over `steps`), and a
block that the step being made is about to write (`Written`) is exempt until
`Finish` hands that step over. Without the exemption the invariant breaks at the first
allocation, which publishes blocks before the step that fills them exists. Two
positions can meet in one block. A hit puts it in two tables, and then both
requests have the same text up to there (`OneText`); a published block that is written again
gets the text it is published as (`CachedAs`); and a transfer lands under the steps in
flight, in blocks none of them has (`LandText`, by `Exclusive` and `UnwrittenHeld`).

`ParkedLoadsLeaveRoom` is the action property `ParkingLeavesRoom`. Its invariant on top of
`SplitInv` is `Room`: while a load can still be parked in this step, what the step
has reserved is at least what the prefills in flight need (`Growing`: those from before,
those parked, those started in this step). A park adds what it still needs to the reserve.
An admission adds nothing to it, and needs nothing: with `LongPrefill = 0` a
candidate either gets the rest of its text, and is no prefill any more, or the rest of
the budget, and then the walk ends (`AdmitRoom`). That is where a threshold breaks it,
the disagreement of section 3. The sums over sets of requests are compared as
numbers of pairs (`SumsApart`), because a fold cannot be reasoned about by induction here.

Model-checked only: `HybridCache`; the fold of `TokenStore` over a batch (`StoreStep`); the liveness properties (out of
the prover's reach); and the closed forms `Keep` and `Undo`, which are compared
with their sequential definitions on bounded inputs.

## 6. Not modelled

The share of the repository these modules stand for is small, and has to be:
most of its lines are numeric kernels with the code that builds, loads and
checks them; rounds 1.1 and 1.2, frozen earlier versions of the same components;
tests inside the sources (the self-check at the end of `rust_sched.py` alone is
over 2,000 lines), benchmarks and boot-time gates that validate settings
once and keep no state. None of that has an order of events to check.

* Numerics: kernels, quantization, sampling. No protocol.
* In `BurstDecode`: streams and copies to the host (the output is read as it is
  when the burst ends, which the clones in `_burst_output` are for), the shadow
  comparison of a capture, the scheduler metadata of the attention kernel. In
  `DecodeFastpath`: the classification of attention builders, the pinned pools.
* Formatting, statistics, logging, KV events (the code does not port them).
* `hash.rs` is a port of pickle and SHA-256; used as "equal hashes, equal
  prefixes". Collisions are outside the model.
* `cache_partial_block` and secondary hashes: no caller.
* In `ResidentTable`: prefix-cache hits, the connector, the permanent `off`
  state of the table, in-graph sampling of one token (it changes no counter),
  more than one sampled token per step, `reset_prefix_cache` and
  `evict_blocks`; the shortest-prefill order, which `WaitingQueue` has.
* In `HybridCache`: a connector, so that the order of hits and external
  blocks over groups (`coordinator.rs:357`) is not exercised; speculative
  tokens, unequal block sizes, lookahead, the chunk threshold and `max_tokens`;
  aborts. The waiver of the watermark (`manager.rs:866`) is in the guard, and
  no liveness in the run depends on it.
* In `ConnectorSplit`: the cap on withheld candidates (`WaitingQueue` has it for
  one step), the abort of a request
  that is loading, what the connector stores and counts, failed loads, a
  connector that raises, hybrid groups.
* In `RunnerHandshake`: a failure after a successful launch (the engine
  stops), a commit that raises in sample mode, records that cannot be packed.
* In the channels: framing and decoding with their errors, loans of shared
  memory that fail, a notification that fails.
* `StopDecision`: the bytes of the record and the table of conditions.
  `TokenStore`: arming, the boot-wide disable, `extra_keys`.
* Preemption in the models keeps whole steps: a device write is not split.

## 7. Plan

1. The plugin's registry, and the release and reuse of slots with interning on
   the input thread (`rust_sched.py:2040`).
2. `HybridCache` with a connector: hits of all groups touched before external
   blocks of any are taken.
3. Proofs: the invariants of `HybridCache` over the lemmas of `BlockPoolProofs`.
