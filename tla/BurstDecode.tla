---------------------------- MODULE BurstDecode -----------------------------
(***************************************************************************)
(* What a burst does on the device (nstep_decode.py): after the forward    *)
(* pass of a decode step, n tokens are sampled by feeding each one back,   *)
(* by replayed CUDA graphs or from the host, where stock would sample one  *)
(* and prepare another step.  Operators from a device state to a device    *)
(* state, no variables; the engine around them is RunnerHandshake.         *)
(*                                                                         *)
(* The rows of the buffers are those of the padded batch, 1 .. Padded; the *)
(* first num_reqs of them are requests, row i of a field is that of the    *)
(* i-th of them.  A device state d has                                     *)
(*   num_reqs, rows   the count the host has, and the one in b.rows        *)
(*   computed, last   req_states.num_computed_tokens, last_sampled_tokens  *)
(*   input_ids, positions, seq_lens   the persistent input buffers         *)
(*   column           the block whose recurrent state the step uses        *)
(*                    (state_indices_tensor_d)                             *)
(*   kv, ssm          per request, the tokens whose keys are in its blocks *)
(*                    by position, and its recurrent states by column      *)
(*   hidden           cudagraph_manager.hidden_states, a hidden state      *)
(*                    standing for the token compute_logits and argmax     *)
(*                    make of it                                           *)
(*   tok, accum, step the burst's own buffers                              *)
(***************************************************************************)
EXTENDS Integers, Sequences

CONSTANTS Padded,         \* the width of the batch and of the graph
          Columns,        \* of the accumulator
          BlockSize, MaxModelLen,
          Recur(_, _),    \* the recurrent state after one more token
          Decode(_, _)    \* the token after a text, given a recurrent state

BurstConstants == /\ Padded \in Nat \ {0}
                  /\ Columns \in Nat \ {0}
                  /\ BlockSize \in Nat \ {0}
                  /\ MaxModelLen \in Nat \ {0}

Batch == 1 .. Padded

Least(a, b) == IF a <= b THEN a ELSE b

\* d has what a device state has.
IsDevice(d) ==
  DOMAIN d = {"num_reqs", "rows", "computed", "last", "input_ids", "positions", "seq_lens",
              "column", "kv", "ssm", "hidden", "tok", "accum", "step"}

------------------------------------------------------------------------------
(* A stock decode step.                                                    *)

\* The align pre-copy: a request that enters a block starts from the state at
\* the end of the one before.
PreCopied(states, c) ==
  IF c > 0 /\ (c - 1) \div BlockSize # c \div BlockSize
  THEN [states EXCEPT ![c \div BlockSize] = states[(c - 1) \div BlockSize]]
  ELSE states

\* _fast_inputs and _mamba_write: a step of one token per request.
PrepareInputs(d) ==
  [d EXCEPT
     !.input_ids = [i \in Batch |-> IF i <= d.num_reqs THEN d.last[i] ELSE d.input_ids[i]],
     !.positions = [i \in Batch |-> IF i <= d.num_reqs THEN d.computed[i] ELSE d.positions[i]],
     !.seq_lens  = [i \in Batch |-> IF i <= d.num_reqs THEN d.computed[i] + 1 ELSE 0],
     !.column    = [i \in Batch |-> IF i <= d.num_reqs
                                    THEN d.computed[i] \div BlockSize ELSE 0],
     !.ssm       = [i \in Batch |-> IF i <= d.num_reqs
                                    THEN PreCopied(d.ssm[i], d.computed[i]) ELSE d.ssm[i]]]

\* The forward pass: compute_slot_mappings gives a padded row no slot, so it
\* writes no keys, and its column is the null block.
Written(row, p, token) == [row EXCEPT ![p] = token]
Recurred(states, col, token) == [states EXCEPT ![col] = Recur(@, token)]
Seen(row, len) == [p \in 0 .. len - 1 |-> row[p]]

KvAfter(d) ==
  [i \in Batch |-> IF i <= d.num_reqs
                   THEN Written(d.kv[i], d.positions[i], d.input_ids[i]) ELSE d.kv[i]]
SsmAfter(d) ==
  [i \in Batch |-> IF i <= d.num_reqs
                   THEN Recurred(d.ssm[i], d.column[i], d.input_ids[i]) ELSE d.ssm[i]]
HiddenAfter(d) ==
  [i \in Batch |-> Decode(Seen(KvAfter(d)[i], d.seq_lens[i]), SsmAfter(d)[i][d.column[i]])]

Forward(d) ==
  [d EXCEPT !.kv = KvAfter(d), !.ssm = SsmAfter(d), !.hidden = HiddenAfter(d)]

\* post_update, from the counts the sampler hands it.
PostUpdate(d, sampled, num_sampled, num_rejected) ==
  [d EXCEPT
     !.computed = [i \in Batch |-> IF i <= d.num_reqs
                                   THEN d.computed[i] + 1 - num_rejected ELSE d.computed[i]],
     !.last     = [i \in Batch |-> IF i <= d.num_reqs
                                   THEN sampled[i][num_sampled] ELSE d.last[i]]]

\* execute_model and sample_tokens of a step that samples one token.
StockStep(d) ==
  LET f == Forward(PrepareInputs(d))
  IN  PostUpdate(f, [i \in Batch |-> <<f.hidden[i]>>], 1, 0)

------------------------------------------------------------------------------
(* The kernels of a burst.  width is the number of rows that are sampled:  *)
(* the padded one in a captured graph, the real one from the host.         *)

\* _prologue, and the tail of _burst_body.
Sample(d, width) ==
  [d EXCEPT !.tok = [i \in Batch |-> IF i <= width THEN d.hidden[i] ELSE d.tok[i]]]

\* _advance: the accumulator takes the token of every row, the inputs those of
\* the real ones, which b.rows counts.
Accumulated(d) == [i \in Batch |-> [d.accum[i] EXCEPT ![d.step] = d.tok[i]]]

\* _accum_tail.
AccumTail(d) == [d EXCEPT !.accum = Accumulated(d)]

\* _advance with FEED, then _bump.
Feed(d) ==
  [d EXCEPT
     !.accum     = Accumulated(d),
     !.input_ids = [i \in Batch |-> IF i <= d.rows THEN d.tok[i] ELSE d.input_ids[i]],
     !.positions = [i \in Batch |-> IF i <= d.rows
                                    THEN Least(d.positions[i] + 1, MaxModelLen - 1)
                                    ELSE d.positions[i]],
     !.seq_lens  = [i \in Batch |-> IF i <= d.rows
                                    THEN Least(d.seq_lens[i] + 1, MaxModelLen)
                                    ELSE d.seq_lens[i]],
     !.step      = d.step + 1]

\* _burst_body.
Body(d, width) == Sample(Forward(Feed(d)), width)

\* The host's store of the last token, in column c.
HostTail(d, c) ==
  [d EXCEPT !.accum = [i \in Batch |-> IF i <= d.num_reqs
                                       THEN [d.accum[i] EXCEPT ![c] = d.tok[i]]
                                       ELSE d.accum[i]]]

\* n iterations.
Bodies(d, width, n) ==
  LET after[k \in 0 .. n] == IF k = 0 THEN d ELSE Body(after[k - 1], width)
  IN  after[n]

\* _burst_all and _burst_continue, captured at the padded width.
UnrollGraph(d, n) == AccumTail(Bodies(Sample([d EXCEPT !.step = 0], Padded), Padded, n - 1))
ContinueGraph(d, n) == AccumTail(Bodies(d, Padded, n))

------------------------------------------------------------------------------
(* sample_tokens of a step a burst was committed for, d being the state    *)
(* after its forward pass.                                                 *)

\* _burst_gate, of n tokens for every request: here, where the device is.
Gated(d, n) ==
  \A i \in 1 .. d.num_reqs :
    (d.computed[i] % BlockSize) + n <= BlockSize /\ d.computed[i] + n <= MaxModelLen - 1

\* burst_steps: how many bursts of n fit, the single one having passed the gate.
BurstSteps(c, n, lim, ceiling) ==
  IF ceiling < 2 \/ lim < 0 THEN 1
  ELSE LET fit == Least(ceiling, Least((BlockSize - (c % BlockSize)) \div n, (lim - c) \div n))
       IN  IF fit < 1 THEN 1 ELSE fit

\* What the host writes before any replay.
Primed(d) == [d EXCEPT !.rows = d.num_reqs, !.step = 0]

\* The rung _run_burst takes: graphs map the captured widths to the descriptor
\* they were captured for, desc is the last one that was dispatched, and
\* persistent tells whether the hidden states live where the graphs read them.
Rung(b, persistent, n) ==
  LET has(graphs) == Padded \in DOMAIN graphs /\ graphs[Padded] = b.desc
      shapeOk     == b.mode = "graph" /\ has(b.graphs)
      folded      == shapeOk /\ b.fold /\ persistent
      whole       == folded /\ has(b.unroll_graphs) /\ n = b.n
      pro         == folded /\ has(b.pro_graphs) /\ ~ whole
  IN  CASE whole -> "unroll"
        [] pro -> "fold"
        [] shapeOk /\ ~ whole /\ ~ pro -> "bodies"
        [] ~ shapeOk /\ b.desc = Padded -> "eager"
        [] OTHER -> "refused"

\* _run_burst: what is left on the device, and how many tokens there are.
RunBurst(d, n, rung) ==
  LET p     == Primed(d)
      first == Sample(p, IF rung = "fold" THEN Padded ELSE d.num_reqs)
      last  == Bodies(first, IF rung = "eager" THEN d.num_reqs ELSE Padded, n - 1)
  IN  CASE rung = "unroll"  -> [device |-> UnrollGraph(p, n), total |-> n]
        [] rung = "refused" -> [device |-> HostTail(first, 0), total |-> 1]
        [] OTHER            -> [device |-> HostTail(last, n - 1), total |-> n]

\* _run_burst_rust: the unrolled graph, then continuations of it.
RunBurstRust(d, n, took) ==
  LET launched[k \in 1 .. took] ==
        IF k = 1 THEN UnrollGraph(Primed(d), n) ELSE ContinueGraph(launched[k - 1], n)
  IN  [device |-> launched[took], total |-> took * n]

\* _sample_one_in_graph.
SampleOneInGraph(d) ==
  LET s == Sample(d, Padded)
  IN  [device |-> s, out |-> [i \in 1 .. d.num_reqs |-> <<s.tok[i]>>]]

\* _burst_output: the first columns of the accumulator, cloned.
BurstOutput(r) ==
  [i \in 1 .. r.device.num_reqs |-> [j \in 1 .. r.total |-> r.device.accum[i][j - 1]]]

\* _emit: postprocess_sampled is told that a negative number was rejected.
Emitted(r) == PostUpdate(r.device, BurstOutput(r), r.total, - (r.total - 1))

\* _sample_burst: the width and the number of launches of a budget.
BurstWidth(b, n) == IF n >= b.n /\ n % b.n = 0 THEN b.n ELSE n
NumLaunches(b, n) == n \div BurstWidth(b, n)

------------------------------------------------------------------------------
(* When the graphs are captured.  A ladder l has the sizes captured for    *)
(* each of the four kinds of graph and the rungs still wanted.             *)

\* _Burst.demote.
Demote(l, rung) ==
  LET cut == [l EXCEPT !.unroll = FALSE, !.unroll_graphs = {}, !.continue_graphs = {},
                       !.rust_steps = 1]
  IN  IF rung = "unroll" THEN cut
      ELSE [cut EXCEPT !.fold = FALSE, !.sample1 = FALSE, !.pro_graphs = {}]

\* apply: the rungs asked for.
Asked(graph, fold, unroll, sample1, n, steps) ==
  [mode |-> IF graph THEN "graph" ELSE "eager", n |-> n,
   fold |-> graph /\ fold, unroll |-> graph /\ fold /\ unroll,
   sample1 |-> graph /\ fold /\ sample1,
   rust_steps |-> IF graph /\ fold /\ unroll THEN steps ELSE 1,
   graphs |-> {}, pro_graphs |-> {}, unroll_graphs |-> {}, continue_graphs |-> {}]

\* One size of _capture_burst_graphs; ok is the set of the kinds of graph that
\* capture and agree with the host at this size.
CaptureFold(l, size, ok) ==
  IF ~ l.fold THEN l
  ELSE IF "pro" \in ok THEN [l EXCEPT !.pro_graphs = @ \cup {size}]
  ELSE Demote(l, "fold")
CaptureUnroll(l, size, ok) ==
  IF ~ (l.unroll /\ l.fold /\ l.n > 1) THEN l
  ELSE IF "unroll" \in ok THEN [l EXCEPT !.unroll_graphs = @ \cup {size}]
  ELSE Demote(l, "unroll")
CaptureContinue(l, size, ok) ==
  IF l.rust_steps > 1 /\ size \in l.unroll_graphs /\ "continue" \in ok
  THEN [l EXCEPT !.continue_graphs = @ \cup {size}] ELSE l

CaptureSize(l, size, ok) ==
  IF "body" \notin ok THEN l
  ELSE LET body == [l EXCEPT !.graphs = @ \cup {size}]
           pro  == CaptureFold(body, size, ok)
       IN  CaptureContinue(CaptureUnroll(pro, size, ok), size, ok)

\* Its end: without a single body graph there is no graph mode.
CaptureDone(l) == IF l.graphs = {} THEN [Demote(l, "fold") EXCEPT !.mode = "eager"] ELSE l

\* A graph that is launched after or within another is there only with it.
Nested(l) ==
  /\ l.continue_graphs \subseteq l.unroll_graphs
  /\ l.unroll_graphs \subseteq l.pro_graphs
  /\ l.pro_graphs \subseteq l.graphs
  /\ ~ l.fold => l.pro_graphs = {} /\ ~ l.unroll /\ ~ l.sample1
  /\ ~ l.unroll => l.unroll_graphs = {} /\ l.rust_steps = 1
=============================================================================
