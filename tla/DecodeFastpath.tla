--------------------------- MODULE DecodeFastpath ---------------------------
(***************************************************************************)
(* The decode fast path (decode_fastpath.py): a step that decodes one      *)
(* token for the same requests as the step before reuses the batch that    *)
(* was built then, and refreshes the inputs that change.  Operators from a *)
(* state to a state, no variables.                                         *)
(*                                                                         *)
(* A state s has, of the worker, row[r], the row of request r in the       *)
(* persistent tables (NoRow if it has none), and by row table, the blocks, *)
(* and computed, the tokens; and the cache: key, the request ids in order, *)
(* or NoKey, the rows (idx_mapping) and the gathered tables in that order, *)
(* and the padded width of the batch.                                      *)
(*                                                                         *)
(* A step so has the scheduled requests in order, count[r] tokens for each,*)
(* the blocks new[r] that come with it, the requests that arrived (the row *)
(* at[r] and the start[r] each gets), finished and were preempted, the     *)
(* width of the FULL graph it is dispatched to (0 if to none), plain, FALSE*)
(* if the step has draft tokens, an encoder, blocks to zero or a grammar,  *)
(* settled, FALSE if a row is still prefilling or the batch is otherwise   *)
(* one the fast path does not know, and advance[w], the tokens the sampler *)
(* adds to row w.                                                          *)
(***************************************************************************)
EXTENDS Integers, Sequences

CONSTANTS Req, Rows, NoRow, NoKey, Blocks

Scheduled(so) == {so.order[i] : i \in DOMAIN so.order}

OneEach(so) == \A r \in Scheduled(so) : so.count[r] = 1

\* decode_key.
DecodeKey(so) ==
  IF /\ so.arrived = {} /\ so.finished = {} /\ so.preempted = {}
     /\ so.plain /\ so.order # << >> /\ OneEach(so)
  THEN so.order ELSE NoKey

\* has_new_blocks.
HasNewBlocks(so) == \E r \in Scheduled(so) : so.new[r] # << >>

\* What the worker does with a SchedulerOutput before it prepares inputs: rows are
\* freed and given, a table is written for an arrival and appended to for the others.
RowsAfter(s, so) ==
  [r \in Req |-> IF r \in so.arrived THEN so.at[r]
                 ELSE IF r \in so.finished \cup so.preempted THEN NoRow
                 ELSE s.row[r]]
Updated(s, so) ==
  LET row   == RowsAfter(s, so)
      of(w) == CHOOSE r \in Scheduled(so) : row[r] = w
      idle(w) == \A r \in Scheduled(so) : row[r] # w
  IN  [s EXCEPT
         !.row      = row,
         !.table    = [w \in Rows |-> IF idle(w) THEN s.table[w]
                                      ELSE IF of(w) \in so.arrived THEN so.new[of(w)]
                                      ELSE s.table[w] \o so.new[of(w)]],
         !.computed = [w \in Rows |-> IF ~ idle(w) /\ of(w) \in so.arrived
                                      THEN so.start[of(w)] ELSE s.computed[w]]]

\* idx_mapping; gather_block_tables; prepare_pos_seq_lens of one token per row.
RowsOf(s, order) == [i \in DOMAIN order |-> s.row[order[i]]]
Gathered(s, rows) == [i \in DOMAIN rows |-> s.table[rows[i]]]
Positions(s, rows) == [i \in DOMAIN rows |-> s.computed[rows[i]]]

\* What a graph of one token per request reads.
Inputs(order, rows, positions, tables, width) ==
  [order |-> order, rows |-> rows, positions |-> positions, tables |-> tables, width |-> width]

\* What stock builds: its sort by token count keeps requests of one token each in order.
StockInputs(s, so) ==
  LET rows == RowsOf(s, so.order)
  IN  Inputs(so.order, rows, Positions(s, rows), Gathered(s, rows), so.width)

\* _eligible.
Eligible(s, so) ==
  s.key # NoKey /\ so.width # 0 /\ so.width = s.width /\ DecodeKey(so) = s.key

\* _fast_attn and _fast_inputs.
FastTables(s, so) == IF HasNewBlocks(so) THEN Gathered(s, s.rows) ELSE s.tables
FastInputs(s, so) ==
  Inputs(s.key, s.rows, Positions(s, s.rows), FastTables(s, so), s.width)

\* _Cache.reset.
Reset(s) == [s EXCEPT !.key = NoKey]

\* _recache after a stock step, and what wrap_prepare_attn keeps of it.
Recached(s, so) ==
  LET in == StockInputs(s, so)
  IN  [s EXCEPT !.key = IF so.width # 0 /\ so.settled /\ OneEach(so)
                        THEN DecodeKey(so) ELSE NoKey,
                !.rows = in.rows, !.tables = in.tables, !.width = in.width]

\* post_update, and the tokens of a burst.
Advanced(s, so) ==
  [s EXCEPT !.computed = [w \in Rows |-> s.computed[w] + so.advance[w]]]

\* A step of the worker: the seams that were taken, what the graph read, and the
\* state it leaves.  A step of no tokens does not come to the seams, and leaves the
\* cache alone.  raises is the seam of the fast path that raises: the first one
\* falls back to a stock step, the last one resets the cache for the next.
Step(s, so, raises) ==
  LET u == Updated(s, so)
      fast == Eligible(u, so) /\ raises # "inputs"
      left == IF ~ fast THEN Recached(u, so)
              ELSE IF raises = "attn" THEN Reset(u)
              ELSE [u EXCEPT !.tables = FastTables(u, so)]
  IN  IF so.order = << >> THEN [path |-> "none", inputs |-> StockInputs(u, so), state |-> u]
      ELSE [path   |-> IF fast THEN "fast" ELSE "stock",
            inputs |-> IF fast THEN FastInputs(u, so) ELSE StockInputs(u, so),
            state  |-> Advanced(left, so)]

------------------------------------------------------------------------------
\* The worker's tables are sequences of blocks.
IsWorker(s) ==
  /\ NoRow \notin Rows
  /\ DOMAIN s = {"row", "table", "computed", "key", "rows", "tables", "width"}
  /\ s.row \in [Req -> Rows \cup {NoRow}]
  /\ s.table \in [Rows -> Seq(Blocks)]

\* What the scheduler may send: an arrival is scheduled, with a row; what is
\* scheduled has a row; nothing that left is scheduled.
Legal(s, so) ==
  /\ so.new \in [Req -> Seq(Blocks)]
  /\ so.arrived \subseteq Scheduled(so)
  /\ Scheduled(so) \subseteq Req
  /\ \A r \in so.arrived : so.at[r] \in Rows
  /\ \A r \in Scheduled(so) : RowsAfter(s, so)[r] \in Rows

\* The cached batch is that of the worker's tables, wherever its requests still
\* have their rows: a step of no tokens may take a row and leave the key.
Fresh(s) ==
  s.key # NoKey =>
    /\ s.rows \in [DOMAIN s.key -> Rows] /\ s.tables \in [DOMAIN s.key -> Seq(Blocks)]
    /\ \A i \in DOMAIN s.key : s.key[i] \in Req
    /\ \A i \in DOMAIN s.key :
         s.row[s.key[i]] # NoRow =>
           s.rows[i] = s.row[s.key[i]] /\ s.tables[i] = s.table[s.rows[i]]
=============================================================================
