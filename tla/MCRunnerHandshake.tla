------------------------- MODULE MCRunnerHandshake -------------------------
(***************************************************************************)
(* Instances of RunnerHandshake for TLC. Requests are interchangeable.     *)
(* The decision about a step of several launches is compared with the      *)
(* decision about all its tokens at once, on every short step of two rows; *)
(* what a burst does on the device, with as many stock steps; what a fast  *)
(* step reads, with what stock would have built.                           *)
(***************************************************************************)
EXTENDS RunnerHandshake, StopDecision, Functions, TLC

Symmetry == Permutations(Req)

Conditions == [min : {0, 2}, max : {1, 3, 9}, eos : {NoToken, 1}, stops : {{}, {1, 2}}]
OtherRow == [min |-> 0, max |-> 9, eos |-> 1, stops |-> {}]
Width == 2
NumLaunches == 2

\* After every launch the totals are what applying all its tokens at once
\* decides, for every row, whichever of them stopped on the way.
ASSUME LaunchesAreOneStep ==
  \A tokens \in [1 .. Width * NumLaunches -> 1 .. 3] :
  \A other \in {<<3, 3, 3, 3>>, <<3, 1, 3, 3>>, <<3, 3, 1, 1>>} :
  \A condition \in Conditions :
    LET conditions == <<condition, OtherRow>>
        offered    == <<tokens, other>>
        total[n \in 0 .. NumLaunches] ==
          IF n = 0 THEN NothingYet({1, 2})
          ELSE CommitLaunch(total[n - 1], n - 1, offered, Width, conditions,
                            <<1, 1>>, <<4, 4>>, 7)
    IN  \A n \in 0 .. NumLaunches :
          AsOneStep(total[n], {1, 2}, n, offered, Width, conditions, <<1, 1>>, <<4, 4>>, 7)

\* Two tokens; a recurrent state is a hash of the tokens it has seen, and a
\* token one of the text and the state.
MCRecur(state, token) == (3 * state + token + 1) % 17
MCDecode(seen, state) ==
  (FoldFunction(LAMBDA v, sum : (5 * sum + v) % 17, 1,
                [p \in DOMAIN seen |-> (p + 1) * (seen[p] + 1)]) + state) % 2

Device == INSTANCE BurstDecode
            WITH Padded <- 3, Columns <- 8, BlockSize <- 4, MaxModelLen <- 12,
                 Recur <- MCRecur, Decode <- MCDecode

\* Before a decode step, the buffers holding what a wider batch left in them.
Before(num_reqs, computed) ==
  [num_reqs |-> num_reqs, rows |-> 3, computed |-> computed, last |-> <<1, 0, 1>>,
   input_ids |-> <<1, 1, 1>>, positions |-> <<5, 6, 7>>, seq_lens |-> <<6, 7, 8>>,
   column |-> <<1, 1, 1>>,
   kv |-> [i \in 1 .. 3 |-> [p \in 0 .. 11 |-> IF p < computed[i] THEN (p * i) % 2 ELSE 0]],
   ssm |-> [i \in 1 .. 3 |-> [c \in 0 .. 2 |-> i + c]],
   hidden |-> <<0, 0, 0>>, tok |-> <<0, 1, 0>>,
   accum |-> [i \in 1 .. 3 |-> [c \in 0 .. 7 |-> 1]], step |-> 5]
Starts == {Before(num_reqs, <<c1, c2, 3>>) : num_reqs \in {1, 2}, c1 \in 1 .. 10, c2 \in {1, 4, 6, 8}}

StockSteps(d, n) ==
  LET step[k \in 0 .. n] == IF k = 0 THEN d ELSE Device!StockStep(step[k - 1]) IN step

\* The device is left as n stock steps leave it, and they sampled these tokens.
SameAs(step, n, r) ==
  LET real == 1 .. r.device.num_reqs
      e    == Device!Emitted(r)
  IN  /\ r.total = n
      /\ Device!BurstOutput(r) = [i \in real |-> [j \in 1 .. n |-> step[j].last[i]]]
      /\ e.computed = step[n].computed
      /\ \A i \in 1 .. 3 : e.last[i] = step[n].last[i] /\ e.kv[i] = step[n].kv[i]
                           /\ e.ssm[i] = step[n].ssm[i]
      /\ \A i \in 1 .. 3 \ real : e.seq_lens[i] = 0

ASSUME BurstIsStockSteps ==
  \A d \in Starts :
    LET f == Device!Forward(Device!PrepareInputs(d))
    IN  /\ Device!IsDevice(f)
        /\ SameAs(StockSteps(d, 1), 1, Device!RunBurst(f, 4, "refused"))
        /\ Device!SampleOneInGraph(f).out =
             [i \in 1 .. d.num_reqs |-> <<StockSteps(d, 1)[1].last[i]>>]
        /\ \A n \in 2 .. 4 : Device!Gated(d, n) =>
             \A rung \in {"unroll", "fold", "bodies", "eager"} :
               SameAs(StockSteps(d, n), n, Device!RunBurst(f, n, rung))
        /\ \A took \in 1 .. 2 : Device!Gated(d, 2 * took) =>
             SameAs(StockSteps(d, 2 * took), 2 * took, Device!RunBurstRust(f, 2, took))

\* Not without the align gate, and not with the unrolled graph launched twice.
ASSUME GateIsNeeded ==
  /\ \E d \in Starts :
       LET f == Device!Forward(Device!PrepareInputs(d))
       IN  ~ SameAs(StockSteps(d, 4), 4, Device!RunBurst(f, 4, "unroll"))
  /\ \E d \in Starts :
       LET f == Device!Forward(Device!PrepareInputs(d))
           r == Device!UnrollGraph(Device!UnrollGraph(Device!Primed(f), 2), 2)
       IN  Device!Gated(d, 4) /\ r.tok # StockSteps(d, 4)[4].last

\* Where the scheduler has got to is not enough: after a burst of two that came
\* back as one token, and before that is reconciled, the next one passes the gate
\* at a count the device has not reached, and crosses into the next block there.
ASSUME GateIsAboutTheDevice ==
  \E d \in Starts :
    LET f == Device!Forward(Device!PrepareInputs(d))
        e == Device!Emitted(Device!RunBurst(f, 2, "refused"))
        scheduled == [e EXCEPT !.computed = [i \in 1 .. 3 |-> d.computed[i] + 2]]
    IN  /\ Device!Gated(d, 2) /\ Device!Gated(scheduled, 2)
        /\ ~ SameAs(StockSteps(e, 2), 2,
                    Device!RunBurst(Device!Forward(Device!PrepareInputs(e)), 2, "unroll"))

\* Whatever the captures come to at two sizes, no graph is there without the one
\* it goes with, the launches that fit pass the gate, and the rung a step takes
\* has its graph.
Kinds == SUBSET {"body", "pro", "unroll", "continue"}
Ladders ==
  {Device!CaptureDone(Device!CaptureSize(Device!CaptureSize(l, 3, ok3), 5, ok5)) :
     l \in {Device!Asked(g, f, u, s, n, k) : g, f, u, s \in BOOLEAN, n \in {1, 4}, k \in {1, 2}},
     ok3 \in Kinds, ok5 \in Kinds}
ASSUME LaddersAreSound ==
  /\ \A l \in Ladders : Device!Nested(l)
  /\ \A l \in Ladders : \A desc \in {3, 5} : \A persistent \in BOOLEAN :
       LET of(sizes) == [size \in sizes |-> size]
           rung == Device!Rung([mode |-> l.mode, fold |-> l.fold, n |-> 4, desc |-> desc,
                                graphs |-> of(l.graphs), pro_graphs |-> of(l.pro_graphs),
                                unroll_graphs |-> of(l.unroll_graphs)], persistent, 4)
       IN  rung = "refused" <=> desc # 3
  /\ \A c \in 1 .. 10 : \A n \in 1 .. 4 : \A ceiling \in 1 .. 3 :
       Device!Gated(Before(1, <<c, 1, 1>>), n) =>
         Device!Gated(Before(1, <<c, 1, 1>>), n * Device!BurstSteps(c, n, 11, ceiling))

------------------------------------------------------------------------------
\* The decode fast path, after every three steps of two requests and two rows,
\* a step being one of requests that arrive, decode, decode past a block, leave,
\* or leave in a step of no tokens.
Fast == INSTANCE DecodeFastpath
          WITH Req <- 1 .. 2, Rows <- 1 .. 2, NoRow <- 0, NoKey <- << >>, Blocks <- 1 .. 3

FastStart ==
  [row |-> [r \in 1 .. 2 |-> 0], table |-> [w \in 1 .. 2 |-> << >>],
   computed |-> [w \in 1 .. 2 |-> 0],
   key |-> << >>, rows |-> << >>, tables |-> << >>, width |-> 0]

\* Who is scheduled, who got a block, where an arrival goes, who left, what the
\* step was of.
FastStep(s, order, grown, at, left, of) ==
  [order |-> order, count |-> [r \in 1 .. 2 |-> IF of = "prompt" THEN 2 ELSE 1],
   new |-> [r \in 1 .. 2 |-> IF r \in grown THEN <<3>> ELSE << >>],
   arrived |-> {order[i] : i \in DOMAIN order} \cap {r \in 1 .. 2 : s.row[r] = 0},
   at |-> at, start |-> <<0, 4>>, finished |-> left, preempted |-> {},
   width |-> IF of = "eager" THEN 0 ELSE 2, plain |-> TRUE, settled |-> of # "unsettled",
   advance |-> <<1, 2>>]

FastSteps(s) ==
  {so \in {FastStep(s, order, grown, at, left, of) :
             order \in {<< >>, <<1>>, <<1, 2>>, <<2, 1>>}, grown \in SUBSET (1 .. 2),
             at \in {<<1, 2>>, <<2, 1>>}, left \in {{}, {1}},
             of \in {"decode", "prompt", "eager", "unsettled"}} :
     /\ Fast!Legal(s, so)
     /\ \A r \in 1 .. 2 : so.new[r] # << >> => r \in Fast!Scheduled(so)
     /\ LET row == Fast!RowsAfter(s, so)
        IN  row[1] # 0 => row[1] # row[2]}

FastAfter ==
  LET next(s) == UNION {{Fast!Step(s, so, raises).state : raises \in {"none", "inputs", "attn"}} :
                          so \in FastSteps(s)}
      after[k \in 0 .. 3] ==
        IF k = 0 THEN {FastStart} ELSE UNION {next(s) : s \in after[k - 1]}
  IN  after[3]

\* A step reads what stock would have built for it, whichever seams it takes, and
\* the fast path is taken: with the cached tables, and with tables gathered again
\* that are not the cached ones.
ASSUME FastStepsReadStockInputs ==
  LET reached == FastAfter
  IN  /\ \A s \in reached :
           /\ Fast!IsWorker(s) /\ Fast!Fresh(s)
           /\ \A so \in FastSteps(s) : \A raises \in {"none", "inputs"} :
                Fast!Step(s, so, raises).inputs = Fast!StockInputs(Fast!Updated(s, so), so)
      /\ \A refreshed \in BOOLEAN : \E s \in reached : \E so \in FastSteps(s) :
           /\ Fast!Step(s, so, "none").path = "fast"
           /\ refreshed <=> Fast!Gathered(Fast!Updated(s, so), s.rows) # s.tables
==============================================================================
