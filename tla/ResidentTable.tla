--------------------------- MODULE ResidentTable ---------------------------
(***************************************************************************)
(* The engine's step loop with two records of every running request: the   *)
(* Python Request objects, and the resident table of the crate that        *)
(* replaces marshalling them (vtl/patches/rust_sched.py, vtl-sched/src/    *)
(* sched.rs and manager.rs).                                               *)
(*                                                                         *)
(* A step reads the table when it is clean and the Python objects when it  *)
(* is dirty; either way both are then advanced on their own, by their own  *)
(* code, and updated on their own when the step's tokens come back, one    *)
(* step later: at most Depth steps are in flight.                          *)
(*                                                                         *)
(*   req       the Python objects     table     the crate's entries        *)
(*   running   self.running           waiting   self.waiting               *)
(*   held      blocks per request     pipeline  steps in flight, oldest    *)
(*                                              first                      *)
(*   dirty     TableState.dirty       bursts    bursts are not disabled    *)
(*   alarmed   burst_invariant_alarm has used its one resync               *)
(*                                                                         *)
(* A step in flight is the tokens it computes for every request, the       *)
(* requests it samples, and how many tokens it promised each (vtl_burst_n).*)
(***************************************************************************)
EXTENDS ScheduleLoop

CONSTANTS NoEntry,    \* no resident entry
          MixedCap,   \* VTL_SCHED_MIXED_PREFILL_CAP, 0 for none
          BurstN,     \* tokens of one burst, 1 for no bursts
          BurstSteps, \* bursts the runner may take in one step
          BurstCap,   \* largest batch a burst was captured for
          Speculate,  \* VTL_RUST_SCHED_SPEC
          Fallbacks,  \* some updates are decided by stock check_stop
          Bails       \* some steps are scheduled by stock vLLM

ASSUME TableAssumption ==
  /\ {MixedCap, BurstCap} \subseteq Nat
  /\ {BurstN, BurstSteps} \subseteq Nat \ {0}
  /\ {Speculate, Fallbacks, Bails} \subseteq BOOLEAN

Depth == 2

VARIABLES req, table, running, waiting, held, pipeline, dirty, bursts, alarmed

vars == <<req, table, running, waiting, held, pipeline, dirty, bursts, alarmed>>

Live == {"WAITING", "RUNNING", "PREEMPTED"}

\* What a Request object can be, and an entry of the table.
Statuses == Live \cup {"NEW", "FINISHED"}
Object == [T : Nat, C : Nat, P : Int, chunk : BOOLEAN, status : Statuses]
Entry == [T : Nat, C : Nat, P : Nat, chunk : BOOLEAN, status : Statuses]

ASSUME EntryAssumption == NoEntry \notin Object

\* The queue q once the requests in S have left it.
Without(q, S) == FoldLeft(LAMBDA t, r : IF r \in S THEN t ELSE Append(t, r), <<>>, q)

\* pack_req: a negative promise does not cross into the crate.
Pack(e) == [e EXCEPT !.P = Max({0, @})]

Init ==
  /\ req = [r \in Req |-> [ T |-> PromptLen[r], C |-> 0, P |-> 0,
                            chunk |-> FALSE, status |-> "NEW" ]]
  /\ table = [r \in Req |-> NoEntry]
  /\ running = <<>> /\ waiting = <<>>
  /\ held = [r \in Req |-> 0]
  /\ pipeline = <<>>
  /\ dirty = TRUE
  /\ bursts = TRUE
  /\ alarmed = FALSE

------------------------------------------------------------------------------
(* Requests come and go *)

AddRequest(r) ==
  /\ req[r].status = "NEW"
  /\ \A q \in Req : q < r => req[q].status # "NEW"
  /\ req' = [req EXCEPT ![r].status = "WAITING"]
  /\ waiting' = Append(waiting, r)
  /\ UNCHANGED <<table, running, held, pipeline, dirty, bursts, alarmed>>

\* finish_requests, for a client that went away.  Tokens in flight for the
\* request are dropped when they arrive.
Abort(r) ==
  /\ req[r].status \in Live
  /\ req' = [req EXCEPT ![r].status = "FINISHED"]
  /\ table' = [table EXCEPT ![r] = NoEntry]
  /\ held' = Release(held, {r})
  /\ running' = Without(running, {r})
  /\ waiting' = Without(waiting, {r})
  /\ UNCHANGED <<pipeline, dirty, bursts, alarmed>>

------------------------------------------------------------------------------
(* The burst commit at the end of schedule() *)

ComputedBefore(e) == e.C - 1

BurstLimit(r) == Min({MaxModelLen - 1, PromptLen[r] + MaxTokens[r]})

BurstShape(e) == ~e.chunk /\ e.C = e.T + e.P - 1

\* Mutant: the block boundary is not looked at.
BurstGateUnaligned(r, e, n) ==
  /\ e.P >= 0
  /\ ComputedBefore(e) + n <= BurstLimit(r)

\* _burst_gate, after the shape: the burst stays in the block and in the
\* length of the request.
BurstGate(r, e, n) ==
  /\ (ComputedBefore(e) % BlockSize) + n <= BlockSize
  /\ e.P >= 0
  /\ ComputedBefore(e) + n <= BurstLimit(r)

\* runner_steps: how many bursts fit back to back, for the tightest request.
StepsThatFit(S, entry) ==
  LET room(r) == Min({ BurstSteps,
                       (BlockSize - (ComputedBefore(entry[r]) % BlockSize)) \div BurstN,
                       (BurstLimit(r) - ComputedBefore(entry[r])) \div BurstN })
  IN  Max({1, Min({room(r) : r \in S})})

\* No admission waits for this step, other than the ones the cap withheld.
BurstAsked(d, nobodyWaits) ==
  /\ bursts /\ BurstN > 1
  /\ BurstEligible(d, BurstCap)
  /\ nobodyWaits

\* Every request of the batch has the shape and passes the gate.
BurstGranted(S, entry) ==
  \A r \in S : BurstShape(entry[r]) /\ BurstGate(r, entry[r], BurstN)

\* The alarm goes off at the first request that is off its shape, unless the
\* gate refused an earlier one.
BurstAlarm(batch, entry) ==
  \E i \in DOMAIN batch :
     /\ ~BurstShape(entry[batch[i]])
     /\ \A j \in 1 .. i - 1 : BurstGate(batch[j], entry[batch[j]], BurstN)

Moved(entry, S, delta) ==
  [r \in DOMAIN entry |->
     IF r \in S /\ entry[r] # NoEntry THEN BurstAdvance(entry[r], delta)
     ELSE entry[r]]

InFlight(d, promised, entry) ==
  [ tokens |-> d.tokens, promised |-> promised,
    samples |-> {r \in Scheduled(d) : ~entry[r].chunk} ]

Enqueue(step) ==
  pipeline' = IF step.tokens = [r \in Req |-> 0] THEN pipeline
              ELSE Append(pipeline, step)

\* What is left to the end of schedule() once both records were advanced to
\* py and rs: commit a burst, fail to, or leave the step as it is.
CommitBurst(d, py, rs, nobodyWaits, wasDirty) ==
  LET S == Scheduled(d)
      batch == SelectSeq(d.run, LAMBDA r : r \in S)
      asked == BurstAsked(d, nobodyWaits)
      granted == asked /\ BurstGranted(S, py)
      alarm == asked /\ BurstAlarm(batch, py) /\ ~alarmed
  IN  \/ \* no burst: not asked, refused, or no graph captured for the batch
         /\ req' = py /\ table' = rs
         /\ Enqueue(InFlight(d, 1, py))
         /\ alarmed' = (alarmed \/ alarm)
         /\ dirty' = (wasDirty \/ alarm)
         /\ UNCHANGED bursts
      \/ \E k \in 1 .. BurstSteps :
         /\ granted /\ k <= StepsThatFit(S, py)
         /\ req' = Moved(py, S, BurstN * k - 1)
         /\ table' = Moved(rs, S, BurstN * k - 1)
         /\ Enqueue(InFlight(d, BurstN * k, py))
         /\ dirty' = wasDirty
         /\ UNCHANGED <<bursts, alarmed>>
      \/ \* the commit raises: the objects are rolled back, the table is not
         \E moved \in SUBSET S, k \in 1 .. BurstSteps :
         /\ granted /\ k <= StepsThatFit(S, py)
         /\ req' = py
         /\ table' = Moved(rs, moved, BurstN * k - 1)
         /\ Enqueue(InFlight(d, 1, py))
         /\ bursts' = FALSE
         /\ dirty' = TRUE
         /\ UNCHANGED alarmed

------------------------------------------------------------------------------
(* schedule() *)

\* _update_after_schedule and the preempt and admit loops, on one record.
Applied(entry, d) ==
  [r \in Req |->
     IF entry[r] = NoEntry THEN NoEntry
     ELSE IF r \in ToSet(d.preempted) THEN Preempt(entry[r])
     ELSE IF r \in ToSet(d.admitted)
       THEN Advance([entry[r] EXCEPT !.status = "RUNNING"], d.tokens[r])
     ELSE IF d.tokens[r] > 0 THEN Advance(entry[r], d.tokens[r])
     ELSE entry[r]]

\* What commit() advances: the resident entries, and the admitted requests as
\* they were marshalled.
Resident(tbl, d) ==
  [r \in Req |-> IF r \in ToSet(d.admitted) THEN Pack(req[r]) ELSE tbl[r]]

HasRequests == running # <<>> \/ waiting # <<>>

\* Mutant: the preempted are put back as one block.
RebuiltInBlock(d, offered, rest) ==
  d.preempted \o SubSeq(offered, Len(d.admitted) + 1, Len(offered)) \o rest

\* Mutant: the withheld are not put back.
RebuiltFromLeftovers(d, offered, rest) ==
  Reverse(d.preempted) \o SubSeq(offered, Len(d.admitted) + 1, Len(offered))

\* The queue schedule() leaves: the crate's leftovers, the withheld, and in
\* front the preempted, each put before the one before it.
Rebuilt(d, offered, rest) ==
  Reverse(d.preempted)
    \o SubSeq(offered, Len(d.admitted) + 1, Len(offered)) \o rest

ScheduleStep ==
  LET resident == ~dirty /\ \A r \in ToSet(running) : table[r] # NoEntry
      loaded == [r \in Req |-> IF ~resident /\ r \in ToSet(running)
                               THEN Pack(req[r]) ELSE table[r]]
      entry == [r \in Req |-> IF r \in ToSet(running) THEN loaded[r] ELSE Pack(req[r])]
      capped == running # <<>> /\ MixedCap > 0 /\ Len(waiting) > MixedCap
      offer == IF capped THEN MixedCap ELSE Len(waiting)
      offered == SubSeq(waiting, 1, offer)
      rest == SubSeq(waiting, offer + 1, Len(waiting))
      skewed == \E r \in ToSet(running) : Inconsistent(entry[r])
  IN  /\ HasRequests
      /\ Len(pipeline) < Depth
      /\ \E d \in {Schedule(entry, running, offered, held)} :
           /\ running' = d.run
           /\ waiting' = Rebuilt(d, offered, rest)
           /\ held' = d.held
           /\ CommitBurst(d, Applied(req, d), Applied(Resident(loaded, d), d),
                          Len(waiting') <= Len(rest),
                          skewed /\ Scheduled(d) = {} /\ d.run # <<>>)

\* A bail: stock vLLM schedules from its own objects, and neither the cap nor
\* the burst commit runs.  Its preemption drops the slot.
StockStep ==
  /\ Bails
  /\ HasRequests
  /\ Len(pipeline) < Depth
  /\ \E d \in {Schedule(req, running, waiting, held)} :
       /\ running' = d.run
       /\ waiting' = Rebuilt(d, waiting, <<>>)
       /\ held' = d.held
       /\ req' = Applied(req, d)
       /\ table' = [r \in Req |-> IF r \in ToSet(d.preempted) THEN NoEntry ELSE table[r]]
       /\ Enqueue(InFlight(d, 1, Applied(req, d)))
       /\ dirty' = TRUE
       /\ UNCHANGED <<bursts, alarmed>>

------------------------------------------------------------------------------
(* update_from_output(), for the oldest step in flight *)

LengthCap(r) == Min({MaxModelLen, PromptLen[r] + MaxTokens[r]})

\* check_stop over the tokens offered to a request: how many are kept, and
\* whether the last of them stops it.  A stop token may be any of them.
Verdicts(r, offered) ==
  {v \in [acc : 1 .. offered, stop : BOOLEAN] :
     LET atCap == req[r].T + v.acc >= LengthCap(r)
     IN  /\ req[r].T + v.acc <= LengthCap(r)
         /\ atCap => v.stop
         /\ v.acc < offered => v.stop}

\* The Python object: the tokens are appended, a burst that came back short
\* is handed back, then AsyncScheduler takes the kept tokens off the promise.
\* The clamp in _update_request_with_output comes before that last step.
UpdatedObject(e, acc, short) ==
  LET appended == [e EXCEPT !.T = @ + acc]
      settled == IF short > 0 THEN BurstRetract(appended, short) ELSE appended
  IN  [settled EXCEPT !.P = Max({0, @}) - acc]

\* Mutant: the short tokens are not handed back to the table.
UpdatedEntryKeepsShort(e, total, acc, short, decided) ==
  IF e = NoEntry \/ ~decided THEN e
  ELSE [e EXCEPT !.T = total, !.P = Minus(@, acc)]

\* The resident entry: update_step syncs it to Python's count, table_burst
\* hands the short tokens back.  A fallback request only sees the latter.
UpdatedEntry(e, total, acc, short, decided) ==
  LET synced == [e EXCEPT !.T = total, !.P = Minus(@, acc)]
      base == IF decided THEN synced ELSE e
  IN  IF e = NoEntry THEN NoEntry
      ELSE IF short > 0 THEN BurstRetract(base, short) ELSE base

\* step: what came back, a plain step or some of the bursts it promised.
\* verdict: of every live sampled request.  fallback: those stock check_stop
\* decided.
Update ==
  /\ pipeline # <<>>
  /\ LET step == Head(pipeline)
         live == {r \in step.samples : req[r].status \in Live}
         whole == {n \in 1 .. step.promised : n % BurstN = 0}
     IN  \E offered \in {1} \cup whole :
         \E verdict \in [live -> UNION {Verdicts(r, offered) : r \in live}] :
         \E fallback \in IF Fallbacks THEN SUBSET live ELSE {{}} :
         LET short(r) == step.promised - verdict[r].acc
             stopped == {r \in live : verdict[r].stop}
         IN  /\ \A r \in live : verdict[r] \in Verdicts(r, offered)
             /\ req' = [r \in Req |->
                  IF r \notin live THEN req[r]
                  ELSE [UpdatedObject(req[r], verdict[r].acc, short(r))
                          EXCEPT !.status = IF r \in stopped THEN "FINISHED" ELSE @]]
             /\ table' = [r \in Req |->
                  IF r \in stopped THEN NoEntry
                  ELSE IF r \in live
                    THEN UpdatedEntry(table[r], req[r].T + verdict[r].acc,
                                      verdict[r].acc, short(r), r \notin fallback)
                  ELSE table[r]]
             /\ running' = Without(running, stopped)
             /\ waiting' = Without(waiting, stopped)
             /\ held' = Release(held, stopped)
             /\ dirty' = (dirty \/ (Speculate /\ fallback # {}))  \* maybe_kick
             /\ pipeline' = Tail(pipeline)
             /\ UNCHANGED <<bursts, alarmed>>

------------------------------------------------------------------------------
Next ==
  \/ \E r \in Req : AddRequest(r) \/ Abort(r)
  \/ ScheduleStep
  \/ StockStep
  \/ Update

Spec == Init /\ [][Next]_vars

\* The engine's busy loop schedules while there are requests and takes the
\* oldest step when it is done (weak fairness of the two, with what enables
\* them written out).  Nobody has to send or abort a request.
CanSchedule == HasRequests /\ Len(pipeline) < Depth
CanUpdate == pipeline # <<>>
FairSpec ==
  /\ Spec
  /\ []<>~CanSchedule \/ []<><<ScheduleStep \/ StockStep>>_vars
  /\ []<>~CanUpdate \/ []<><<Update>>_vars

------------------------------------------------------------------------------
(* Properties *)

\* Types of the state; at most max_num_running_reqs run, at most Depth steps
\* are in flight.
TypeOK ==
  /\ req \in [Req -> Object]
  /\ table \in [Req -> Entry \cup {NoEntry}]
  /\ running \in Seq(Req) /\ Len(running) <= MaxRunning
  /\ waiting \in Seq(Req)
  /\ held \in [Req -> 0 .. NumBlocks]
  /\ pipeline \in Seq([tokens : [Req -> Nat], promised : Nat, samples : SUBSET Req])
  /\ Len(pipeline) <= Depth
  /\ {dirty, bursts, alarmed} \subseteq BOOLEAN

\* No request is lost or queued twice.  The waiting queue is rebuilt on every
\* step from what the crate left, what the cap withheld and what was
\* preempted; a request in none of the three would never run again.
QueuesPartition ==
  LET distinct(s) == Cardinality(ToSet(s)) = Len(s)
  IN  /\ distinct(running) /\ distinct(waiting)
      /\ \A r \in Req :
           /\ r \in ToSet(running) <=> req[r].status = "RUNNING"
           /\ r \in ToSet(waiting) <=> req[r].status \in {"WAITING", "PREEMPTED"}

\* First come first served survives preemption, withheld admissions, stock
\* steps and aborts: whoever runs came before whoever waits, and both queues
\* are in the order of arrival.
ArrivalOrder ==
  LET line == running \o waiting
  IN  \A i, j \in DOMAIN line : i < j => line[i] < line[j]

\* The queues hold everybody once and in the order of arrival.
QueuesInOrder == QueuesPartition /\ ArrivalOrder

\* Only running requests hold blocks, no more than there are, and every
\* position a running request has computed or a burst was promised lies in a
\* block it holds.
BlocksCover ==
  /\ SumFunction(held) <= NumBlocks
  /\ \A r \in Req :
       /\ held[r] > 0 => req[r].status = "RUNNING"
       /\ req[r].status = "RUNNING" => req[r].C <= held[r] * BlockSize

\* No request computes the last position of its context: the scheduler stops
\* one short, bursts included.
WithinContext == \A r \in Req : req[r].C < MaxModelLen

\* Positions stay inside blocks and context, whoever is preempted, and
\* however many tokens a burst promises.
Bounded == TypeOK /\ BlocksCover /\ WithinContext

\* num_output_placeholders of a running request counts the tokens that the
\* steps in flight will bring for it, whatever came back short or was
\* decided by stock code.
PromisesInFlight ==
  \A r \in ToSet(running) :
    LET from(step) == IF r \in step.samples THEN step.promised ELSE 0
    IN  req[r].P = SumFunction([i \in DOMAIN pipeline |-> from(pipeline[i])])

\* The shape a decoding request keeps: while it has a promise outstanding, all
\* its tokens but the last are computed or promised, however much of a burst
\* came back.  Neither record runs past its tokens, where the loop would skip
\* the request for good.
SteadyDecode ==
  \A r \in ToSet(running) :
    /\ req[r].C < req[r].T + req[r].P
    /\ req[r].P > 0 => req[r].C = req[r].T + req[r].P - 1
    /\ ~dirty /\ table[r] # NoEntry => ~Inconsistent(table[r])

\* A clean table is what marshalling the Python objects would give.  The two
\* are advanced, updated and corrected by different code, and a resident
\* step reads nothing else. It is claimed while memory lasts: the README
\* says what preemption with a token in flight does to it.
TableMatches ==
  ~dirty => \A r \in ToSet(running) : table[r] = Pack(req[r])

\* Every request that is added finishes, through preemption, withheld
\* admissions, bursts that fail and tables that are resynced.
EveryRequestFinishes ==
  \A r \in Req : req[r].status = "WAITING" ~> req[r].status = "FINISHED"
==============================================================================
