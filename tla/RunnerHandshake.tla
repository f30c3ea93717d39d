-------------------------- MODULE RunnerHandshake --------------------------
(***************************************************************************)
(* The handshake between the scheduler and the Rust runner: one stash per  *)
(* scheduled step, a pinned ring of launches not read back, and the commit *)
(* of their tokens one update late (vtl/patches/rust_runner.py,            *)
(* nstep_decode.py, rust_sched.py, and Runner of the crate's python.rs).   *)
(*                                                                         *)
(* The engine thread schedules step k+1 before it updates step k; the      *)
(* worker samples the scheduled steps in order, concurrently with it.      *)
(* Requests finish at updates, or are aborted, and their slot in the       *)
(* crate's registry goes to the next request the input thread interns.     *)
(*                                                                         *)
(* A token is <<step, launch>>: the launch of the step that computed it.   *)
(***************************************************************************)
EXTENDS Integers, Sequences, SequencesExt, FiniteSets

CONSTANTS Req,         \* request ids, never used twice
          Slots,       \* slots of the registry
          NoSlot, None,
          CommitModes, \* values of updateMode to consider
          MaxLaunches, \* VTL_RUST_RUNNER_STEPS
          MaxSteps     \* bound: steps scheduled

Depth == 2
Ring == {0, 1}

\* A stash, by the step it is of; a step's result in sample mode.
StashType == [seq: Nat, step: 1 .. MaxSteps, slots: UNION {[B -> Slots] : B \in SUBSET Req}]
DoneType == [step: 1 .. MaxSteps, stash: StashType]

ASSUME HandshakeAssumption ==
  /\ CommitModes \subseteq BOOLEAN /\ CommitModes # {}
  /\ MaxLaunches \in Nat \ {0} /\ MaxSteps \in Nat \ {0}
  /\ IsFiniteSet(Slots) /\ NoSlot \notin Slots
  /\ None \notin StashType \cup DoneType

VARIABLES
  updateMode,  \* VTL_RUST_RUNNER_COMMIT, read once: "update", not "sample"
  steps,     \* the scheduled steps: [batch, seq, budget, ran]
  sampled, updated,  \* how many of them were sampled and updated
  seq,       \* _vtl_runner_seq
  stash,     \* STATE.step
  pending,   \* STATE.pending: launches to commit, [slot, stash, took]
  done,      \* STATE.done (sample mode)
  live,      \* "unarmed", "live" or "refused"
  ring,      \* what the pinned buffers hold: [step, took]
  slotOf, freeSlots,  \* Manager::ids and Manager::free_slots
  known,     \* requests decide() has seen: interned, and in the token store
  status,    \* "new", "waiting", "running" or "finished"
  store      \* tokens appended per request

registry == <<slotOf, freeSlots, known, status>>
runnerState == <<seq, stash, pending, done, live, ring>>
vars == <<updateMode, steps, sampled, updated, runnerState, registry, store>>

Running == {r \in Req : status[r] = "running"}
Scheduled == Len(steps)

Init ==
  /\ updateMode \in CommitModes
  /\ steps = <<>> /\ sampled = 0 /\ updated = 0
  /\ seq = 0 /\ stash = None /\ pending = <<>> /\ done = None /\ live = "unarmed"
  /\ ring = [i \in Ring |-> None]
  /\ slotOf = [r \in Req |-> NoSlot]
  /\ freeSlots = SetToSeq(Slots)
  /\ known = {}
  /\ status = [r \in Req |-> "new"]
  /\ store = [r \in Req |-> <<>>]

\* try_arm: retried from the step loop until it arms or is refused.
Arm ==
  /\ live = "unarmed"
  /\ live' = "live" /\ pending' = <<>>
  /\ UNCHANGED <<updateMode, steps, sampled, updated, seq, stash, done, ring, registry, store>>

\* _State.refuse: permanent. The stash is left to its owner.
Refuse == live' = "refused" /\ pending' = <<>> /\ done' = None

-----------------------------------------------------------------------------
(* The input thread: preprocess_add_request interns the request (the       *)
(* registry would grow where this one is full).                            *)

Arrive(r) ==
  /\ status[r] = "new" /\ freeSlots # <<>>
  /\ slotOf' = [slotOf EXCEPT ![r] = Last(freeSlots)]
  /\ freeSlots' = Front(freeSlots)
  /\ status' = [status EXCEPT ![r] = "waiting"]
  /\ UNCHANGED <<updateMode, steps, sampled, updated, runnerState, known, store>>

-----------------------------------------------------------------------------
(* The engine thread: schedule, abort.                                     *)

\* runner_stash: what it refuses on. Slots are known once decide() saw them.
MayStash(batch) == live = "live" /\ stash = None /\ done = None /\ batch \subseteq known

\* schedule() and commit_burst. The batch is what runs and what is admitted.
\* The stash may be made and its burst rolled back: the stamped seq stays on
\* the SchedulerOutput, the stash is taken back by that seq.
Schedule ==
  /\ Scheduled - updated < Depth /\ Scheduled < MaxSteps
  /\ \E admitted \in SUBSET {r \in Req : status[r] = "waiting"} :
     LET batch == Running \cup admitted
         kept == [ seq |-> seq + 1, step |-> Scheduled + 1, slots |-> [r \in batch |-> slotOf[r]] ]
     IN /\ batch # {}
        /\ status' = [r \in Req |-> IF r \in admitted THEN "running" ELSE status[r]]
        /\ \/ /\ steps' = Append(steps, [batch |-> batch, seq |-> 0, budget |-> 1, ran |-> 0])
              /\ UNCHANGED <<seq, stash>>
           \/ /\ MayStash(batch)
              /\ seq' = seq + 1
              /\ \/ \E n \in 1 .. MaxLaunches :
                      /\ stash' = kept
                      /\ steps' = Append(steps,
                           [batch |-> batch, seq |-> seq + 1, budget |-> n, ran |-> 0])
                 \/ \* burst_commit_all raised: take_step_for(seq)
                    /\ stash' = None
                    /\ steps' = Append(steps,
                         [batch |-> batch, seq |-> seq + 1, budget |-> 0, ran |-> 0])
  /\ UNCHANGED <<updateMode, sampled, updated, pending, done, live, ring, slotOf,
                 freeSlots, known, store>>

\* Manager::forget for every request of the set: the slot and all that is
\* keyed by it is free for the next request.
Forget(gone) ==
  /\ status' = [r \in Req |-> IF r \in gone THEN "finished" ELSE status[r]]
  /\ slotOf' = [r \in Req |-> IF r \in gone THEN NoSlot ELSE slotOf[r]]
  /\ freeSlots' = freeSlots \o SetToSeq({slotOf[r] : r \in gone})

Abort(r) ==
  /\ status[r] \in {"waiting", "running"}
  /\ Forget({r})
  /\ known' = known \ {r}
  /\ UNCHANGED <<updateMode, steps, sampled, updated, runnerState, store>>

-----------------------------------------------------------------------------
(* The worker: sample_tokens of the next scheduled step.                   *)

Sampling == sampled + 1

\* The pop comes before anything can return, and only by the step's own seq.
Claimed == stash # None /\ steps[Sampling].seq # 0 /\ stash.seq = steps[Sampling].seq

TakeStash ==
  /\ Sampling <= Scheduled
  /\ stash' = IF Claimed THEN None ELSE stash
  /\ sampled' = Sampling

Ran(n) == steps' = [steps EXCEPT ![Sampling].ran = n]

\* The Python arm: no stash, a refusal before the launch, or a launch that
\* declined. It takes one burst of the budget.
SampleInPython ==
  /\ TakeStash /\ Ran(1)
  /\ UNCHANGED <<updateMode, updated, seq, pending, done, live, ring, registry, store>>

Occupied == {pending[i].slot : i \in DOMAIN pending}

\* Mutant: the first slot, whoever holds it.
FirstSlot == 0

\* free_slot: the first ring index no pending launch holds.
FreeSlot == CHOOSE i \in Ring \ Occupied : \A j \in Ring \ Occupied : i <= j

\* Update mode: the launches are enqueued and copied into the ring slot. The
\* crate takes one launch only where the shape has no continuation graph.
SampleByLaunch ==
  /\ updateMode /\ TakeStash /\ Claimed
  /\ live = "live" /\ done = None /\ Ring \ Occupied # {}
  /\ \E took \in {1, steps[Sampling].budget} :
       /\ pending' = Append(pending, [slot |-> FreeSlot, stash |-> stash, took |-> took])
       /\ ring' = [ring EXCEPT ![FreeSlot] = [step |-> Sampling, took |-> took]]
       /\ Ran(took)
  /\ UNCHANGED <<updateMode, updated, seq, done, live, registry, store>>

\* Sample mode's interlock: this step is the only one not applied.
Interlock == Scheduled - updated = 1

\* The launch raised before it committed anything: the runner stands down and
\* Python runs the step.
LaunchRaises ==
  /\ TakeStash /\ Claimed
  /\ live = "live" /\ done = None
  /\ IF updateMode THEN Ring \ Occupied # {} ELSE Interlock
  /\ Ran(1) /\ Refuse
  /\ UNCHANGED <<updateMode, updated, seq, ring, registry, store>>

\* Tokens a request is given by the first n launches of a step.
Tokens(k, n) == [i \in 1 .. n |-> <<k, i>>]

\* runner_packable, and the token store has every slot (else run_steps raises).
Packable(slots) == \A s \in slots : \E r \in known : slotOf[r] = s

\* Sample mode: run_steps launches and commits to whoever holds the slots,
\* leaving after the first launch in which a request stops.
SampleAndCommit ==
  /\ ~updateMode /\ TakeStash /\ Claimed
  /\ live = "live" /\ done = None /\ Interlock /\ Packable(Range(stash.slots))
  /\ \E ran \in 1 .. steps[Sampling].budget :
       /\ store' = [r \in Req |->
                      IF slotOf[r] \in Range(stash.slots)
                      THEN store[r] \o Tokens(Sampling, ran) ELSE store[r]]
       /\ done' = [step |-> Sampling, stash |-> stash]
       /\ Ran(ran)
  /\ UNCHANGED <<updateMode, updated, seq, pending, live, ring, registry>>

-----------------------------------------------------------------------------
(* The engine thread: update_from_output of the oldest sampled step.       *)

Updating == updated + 1
Step == steps[Updating]

\* Mutant: the blind clear that used to be there.
SweepAll == stash' = None

\* clear_step_upto
Sweep == stash' = IF stash # None /\ Step.seq # 0 /\ stash.seq <= Step.seq THEN None ELSE stash

\* The requests whose tokens the update applies and that stop in it, each
\* after some launch of the step; the others take all of its launches.
Stops(batch) == UNION {[S -> 1 .. Step.ran] : S \in SUBSET batch}
Taken(r, stops) == IF r \in DOMAIN stops THEN stops[r] ELSE Step.ran

Finish(stops) ==
  /\ Forget(DOMAIN stops)
  /\ known' = (known \cup (Step.batch \cap Running)) \ DOMAIN stops

\* decide(): from the AsyncOutput, for the requests of the step that still run.
Decide ==
  \E stops \in Stops(Step.batch \cap Running) :
    /\ store' = [r \in Req |-> IF r \in Step.batch \cap Running
                               THEN store[r] \o Tokens(Updating, Taken(r, stops)) ELSE store[r]]
    /\ Finish(stops)

\* Mutant: runner_packable, which does not ask whose slot it is.
OwnsByName(s) == \A r \in DOMAIN s.slots : \E q \in Req : slotOf[q] = s.slots[r]

\* Manager::runner_owns: every slot still holds the request it was stashed for.
RunnerOwns(s) == \A r \in DOMAIN s.slots : slotOf[r] = s.slots[r]

\* Runner::commit: tokens go from the ring to whoever holds the slots.
Commit(entry) ==
  LET owners == {r \in Req : slotOf[r] \in Range(entry.stash.slots)}
      buffer == ring[entry.slot]
  IN \E stops \in Stops(owners) :
       /\ store' = [r \in Req |->
                      IF r \in owners
                      THEN store[r] \o Tokens(buffer.step, Taken(r, stops)) ELSE store[r]]
       /\ Finish(stops)

Oldest == Head(pending)

\* runner_commit's answers: not this step's launch; out of step, or raised
\* before it changed anything (stand down); declined; committed.
UpdateFromRing ==
  \/ Oldest.stash.seq > Step.seq /\ Decide /\ UNCHANGED <<pending, live, done>>
  \/ Oldest.stash.seq <= Step.seq /\ Refuse /\ Decide
  \/ /\ Oldest.stash.seq = Step.seq
     /\ IF RunnerOwns(Oldest.stash) THEN Commit(Oldest) ELSE Decide
     /\ pending' = Tail(pending) /\ UNCHANGED <<live, done>>

\* Sample mode: the residue of what the crate has committed already.
UpdateFromDone ==
  /\ \E stops \in SUBSET (Step.batch \cap Running) :
       Finish([r \in stops |-> Step.ran])
  /\ done' = None
  /\ UNCHANGED <<updateMode, pending, live, store>>

Update ==
  /\ Updating <= sampled
  /\ updated' = Updating
  /\ Sweep
  /\ IF updateMode /\ pending # <<>> THEN UpdateFromRing
     ELSE IF done # None THEN UpdateFromDone
     ELSE Decide /\ UNCHANGED <<pending, live, done>>
  /\ UNCHANGED <<updateMode, steps, sampled, seq, ring>>

-----------------------------------------------------------------------------
Next ==
  \/ Arm \/ Schedule \/ Update
  \/ \E r \in Req : Arrive(r) \/ Abort(r)
  \/ SampleInPython \/ SampleByLaunch \/ LaunchRaises \/ SampleAndCommit

Spec == Init /\ [][Next]_vars

-----------------------------------------------------------------------------
(* Properties.                                                             *)

StepType == [ batch: SUBSET Req, seq: 0 .. MaxSteps,
              budget: 0 .. MaxLaunches, ran: 0 .. MaxLaunches ]

TypeOK ==
  /\ updateMode \in CommitModes
  /\ steps \in Seq(StepType)
  /\ updated \in 0 .. sampled /\ sampled \in 0 .. Scheduled /\ seq \in 0 .. MaxSteps
  /\ stash = None \/ stash \in StashType
  /\ \A i \in DOMAIN pending :
       /\ pending[i].slot \in Ring /\ pending[i].stash \in StashType
       /\ pending[i].took \in 1 .. MaxLaunches
  /\ live \in {"unarmed", "live", "refused"}
  /\ slotOf \in [Req -> Slots \cup {NoSlot}] /\ IsInjective(freeSlots)
  /\ known \subseteq Running
  /\ status \in [Req -> {"new", "waiting", "running", "finished"}]

\* The tokens the steps updated so far computed for a request; a step the
\* crate committed at sample time counts.
Applied == IF done = None THEN updated ELSE done.step
Computed(r) ==
  UNION {{<<k, i>> : i \in 1 .. steps[k].ran} : k \in {j \in 1 .. Applied : r \in steps[j].batch}}

Earlier(s, t) == s[1] < t[1] \/ (s[1] = t[1] /\ s[2] < t[2])
InOrder(tokens) == \A i, j \in DOMAIN tokens : i < j => Earlier(tokens[i], tokens[j])

\* All of a set of tokens, in order; those of it before some point, in order.
AllOf(tokens, set) == InOrder(tokens) /\ Range(tokens) = set
FirstOf(tokens, set) ==
  /\ InOrder(tokens) /\ Range(tokens) \subseteq set
  /\ \A t \in Range(tokens) : \A s \in set : Earlier(s, t) => s \in Range(tokens)

\* Every request is given exactly the tokens its steps computed for it, once
\* and in order, whether the crate or Python commits a step, and none of
\* another request's: a finished request has the first of them.
TokensAsComputed ==
  \A r \in Req :
    /\ status[r] = "running" => AllOf(store[r], Computed(r))
    /\ status[r] = "finished" => FirstOf(store[r], Computed(r))

\* A stash waits exactly for a scheduled step that was not sampled: no other
\* step's update, sample or rollback takes it away, and none is left behind.
StashSurvives ==
  /\ \A k \in sampled + 1 .. Scheduled :
       steps[k].seq # 0 /\ steps[k].budget > 0 => stash # None /\ stash.seq = steps[k].seq
  /\ stash # None => stash.step > sampled

\* The launches not read back are those of steps sampled and not updated, in
\* order, each in a ring slot of its own that still holds its windows.
RingIsOwned ==
  /\ \A i \in DOMAIN pending :
       /\ updated < pending[i].stash.step /\ pending[i].stash.step <= sampled
       /\ ring[pending[i].slot] = [step |-> pending[i].stash.step, took |-> pending[i].took]
  /\ \A i, j \in DOMAIN pending : i < j =>
       pending[i].slot # pending[j].slot /\ pending[i].stash.step < pending[j].stash.step

\* Sample mode: a result the crate has committed is the very step the engine
\* thread updates next, never a later or an earlier one.
DoneIsNext == done # None => done.step = updated + 1 /\ done.step <= sampled

\* Results wait, in either mode, for the update of their own step: in their
\* ring slots, or as the one step the crate has committed.
ResultsInOrder == TypeOK /\ RingIsOwned /\ DoneIsNext
=============================================================================
