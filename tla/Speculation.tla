----------------------------- MODULE Speculation -----------------------------
(***************************************************************************)
(* Speculative precompute (vtl-sched/src/spec.rs and journal.rs, with the  *)
(* entry points of python.rs that share their lock): a worker thread runs  *)
(* the next schedule() on the real state under an undo journal, and the    *)
(* engine consumes the result or has it rolled back.                       *)
(*                                                                         *)
(*   mem       the manager's state, written in place by the worker's run   *)
(*   journal   the armed journal: value of a cell before each write        *)
(*   armed     whether a journal is armed                                  *)
(*   base      auxiliary: the state without the speculation in flight      *)
(*   pending   SpecState.pending with gen_at_kick                          *)
(*   mail      the mailbox, job the message the worker took out of it      *)
(*   worker    "parked" on the mailbox, "waiting" for the lock, "running"  *)
(*             with the lock held                                          *)
(*   window    phase_split_open                                            *)
(*   carry     core.decisions, the token budget and the recorded probes    *)
(*   disabled  SpecState.disabled; stopped  SpecDriver.disabled            *)
(*   poisoned  the mutex: a panic on the Python side while it was held     *)
(*   gen, out  as in DirectScheduler: Python's counter, the decisions that *)
(*             the engine received last                                    *)
(*                                                                         *)
(* A pymethod holds the lock from its first to its last access, so it is   *)
(* one step, possible while the worker is not running.  The engine thread  *)
(* and the input thread may make any call at any time: nothing here rests  *)
(* on the order in which rust_sched.py makes them.                         *)
(***************************************************************************)
EXTENDS Naturals, Sequences

CONSTANTS Cells, Values, Orders, Params, MaxGen, Decisions, NoDecision,
          Carries, NoCarry, Result(_, _), Decision(_, _), ProbeResult(_, _),
          Probe(_, _), AdmitResult(_, _), Admission(_, _),
          NoCall, NoPending,
          MaxJournal  \* bound on the writes of one run

VARIABLES mem, base, journal, armed, pending, mail, job, worker, window,
          carry, disabled, stopped, poisoned, gen, out

\* The state without the speculation in flight, and the phase-split window.
Direct == INSTANCE DirectScheduler WITH
            mem   <- base,
            carry <- IF window THEN carry ELSE NoCarry

Memory == [Cells -> Values]
Call == [gen : 0 .. MaxGen, slots : Orders, params : Params]
Entry == [cell : Cells, old : Values]
Now(slots, params) == [gen |-> gen, slots |-> slots, params |-> params]

ASSUME SpeculationAssumption ==
  /\ Direct!SchedulerAssumption
  /\ MaxJournal \in Nat
  /\ NoCall \notin Call
  /\ NoPending \notin [call : Call, decisions : Decisions]

specVars == <<mem, base, journal, armed, pending>>
workerVars == <<mail, job, worker>>
flags == <<disabled, stopped, poisoned>>
vars == <<specVars, workerVars, window, carry, flags, gen, out>>

------------------------------------------------------------------------------
(***************************************************************************)
(* The journal.                                                            *)
(***************************************************************************)

\* Mutant: a site that writes without recording.
RecordNothing(c) == journal

\* get_mut, set_free and the other recording sites: the old value, first.
Record(c) == Append(journal, [cell |-> c, old |-> mem[c]])

\* Journal::rollback stores the recorded values back from the last to the
\* first, so the value that stays in a cell is the first one recorded for it.
Entries(j, c) == {i \in DOMAIN j : j[i].cell = c}
Earliest(j, c) == CHOOSE i \in Entries(j, c) : \A k \in Entries(j, c) : i <= k
Undo(m, j) ==
  [c \in Cells |-> IF Entries(j, c) = {} THEN m[c] ELSE j[Earliest(j, c)].old]

\* rollback_journal, on the journal as it is.
RolledBack == IF armed THEN Undo(mem, journal) ELSE mem

Disarm == armed' = FALSE /\ journal' = << >> /\ base' = mem'

------------------------------------------------------------------------------
(***************************************************************************)
(* Entering a locked call.                                                 *)
(***************************************************************************)

Locked == worker = "running"

\* lock_shared drops the speculation the first time it meets a poisoned lock.
Recovering == poisoned /\ ~disabled

\* r(): lock_shared alone.
Reader ==
  /\ ~Locked
  /\ disabled' = (disabled \/ poisoned)
  /\ IF Recovering
     THEN mem' = RolledBack /\ pending' = NoPending /\ Disarm
     ELSE UNCHANGED specVars
  /\ UNCHANGED <<stopped, window, carry, gen, out>>

\* w(): lock_shared, then invalidate.  Settled is the state that is left.
DropsPending == Recovering \/ pending # NoPending
Settled == IF DropsPending THEN RolledBack ELSE mem
Writer ==
  /\ ~Locked
  /\ disabled' = (disabled \/ poisoned)
  /\ pending' = NoPending
  /\ base' = mem'
  /\ IF DropsPending THEN Disarm ELSE UNCHANGED <<armed, journal>>
  /\ UNCHANGED <<stopped, workerVars, gen>>

------------------------------------------------------------------------------
(***************************************************************************)
(* The worker.                                                             *)
(***************************************************************************)

\* Mutant: a stopped worker leaves its mailbox alone.
PickUpUnlessStopped ==
  /\ worker = "parked"
  /\ mail # NoCall
  /\ ~stopped
  /\ mail' = NoCall
  /\ job' = mail /\ worker' = "waiting"
  /\ UNCHANGED <<specVars, window, carry, flags, gen, out>>

\* It takes the message out of the mailbox, and drops it once stopped.
PickUp ==
  /\ worker = "parked"
  /\ mail # NoCall
  /\ mail' = NoCall
  /\ IF stopped THEN UNCHANGED <<job, worker>>
                ELSE job' = mail /\ worker' = "waiting"
  /\ UNCHANGED <<specVars, window, carry, flags, gen, out>>

\* Mutant: the phase-split window is not looked at.
MayRunInWindow == ~disabled

\* run_speculative declines, before it touches anything.
MayRun == ~disabled /\ ~window
Decline ==
  /\ worker = "waiting"
  /\ ~MayRun
  /\ worker' = "parked" /\ job' = NoCall
  /\ UNCHANGED <<specVars, mail, window, carry, flags, gen, out>>

\* run_speculative rolls back what was never consumed, arms the journal and
\* enters schedule_resident, which clears what phase 1 of a split would carry.
Begin ==
  /\ worker = "waiting"
  /\ MayRun
  /\ worker' = "running"
  /\ mem' = IF pending # NoPending THEN RolledBack ELSE mem
  /\ base' = mem'
  /\ armed' = TRUE /\ journal' = << >>
  /\ pending' = NoPending
  /\ carry' = NoCarry
  /\ UNCHANGED <<mail, job, window, flags, gen, out>>

\* One write of the run.
Write(c, v) ==
  /\ worker = "running"
  /\ Len(journal) < MaxJournal
  /\ journal' = Record(c)
  /\ mem' = [mem EXCEPT ![c] = v]
  /\ UNCHANGED <<base, armed, pending, workerVars, window, carry, flags,
                 gen, out>>

\* The run returns Ok: schedule_resident has done what it does to the state
\* it started from, and its decisions wait for the engine.
Complete ==
  /\ worker = "running"
  /\ mem = Result(base, job)
  /\ pending' = [call |-> job, decisions |-> Decision(base, job)]
  /\ worker' = "parked" /\ job' = NoCall
  /\ UNCHANGED <<mem, base, journal, armed, mail, window, carry, flags,
                 gen, out>>

\* The run returns Err (over the soft cap, or any error of the loop).
Abandon ==
  /\ worker = "running"
  /\ mem' = RolledBack
  /\ Disarm
  /\ worker' = "parked" /\ job' = NoCall
  /\ UNCHANGED <<pending, mail, window, carry, flags, gen, out>>

\* The run panics: caught with the lock held, and never tried again.
Panic ==
  /\ worker = "running"
  /\ mem' = RolledBack
  /\ Disarm
  /\ pending' = NoPending
  /\ worker' = "parked" /\ job' = NoCall
  /\ disabled' = TRUE /\ stopped' = TRUE
  /\ UNCHANGED <<mail, window, carry, poisoned, gen, out>>

------------------------------------------------------------------------------
(***************************************************************************)
(* The entry points.                                                       *)
(***************************************************************************)

\* A getter, or a kick that is refused.
Get == Reader /\ UNCHANGED <<workerVars, poisoned>>

\* kick: a message still in the mailbox is overwritten.
Kick(slots, params) ==
  /\ Reader
  /\ ~disabled' /\ ~stopped
  /\ mail' = Now(slots, params)
  /\ UNCHANGED <<job, worker, poisoned>>

\* Mutant: the generation is not compared.
MatchesAnyGen(slots, params) ==
  /\ pending # NoPending
  /\ pending.call.slots = slots /\ pending.call.params = params

\* take_speculative: only the result of the very same call is consumed, and
\* its writes stay; any other is rolled back.
Matches(slots, params) ==
  pending # NoPending /\ pending.call = Now(slots, params)
TakeHit(slots, params) ==
  /\ ~Locked
  /\ ~Recovering
  /\ Matches(slots, params)
  /\ out' = pending.decisions
  /\ pending' = NoPending
  /\ mem' = mem
  /\ Disarm
  /\ UNCHANGED <<workerVars, window, carry, flags, gen>>
TakeMiss(slots, params) ==
  /\ Recovering \/ ~Matches(slots, params)
  /\ mem' = Settled
  /\ Writer
  /\ UNCHANGED <<window, carry, poisoned, out>>

\* schedule and schedule_resident.
Schedule(slots, params) ==
  /\ mem' = Result(Settled, Now(slots, params))
  /\ Writer
  /\ out' = Decision(Settled, Now(slots, params))
  /\ window' = FALSE
  /\ carry' = NoCarry
  /\ UNCHANGED poisoned

\* Mutant: phase 2 does not claim the window.
Phase2Unclaimed ==
  /\ mem' = AdmitResult(Settled, carry)
  /\ Writer
  /\ out' = Admission(Settled, carry)
  /\ window' = FALSE
  /\ carry' = NoCarry
  /\ UNCHANGED poisoned

\* schedule_phase1 opens the window, schedule_phase2 claims it and is refused
\* (a Get) when it is shut.
Phase1(slots, params) ==
  /\ mem' = ProbeResult(Settled, Now(slots, params))
  /\ Writer
  /\ carry' = Probe(Settled, Now(slots, params))
  /\ window' = TRUE
  /\ UNCHANGED <<poisoned, out>>
Phase2 ==
  /\ window
  /\ mem' = AdmitResult(Settled, carry)
  /\ Writer
  /\ out' = Admission(Settled, carry)
  /\ window' = FALSE
  /\ carry' = NoCarry
  /\ UNCHANGED poisoned

\* One of the three returns Err, having written what it had written.
ScheduleFails(m) ==
  /\ mem' = m
  /\ Writer
  /\ window' = FALSE
  /\ carry' = NoCarry
  /\ UNCHANGED <<poisoned, out>>

\* Every other w() method, and set_request_meta on the input thread.
Mutate(m) ==
  /\ mem' = m
  /\ Writer
  /\ UNCHANGED <<window, carry, poisoned, out>>

\* A call panics after it entered: the next one finds the lock poisoned.
CallPanics(m) ==
  /\ mem' = m
  /\ Writer
  /\ poisoned' = TRUE
  /\ window' \in {window, FALSE}
  /\ UNCHANGED <<carry, out>>
GetPanics == Reader /\ poisoned' = TRUE /\ UNCHANGED workerVars

Bump ==
  /\ gen < MaxGen
  /\ gen' = gen + 1
  /\ UNCHANGED <<specVars, workerVars, window, carry, flags, out>>

------------------------------------------------------------------------------
Init ==
  /\ mem \in Memory /\ base = mem
  /\ journal = << >> /\ armed = FALSE /\ pending = NoPending
  /\ mail = NoCall /\ job = NoCall /\ worker = "parked"
  /\ window = FALSE /\ carry = NoCarry
  /\ disabled = FALSE /\ stopped = FALSE /\ poisoned = FALSE
  /\ gen = 0 /\ out = NoDecision

Worker ==
  \/ PickUp \/ Decline \/ Begin
  \/ \E c \in Cells, v \in Values : Write(c, v)
  \/ Complete \/ Abandon \/ Panic

Engine ==
  \/ Get \/ GetPanics \/ Phase2 \/ Bump
  \/ \E slots \in Orders, params \in Params :
       \/ Kick(slots, params)
       \/ TakeHit(slots, params) \/ TakeMiss(slots, params)
       \/ Schedule(slots, params) \/ Phase1(slots, params)
  \/ \E m \in Memory : ScheduleFails(m) \/ Mutate(m) \/ CallPanics(m)

Next == Worker \/ Engine

Spec == Init /\ [][Next]_vars

\* The worker thread is scheduled, gets the lock it waits for, and a run ends:
\* schedule_resident loops over the running requests and the journal's soft
\* cap abandons it.  The engine owes nothing.
WorkerFairness ==
  /\ WF_vars(PickUp)
  /\ WF_vars(Decline \/ Begin)
  /\ WF_vars(Complete \/ Abandon \/ Panic)
FairSpec == Spec /\ WorkerFairness

------------------------------------------------------------------------------
(***************************************************************************)
(* Properties.                                                             *)
(***************************************************************************)

\* The types of the variables.
TypeOK ==
  /\ mem \in Memory /\ base \in Memory
  /\ journal \in Seq(Entry) /\ armed \in BOOLEAN
  /\ pending \in [call : Call, decisions : Decisions] \cup {NoPending}
  /\ mail \in Call \cup {NoCall} /\ job \in Call \cup {NoCall}
  /\ worker \in {"parked", "waiting", "running"}
  /\ window \in BOOLEAN /\ carry \in Carries \cup {NoCarry}
  /\ disabled \in BOOLEAN /\ stopped \in BOOLEAN /\ poisoned \in BOOLEAN
  /\ gen \in 0 .. MaxGen /\ out \in Decisions \cup {NoDecision}

\* The journal is armed inside a run and while its result waits, never in a
\* direct call: the scope invariant that bounds what has to be journaled.
JournalScope == armed <=> (worker = "running" \/ pending # NoPending)
OneSpeculation == ~(worker = "running" /\ pending # NoPending)

\* At every moment of a run, and until its result is consumed, rolling back
\* gives exactly the state the run started from.
RollbackExact == armed => Undo(mem, journal) = base

\* What waits for the engine is the step a direct call would compute from the
\* state as it is without the speculation, and mem is what it leaves.
PendingIsTheStep ==
  pending # NoPending =>
    /\ pending.decisions = Decision(base, pending.call)
    /\ mem = Result(base, pending.call)

\* Between the two phases of a connector step no speculation is in flight and
\* what phase 1 left is intact.
WindowQuiet == window => ~armed /\ carry # NoCarry

\* One speculation at a time, in its scope, for the step that is due, and
\* none across the window of a split step.
Scoped == JournalScope /\ OneSpeculation /\ PendingIsTheStep /\ WindowQuiet

\* A speculated step can never be told from one computed on demand: the
\* engine sees the scheduler of DirectScheduler.
ImplementsDirect == Direct!Spec

\* A kick is answered: the mailbox is emptied again, whatever the engine does.
KickAnswered == mail # NoCall ~> mail = NoCall

\* No call of the engine waits for ever for a run to end.
LockReleased == Locked ~> ~Locked

\* The worker neither sleeps on a kick nor keeps the lock.
WorkerAnswers == KickAnswered /\ LockReleased
==============================================================================
