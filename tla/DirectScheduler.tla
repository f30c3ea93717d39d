--------------------------- MODULE DirectScheduler ---------------------------
(***************************************************************************)
(* What the scheduler promises, with no speculation in it: every schedule  *)
(* call is computed, when it is made, from the state it finds, and every   *)
(* other call changes that state in the order the calls are made.          *)
(*                                                                         *)
(* Speculation.tla is shown to implement this module: a precomputed step   *)
(* can never be told from one that is computed on demand.                  *)
(*                                                                         *)
(*   mem    the manager's state (blocks, tables, requests), cell by cell   *)
(*   gen    the version of what only Python knows of the requests          *)
(*   carry  what phase 1 of a connector step leaves for phase 2            *)
(*   out    the decisions of the last schedule call                        *)
(*                                                                         *)
(* What the scheduling loop decides is left to the constants: it is some   *)
(* function of the manager's state and of the arguments of the call.       *)
(***************************************************************************)
EXTENDS Naturals

CONSTANTS Cells, Values,        \* the manager's state
          Orders, Params,       \* arguments of a call: running order, params
          MaxGen,               \* bound on gen
          Decisions, NoDecision,
          Carries, NoCarry,
          Result(_, _), Decision(_, _),            \* schedule
          ProbeResult(_, _), Probe(_, _),          \* schedule_phase1
          AdmitResult(_, _), Admission(_, _)       \* schedule_phase2

Memory == [Cells -> Values]
Call == [gen : 0 .. MaxGen, slots : Orders, params : Params]

SchedulerAssumption ==
  /\ MaxGen \in Nat
  /\ Cells # {} /\ Values # {}
  /\ NoDecision \notin Decisions
  /\ NoCarry \notin Carries
  /\ \A m \in Memory : \A call \in Call :
       /\ Result(m, call) \in Memory
       /\ Decision(m, call) \in Decisions
       /\ ProbeResult(m, call) \in Memory
       /\ Probe(m, call) \in Carries
  /\ \A m \in Memory : \A carry \in Carries :
       /\ AdmitResult(m, carry) \in Memory
       /\ Admission(m, carry) \in Decisions

VARIABLES mem, gen, carry, out

vars == <<mem, gen, carry, out>>

Init ==
  /\ mem \in Memory
  /\ gen = 0
  /\ carry = NoCarry
  /\ out = NoDecision

\* A call of the version of the requests that is current.
Now(slots, params) == [gen |-> gen, slots |-> slots, params |-> params]

Schedule(slots, params) ==
  /\ mem' = Result(mem, Now(slots, params))
  /\ out' = Decision(mem, Now(slots, params))
  /\ carry' = NoCarry
  /\ UNCHANGED gen

Phase1(slots, params) ==
  /\ mem' = ProbeResult(mem, Now(slots, params))
  /\ carry' = Probe(mem, Now(slots, params))
  /\ UNCHANGED <<gen, out>>

Phase2 ==
  /\ carry # NoCarry
  /\ mem' = AdmitResult(mem, carry)
  /\ out' = Admission(mem, carry)
  /\ carry' = NoCarry
  /\ UNCHANGED gen

\* A scheduling call that returns an error leaves what it did so far.
ScheduleFails(m) ==
  /\ mem' = m
  /\ carry' = NoCarry
  /\ UNCHANGED <<gen, out>>

\* Any other mutating call.
Mutate(m) ==
  /\ mem' = m
  /\ UNCHANGED <<gen, carry, out>>

\* A change of the requests that reaches only Python.
Bump ==
  /\ gen < MaxGen
  /\ gen' = gen + 1
  /\ UNCHANGED <<mem, carry, out>>

Next ==
  \/ \E slots \in Orders, params \in Params :
       Schedule(slots, params) \/ Phase1(slots, params)
  \/ Phase2
  \/ \E m \in Memory : ScheduleFails(m) \/ Mutate(m)
  \/ Bump

Spec == Init /\ [][Next]_vars
==============================================================================
